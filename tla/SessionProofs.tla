--------------------------- MODULE SessionProofs ---------------------------
(***************************************************************************)
(* Proofs about Session: what the proxy infers about a session is what the *)
(* server does, for every client, every set of scenarios and every server  *)
(* within the hypotheses that each theorem names.                          *)
(***************************************************************************)
EXTENDS Session, ProxyProofs, FiniteSetTheorems

-----------------------------------------------------------------------------
(***************************************************************************)
(* Part 1.  The server, taken by itself.                                   *)
(***************************************************************************)
ServerStatus == {"I", "T", "E"}

ServerFrames == {f \in BackendFrame : f.tag = "Z" => f.status # "?"}

ServerReply ==
    [frame : ServerFrames, cycle : Nat, sql : Statement, start : ServerStatus,
     last : Statement, command : CommandTag, failed : BOOLEAN,
     index : Nat, acks : Nat,
     tx : ServerStatus, stmts : [Name -> Statement], portals : [Name -> Statement]]

(***************************************************************************)
(* A reply carries the server's record as it stands.                       *)
(***************************************************************************)
LEMMA ReplyIs ==
    ASSUME NEW s \in ServerState, NEW frame \in ServerFrames, NEW sql \in Statement
    PROVE  LET r == Reply(s, frame, sql) IN
           /\ r \in ServerReply /\ r.frame = frame /\ r.sql = sql
           /\ r.cycle = s.cycle /\ r.start = s.start /\ r.last = s.last
           /\ r.command = s.command /\ r.failed = s.failed /\ r.index = s.index
           /\ r.acks = s.acks /\ r.tx = s.tx
           /\ r.stmts = s.stmts /\ r.portals = s.portals
  BY DEF Reply, ServerReply, ServerState, ServerStatus

LEMMA ReplyFields ==
    ASSUME NEW r \in ServerReply
    PROVE  /\ r.frame \in ServerFrames /\ r.cycle \in Nat /\ r.sql \in Statement
           /\ r.start \in ServerStatus /\ r.last \in Statement /\ r.command \in CommandTag
           /\ r.failed \in BOOLEAN /\ r.index \in Nat /\ r.acks \in Nat
           /\ r.tx \in ServerStatus /\ r.stmts \in [Name -> Statement]
           /\ r.portals \in [Name -> Statement]
  BY DEF ServerReply

LEMMA FrameTypes ==
    /\ \A t \in {"1", "2", "3", "T", "D", "s", "E", "N"} :
          Tagged(t) \in ServerFrames /\ Tagged(t).tag = t
    /\ \A c \in CommandTag : /\ Complete(c) \in ServerFrames
                             /\ Complete(c).tag = "C" /\ Complete(c).command = c
    /\ \A x \in ServerStatus : LET z == [tag |-> "Z", status |-> x] IN
          z \in ServerFrames /\ z.tag = "Z" /\ z.status = x
  <1>1. \A t \in {"1", "2", "3", "T", "D", "s", "E", "N"} :
           Tagged(t) \in ServerFrames /\ Tagged(t).tag = t
    BY DEF Tagged, ServerFrames, BackendFrame
  <1>2. \A c \in CommandTag : /\ Complete(c) \in ServerFrames
                              /\ Complete(c).tag = "C" /\ Complete(c).command = c
    BY DEF Complete, ServerFrames, BackendFrame
  <1>3. \A x \in ServerStatus : LET z == [tag |-> "Z", status |-> x] IN
           z \in ServerFrames /\ z.tag = "Z" /\ z.status = x
    BY DEF ServerFrames, BackendFrame, ServerStatus
  <1>4. QED
    BY <1>1, <1>2, <1>3

LEMMA ServerTypes ==
    /\ [n \in Name |-> NoSql] \in [Name -> Statement]
    /\ \A s \in Statement : ClassOf(s) \in StatementClass
    /\ \A x \in ServerStatus, c \in StatementClass :
          /\ TxAfter(x, c) \in ServerStatus
          /\ TagOf(x, c) \in CommandTag
    /\ NewServer \in ServerState
  <1>1. [n \in Name |-> NoSql] \in [Name -> Statement]
    BY DEF Statement
  <1>2. \A s \in Statement : ClassOf(s) \in StatementClass
    BY SqlAssumption DEF Statement, ClassOf, StatementClass
  <1>3. \A x \in ServerStatus, c \in StatementClass :
          /\ TxAfter(x, c) \in ServerStatus
          /\ TagOf(x, c) \in CommandTag
    BY DEF TxAfter, TagOf, ServerStatus, CommandTag
  <1>4. NewServer \in ServerState
    BY <1>1 DEF NewServer, ServerState, Statement, CommandTag
  <1>5. QED
    BY <1>1, <1>2, <1>3, <1>4

(***************************************************************************)
(* The part of ServerState that the provers need to see at a time: the     *)
(* fields of a state.                                                      *)
(***************************************************************************)
LEMMA ServerFields ==
    ASSUME NEW s \in ServerState
    PROVE  /\ s.tx \in ServerStatus /\ s.start \in ServerStatus
           /\ s.skip \in BOOLEAN /\ s.failed \in BOOLEAN
           /\ s.stmts \in [Name -> Statement] /\ s.portals \in [Name -> Statement]
           /\ s.cycle \in Nat /\ s.index \in Nat /\ s.xact \in Nat /\ s.open \in BOOLEAN
           /\ s.acks \in Nat /\ s.ignored \in Nat
           /\ s.last \in Statement /\ s.command \in CommandTag
           /\ s.copy \in {"no", "Q", "E"}
  BY DEF ServerState, ServerStatus
(***************************************************************************)
(* What running a statement leaves alone.                                  *)
(***************************************************************************)
Kept(s, t) ==
    /\ t.cycle = s.cycle /\ t.start = s.start /\ t.index = s.index
    /\ t.acks = s.acks /\ t.stmts = s.stmts /\ t.ignored = s.ignored

NoPortals == [n \in Name |-> NoSql]

LEMMA FailIs ==
    ASSUME NEW s \in ServerState, NEW sql \in Statement
    PROVE  LET t == Fail(s, sql).srv IN
           /\ t \in ServerState /\ Kept(s, t)
           /\ t.failed /\ t.skip /\ t.last = s.last /\ t.command = s.command
           /\ t.copy = s.copy /\ t.open = s.open /\ t.xact = s.xact
           /\ t.tx = IF s.tx = "I" THEN "I" ELSE "E"
           /\ t.portals = IF s.tx = "I" THEN NoPortals ELSE s.portals
           /\ Fail(s, sql).out = <<Reply(t, Tagged("E"), sql)>>
           /\ Reply(t, Tagged("E"), sql) \in ServerReply
  <1> DEFINE t == [s EXCEPT !.failed = TRUE, !.skip = TRUE,
                            !.tx = IF @ = "I" THEN "I" ELSE "E",
                            !.portals = IF s.tx = "I" THEN [n \in Name |-> NoSql] ELSE @]
  <1>1. Fail(s, sql).srv = t /\ Fail(s, sql).out = <<Reply(t, Tagged("E"), sql)>>
    BY DEF Fail, Answer
  <1>2. t \in ServerState
    BY ServerTypes DEF ServerState
  <1>3. /\ Kept(s, t) /\ t.failed /\ t.skip /\ t.last = s.last /\ t.command = s.command
        /\ t.copy = s.copy /\ t.open = s.open /\ t.xact = s.xact
        /\ t.tx = IF s.tx = "I" THEN "I" ELSE "E"
        /\ t.portals = IF s.tx = "I" THEN NoPortals ELSE s.portals
    BY DEF ServerState, Kept, NoPortals
  <1> HIDE DEF t
  <1>4. Reply(t, Tagged("E"), sql) \in ServerReply
    BY <1>2, ReplyIs, FrameTypes
  <1>5. QED
    BY <1>1, <1>2, <1>3, <1>4

LEMMA RanIs ==
    ASSUME NEW s \in ServerState, NEW text \in Statement, NEW sql \in Statement,
           NEW frames \in Seq(ServerFrames)
    PROVE  LET a == Ran(s, text, sql, frames)
               t == a.srv
               class == ClassOf(sql)
           IN  /\ t \in ServerState /\ Kept(s, t)
               /\ t.failed = s.failed /\ t.skip = s.skip /\ t.copy = s.copy
               /\ t.last = sql /\ t.command = TagOf(s.tx, class)
               /\ t.tx = TxAfter(s.tx, class)
               /\ t.portals = IF class \in {"Commit", "Rollback"} THEN NoPortals ELSE s.portals
               /\ a.out \in Seq(ServerReply) /\ Len(a.out) = Len(frames)
               /\ \A k \in 1 .. Len(frames) :
                     a.out[k] = Reply(IF frames[k].tag = "C" THEN t ELSE s, frames[k], text)
  <1> DEFINE class == ClassOf(sql)
             t == [s EXCEPT !.tx = TxAfter(@, class), !.last = sql,
                            !.command = TagOf(s.tx, class),
                            !.open = @ /\ class \notin {"Commit", "Rollback"},
                            !.portals = IF class \in {"Commit", "Rollback"}
                                        THEN [n \in Name |-> NoSql] ELSE @]
             out == [k \in DOMAIN frames |->
                       Reply(IF frames[k].tag = "C" THEN t ELSE s, frames[k], text)]
  <1>1. Ran(s, text, sql, frames).srv = t /\ Ran(s, text, sql, frames).out = out
    BY DEF Ran, Answer
  <1>2. /\ TxAfter(s.tx, class) \in ServerStatus /\ TagOf(s.tx, class) \in CommandTag
        /\ [n \in Name |-> NoSql] \in [Name -> Statement]
    BY ServerTypes, ServerFields
  <1> HIDE DEF class
  <1>3. t \in ServerState
    BY <1>2 DEF ServerState, ServerStatus
  <1>4. /\ Kept(s, t) /\ t.failed = s.failed /\ t.skip = s.skip /\ t.copy = s.copy
        /\ t.last = sql /\ t.command = TagOf(s.tx, class) /\ t.tx = TxAfter(s.tx, class)
        /\ t.portals = IF class \in {"Commit", "Rollback"} THEN NoPortals ELSE s.portals
    BY DEF ServerState, Kept, NoPortals
  <1> HIDE DEF t
  <1>5. \A k \in 1 .. Len(frames) :
           Reply(IF frames[k].tag = "C" THEN t ELSE s, frames[k], text) \in ServerReply
    BY <1>3, ReplyIs
  <1>6. out \in Seq(ServerReply) /\ Len(out) = Len(frames)
        /\ \A k \in 1 .. Len(frames) :
              out[k] = Reply(IF frames[k].tag = "C" THEN t ELSE s, frames[k], text)
    BY <1>5
  <1> HIDE DEF out
  <1>7. QED
    BY <1>1, <1>3, <1>4, <1>6 DEF class

LEMMA SuspendedIs ==
    ASSUME NEW s \in ServerState, NEW text \in Statement, NEW sql \in Statement,
           NEW n \in Nat
    PROVE  LET a == Suspended(s, text, sql, n)
               t == a.srv
           IN  /\ t \in ServerState /\ Kept(s, t)
               /\ t.failed = s.failed /\ t.skip = s.skip /\ t.copy = s.copy
               /\ t.last = sql /\ t.command = s.command /\ t.tx = s.tx
               /\ t.portals = s.portals
               /\ a.out \in Seq(ServerReply) /\ Len(a.out) = n + 1
               /\ \A k \in 1 .. n : a.out[k] = Reply(s, Tagged("D"), text)
               /\ a.out[n + 1] = Reply(t, Tagged("s"), text)
  <1> DEFINE t == [s EXCEPT !.last = sql]
             out == [k \in 1 .. n + 1 |-> IF k <= n THEN Reply(s, Tagged("D"), text)
                                          ELSE Reply(t, Tagged("s"), text)]
  <1>1. Suspended(s, text, sql, n).srv = t /\ Suspended(s, text, sql, n).out = out
    BY DEF Suspended, Answer
  <1>2. /\ t \in ServerState /\ Kept(s, t) /\ t.failed = s.failed /\ t.skip = s.skip
        /\ t.copy = s.copy /\ t.last = sql /\ t.command = s.command /\ t.tx = s.tx
        /\ t.portals = s.portals
    BY DEF ServerState, Kept
  <1> HIDE DEF t
  <1>3. Reply(s, Tagged("D"), text) \in ServerReply /\ Reply(t, Tagged("s"), text) \in ServerReply
    BY <1>2, ReplyIs, FrameTypes
  <1>4. /\ out \in Seq(ServerReply) /\ Len(out) = n + 1
        /\ \A k \in 1 .. n : out[k] = Reply(s, Tagged("D"), text)
        /\ out[n + 1] = Reply(t, Tagged("s"), text)
    BY <1>3
  <1> HIDE DEF out
  <1>5. QED
    BY <1>1, <1>2, <1>4

LEMMA CopyingIs ==
    ASSUME NEW s \in ServerState, NEW text \in Statement, NEW sql \in Statement,
           NEW mode \in {"Q", "E"}
    PROVE  LET a == Copying(s, text, sql, mode)
               t == a.srv
           IN  /\ t \in ServerState /\ Kept(s, t)
               /\ t.failed = s.failed /\ t.skip = s.skip /\ t.copy = mode
               /\ t.last = sql /\ t.command = s.command /\ t.tx = s.tx
               /\ t.portals = s.portals
               /\ a.out = <<Reply(s, Tagged("N"), text)>>
               /\ Reply(s, Tagged("N"), text) \in ServerReply
  <1> DEFINE t == [s EXCEPT !.last = sql, !.copy = mode]
  <1>1. Copying(s, text, sql, mode).srv = t
        /\ Copying(s, text, sql, mode).out = <<Reply(s, Tagged("N"), text)>>
    BY DEF Copying, Answer
  <1>2. /\ t \in ServerState /\ Kept(s, t) /\ t.failed = s.failed /\ t.skip = s.skip
        /\ t.copy = mode /\ t.last = sql /\ t.command = s.command /\ t.tx = s.tx
        /\ t.portals = s.portals
    BY DEF ServerState, Kept
  <1> HIDE DEF t
  <1>3. Reply(s, Tagged("N"), text) \in ServerReply
    BY ReplyIs, FrameTypes
  <1>4. QED
    BY <1>1, <1>2, <1>3

(***************************************************************************)
(* ReadyForQuery.                                                          *)
(***************************************************************************)
LEMMA ResetType ==
    ASSUME NEW v \in ServerState, NEW n \in Nat, NEW x \in ServerStatus,
           NEW sql \in Statement, NEW tag \in CommandTag
    PROVE  [v EXCEPT !.skip = FALSE, !.cycle = n, !.start = x, !.open = x # "I",
                     !.last = sql, !.command = tag, !.failed = FALSE,
                     !.index = 0, !.acks = 0, !.ignored = 0] \in ServerState
  <1> DEFINE w == [v EXCEPT !.skip = FALSE, !.cycle = n, !.start = x, !.open = x # "I",
                            !.last = sql]
  <1>1. w \in ServerState
    BY DEF ServerState, ServerStatus
  <1> HIDE DEF w
  <1>2. [w EXCEPT !.command = tag, !.failed = FALSE,
                  !.index = 0, !.acks = 0, !.ignored = 0] \in ServerState
    BY <1>1 DEF ServerState
  <1>3. QED
    BY <1>2 DEF w

LEMMA ReadyIs ==
    ASSUME NEW s \in ServerState, NEW out \in Seq(ServerReply)
    PROVE  LET a == Ready(Answer(s, out))
               t == a.srv
               z == a.out[Len(out) + 1]
           IN  /\ t \in ServerState /\ t.cycle = s.cycle + 1 /\ t.start = s.tx /\ t.tx = s.tx
               /\ ~t.skip /\ ~t.failed /\ t.last = NoSql /\ t.command = ""
               /\ t.index = 0 /\ t.acks = 0 /\ t.ignored = 0
               /\ t.xact = s.xact /\ (t.open <=> s.tx # "I")
               /\ t.stmts = s.stmts /\ t.copy = s.copy
               /\ t.portals = IF s.tx = "I" THEN NoPortals ELSE s.portals
               /\ a.out \in Seq(ServerReply) /\ Len(a.out) = Len(out) + 1
               /\ \A k \in 1 .. Len(out) : a.out[k] = out[k]
               /\ z \in ServerReply /\ z.frame.tag = "Z" /\ z.frame.status = s.tx
               /\ z.cycle = s.cycle /\ z.start = s.start /\ z.last = s.last
               /\ z.command = s.command /\ z.failed = s.failed /\ z.index = s.index
               /\ z.acks = s.acks /\ z.tx = s.tx
               /\ z.stmts = s.stmts /\ z.portals = t.portals
  <1> DEFINE u == [s EXCEPT !.portals = IF s.tx = "I" THEN [n \in Name |-> NoSql] ELSE @]
             t == [u EXCEPT !.skip = FALSE, !.cycle = @ + 1, !.start = u.tx, !.open = u.tx # "I",
                            !.last = NoSql, !.command = "", !.failed = FALSE,
                            !.index = 0, !.acks = 0, !.ignored = 0]
             z == Reply(u, [tag |-> "Z", status |-> u.tx], u.last)
  <1>1. Ready(Answer(s, out)).srv = t /\ Ready(Answer(s, out)).out = Append(out, z)
    BY DEF Ready, Answer
  <1>2. /\ u \in ServerState /\ u.tx = s.tx /\ u.cycle = s.cycle /\ u.start = s.start
        /\ u.last = s.last /\ u.command = s.command /\ u.failed = s.failed
        /\ u.index = s.index /\ u.xact = s.xact /\ u.acks = s.acks /\ u.stmts = s.stmts
        /\ u.copy = s.copy /\ u.portals = IF s.tx = "I" THEN NoPortals ELSE s.portals
    BY ServerTypes DEF ServerState, NoPortals
  <1> HIDE DEF u
  <1>3. /\ t \in ServerState /\ t.cycle = s.cycle + 1 /\ t.start = s.tx /\ t.tx = s.tx
        /\ ~t.skip /\ ~t.failed /\ t.last = NoSql /\ t.command = ""
        /\ t.index = 0 /\ t.acks = 0 /\ t.ignored = 0
        /\ t.xact = s.xact /\ (t.open <=> s.tx # "I")
        /\ t.stmts = s.stmts /\ t.copy = s.copy /\ t.portals = u.portals
    <2>1. NoSql \in Statement /\ "" \in CommandTag
      BY DEF Statement, CommandTag
    <2>2. t \in ServerState
      <3>1. u.tx \in ServerStatus /\ u.cycle + 1 \in Nat
        BY <1>2, ServerFields
      <3>2. QED
        BY <1>2, <2>1, <3>1, ResetType
    <2>3. t.open = (u.tx # "I") /\ t.xact = u.xact
      BY <1>2 DEF ServerState
    <2>4. /\ t.cycle = s.cycle + 1 /\ t.start = s.tx /\ t.tx = s.tx
          /\ ~t.skip /\ ~t.failed /\ t.last = NoSql /\ t.command = ""
          /\ t.index = 0 /\ t.acks = 0 /\ t.ignored = 0
          /\ t.stmts = s.stmts /\ t.copy = s.copy /\ t.portals = u.portals
      BY <1>2 DEF ServerState
    <2> HIDE DEF t
    <2>5. QED
      BY <1>2, <2>2, <2>3, <2>4
  <1>4. /\ z \in ServerReply /\ z.frame.tag = "Z" /\ z.frame.status = s.tx
        /\ z.cycle = s.cycle /\ z.start = s.start /\ z.last = s.last
        /\ z.command = s.command /\ z.failed = s.failed /\ z.index = s.index
        /\ z.acks = s.acks /\ z.tx = s.tx
        /\ z.stmts = s.stmts /\ z.portals = u.portals
    <2> DEFINE frame == [tag |-> "Z", status |-> u.tx]
    <2>1. frame \in ServerFrames /\ frame.tag = "Z" /\ frame.status = s.tx
      BY <1>2, FrameTypes, ServerFields
    <2>2. u.last \in Statement
      BY <1>2, ServerFields
    <2> HIDE DEF frame
    <2>3. z = Reply(u, frame, u.last)
      BY DEF frame
    <2> HIDE DEF z
    <2>4. QED
      BY <1>2, <2>1, <2>2, <2>3, ReplyIs
  <1> HIDE DEF t, z
  <1>5. /\ Append(out, z) \in Seq(ServerReply) /\ Len(Append(out, z)) = Len(out) + 1
        /\ \A k \in 1 .. Len(out) : Append(out, z)[k] = out[k]
        /\ Append(out, z)[Len(out) + 1] = z
    BY <1>4
  <1>6. QED
    BY <1>1, <1>2, <1>3, <1>4, <1>5
(***************************************************************************)
(* The ways a statement may go.                                            *)
(***************************************************************************)
CompletesWith(s, sql, frames) ==
    /\ frames \in Seq(ServerFrames) /\ Len(frames) >= 1
    /\ frames[Len(frames)].tag = "C"
    /\ frames[Len(frames)].command = TagOf(s.tx, ClassOf(sql))
    /\ \A k \in 1 .. Len(frames) - 1 : frames[k].tag \in {"T", "D"}

Outcome(s, text, sql, mode, a) ==
    \/ a = Fail(s, text)
    \/ \E frames : CompletesWith(s, sql, frames) /\ a = Ran(s, text, sql, frames)
    \/ /\ MaySuspend /\ ClassOf(sql) = "Select"
       /\ \E n \in Nat : a = Suspended(s, text, sql, n)
    \/ /\ sql \in CopyIn /\ ClassOf(sql) \notin {"Begin", "Commit", "Rollback"}
       /\ a = Copying(s, text, sql, mode)

Mode(header) == IF header = <<>> THEN "E" ELSE "Q"

LEMMA ResultIs ==
    ASSUME NEW header \in {<<>>, <<Tagged("T")>>}, NEW n \in Nat
    PROVE  LET frames == Result(header, n) IN
           /\ frames \in Seq(ServerFrames) /\ Len(frames) >= 1
           /\ frames[Len(frames)] = Complete("DONE")
           /\ \A k \in 1 .. Len(frames) - 1 : frames[k].tag \in {"T", "D"}
  <1>1. header \in Seq(ServerFrames) /\ \A k \in 1 .. Len(header) : header[k].tag = "T"
    <2> DEFINE h == Tagged("T")
    <2>1. h \in ServerFrames /\ h.tag = "T"
      BY FrameTypes
    <2> HIDE DEF h
    <2>2. header \in {<<>>, <<h>>}
      BY DEF h
    <2>3. CASE header = <<>>
      BY <2>3
    <2>4. CASE header = <<h>>
      BY <2>1, <2>4
    <2>5. QED
      BY <2>2, <2>3, <2>4
  <1>2. /\ Rows(n) \in Seq(ServerFrames) /\ Len(Rows(n)) = n
        /\ \A k \in 1 .. n : Rows(n)[k].tag = "D"
    <2>1. Tagged("D") \in ServerFrames /\ Tagged("D").tag = "D"
      BY FrameTypes
    <2> DEFINE d == Tagged("D")
    <2> HIDE DEF d
    <2>2. Rows(n) = [k \in 1 .. n |-> d]
      BY DEF Rows, d
    <2>3. d \in ServerFrames /\ d.tag = "D"
      BY <2>1 DEF d
    <2>4. QED
      BY <2>2, <2>3
  <1>3. Complete("DONE") \in ServerFrames
    BY FrameTypes DEF CommandTag
  <1> DEFINE c == Complete("DONE")
             rows == Rows(n)
  <1>4. Result(header, n) = (header \o rows) \o <<c>>
    BY DEF Result
  <1> HIDE DEF c, rows
  <1>5. header \o rows \in Seq(ServerFrames)
        /\ \A k \in 1 .. Len(header \o rows) : (header \o rows)[k].tag \in {"T", "D"}
    <2>1. rows \in Seq(ServerFrames) /\ \A k \in 1 .. Len(rows) : rows[k].tag = "D"
      BY <1>2 DEF rows
    <2>2. QED
      BY <1>1, <2>1
  <1>6. c \in ServerFrames
    BY <1>3 DEF c
  <1>7. QED
    <2> DEFINE q == header \o rows
    <2>1. q \in Seq(ServerFrames) /\ \A k \in 1 .. Len(q) : q[k].tag \in {"T", "D"}
      BY <1>5
    <2> HIDE DEF q
    <2>2. /\ q \o <<c>> \in Seq(ServerFrames) /\ Len(q \o <<c>>) = Len(q) + 1
          /\ (q \o <<c>>)[Len(q) + 1] = c
          /\ \A k \in 1 .. Len(q) : (q \o <<c>>)[k] = q[k]
      BY <2>1, <1>6
    <2>3. Result(header, n) = q \o <<c>>
      BY <1>4 DEF q
    <2>4. QED
      BY <2>1, <2>2, <2>3 DEF c

LEMMA CompleteIs ==
    ASSUME NEW s \in ServerState, NEW sql \in Statement
    PROVE  /\ CompletesWith(s, sql, <<Complete(TagOf(s.tx, ClassOf(sql)))>>)
           /\ ClassOf(sql) \notin {"Commit", "Rollback"} =>
                /\ TagOf(s.tx, ClassOf(sql)) = "DONE"
                /\ CompletesWith(s, sql, <<Complete("DONE")>>)
                /\ \A header \in {<<>>, <<Tagged("T")>>}, n \in Nat :
                      CompletesWith(s, sql, Result(header, n))
  <1> DEFINE c == TagOf(s.tx, ClassOf(sql))
  <1>1. c \in CommandTag
    BY ServerTypes, ServerFields
  <1>2. ClassOf(sql) \notin {"Commit", "Rollback"} => c = "DONE"
    BY DEF TagOf
  <1> HIDE DEF c
  <1>3. CompletesWith(s, sql, <<Complete(c)>>)
    <2>1. Complete(c) \in ServerFrames /\ Complete(c).tag = "C" /\ Complete(c).command = c
      BY <1>1, FrameTypes
    <2> DEFINE d == Complete(c)
    <2> HIDE DEF d
    <2>2. d \in ServerFrames /\ d.tag = "C" /\ d.command = c
      BY <2>1 DEF d
    <2>3. CompletesWith(s, sql, <<d>>)
      BY <2>2 DEF CompletesWith, c
    <2>4. QED
      BY <2>3 DEF d
  <1>4. ASSUME ClassOf(sql) \notin {"Commit", "Rollback"},
               NEW header \in {<<>>, <<Tagged("T")>>}, NEW n \in Nat
        PROVE  CompletesWith(s, sql, Result(header, n))
    <2>1. Complete("DONE").tag = "C" /\ Complete("DONE").command = c
      BY <1>2, <1>4, FrameTypes DEF CommandTag
    <2>2. QED
      BY <2>1, ResultIs DEF CompletesWith, c
  <1>5. QED
    BY <1>2, <1>3, <1>4 DEF c

LEMMA RunOutcome ==
    ASSUME NEW s \in ServerState, NEW text, NEW sql \in Statement,
           NEW header \in {<<>>, <<Tagged("T")>>}, NEW a \in Run(s, text, sql, header)
    PROVE  Outcome(s, text, sql, Mode(header), a)
  <1> DEFINE class == ClassOf(sql)
  <1>1. CASE s.tx = "E" /\ class \notin {"Commit", "Rollback"}
    BY <1>1 DEF Run, Outcome
  <1>2. CASE ~(s.tx = "E" /\ class \notin {"Commit", "Rollback"})
             /\ class \in {"Begin", "Commit", "Rollback"}
    <2>1. a = Ran(s, text, sql, <<Complete(TagOf(s.tx, class))>>)
      BY <1>2 DEF Run
    <2>2. QED
      BY <2>1, CompleteIs DEF Outcome
  <1>3. CASE ~(s.tx = "E" /\ class \notin {"Commit", "Rollback"})
             /\ class \notin {"Begin", "Commit", "Rollback"} /\ sql \in CopyIn
    <2>1. a = Copying(s, text, sql, IF header # <<>> THEN "Q" ELSE "E")
      BY <1>3 DEF Run
    <2>2. QED
      BY <1>3, <2>1 DEF Outcome, Mode
  <1>4. CASE ~(s.tx = "E" /\ class \notin {"Commit", "Rollback"})
             /\ class \notin {"Begin", "Commit", "Rollback"} /\ sql \notin CopyIn
    <2>1. \/ a = Fail(s, text)
          \/ \E n \in 0 .. MaxRows : a = Ran(s, text, sql, Result(header, n))
          \/ a = Ran(s, text, sql, <<Complete("DONE")>>)
          \/ /\ MaySuspend /\ class = "Select"
             /\ \E n \in 1 .. MaxRows : a = Suspended(s, text, sql, n)
      BY <1>4 DEF Run
    <2>2. 0 .. MaxRows \subseteq Nat /\ 1 .. MaxRows \subseteq Nat
      BY SessionAssumption
    <2>3. QED
      BY <1>4, <2>1, <2>2, CompleteIs DEF Outcome
  <1>5. QED
    BY <1>1, <1>2, <1>3, <1>4
(***************************************************************************)
(* Part 2.  Query cycles.  Within a cycle every reply carries the cycle's  *)
(* number, and only the last one, ReadyForQuery, ends it.                  *)
(***************************************************************************)
Stays(s, t) ==
    t.cycle = s.cycle /\ t.start = s.start /\ t.index = s.index

IsAnswer(a) ==
    a = Answer(a.srv, a.out) /\ a.srv \in ServerState /\ a.out \in Seq(ServerReply)

Within(s, a) ==
    /\ IsAnswer(a) /\ Stays(s, a.srv)
    /\ \A k \in 1 .. Len(a.out) : Stays(s, a.out[k]) /\ a.out[k].frame.tag # "Z"

Ends(s, a) ==
    /\ IsAnswer(a) /\ a.srv.cycle = s.cycle + 1 /\ ~a.srv.skip /\ a.srv.copy = "no"
    /\ a.srv.index = 0 /\ a.srv.tx = a.srv.start /\ (a.srv.open <=> a.srv.start # "I")
    /\ a.out # <<>> /\ a.out[Len(a.out)].frame.tag = "Z"
    /\ a.out[Len(a.out)].frame.status = a.srv.start
    /\ \A k \in 1 .. Len(a.out) : /\ Stays(s, a.out[k])
                                  /\ a.out[k].frame.tag = "Z" => k = Len(a.out)

LEMMA OneReply ==
    ASSUME NEW t \in ServerState, NEW r \in ServerReply
    PROVE  LET a == Answer(t, <<r>>) IN
           IsAnswer(a) /\ a.srv = t /\ a.out = <<r>> /\ Len(a.out) = 1 /\ a.out[1] = r
  BY DEF IsAnswer, Answer

LEMMA NoReply ==
    ASSUME NEW t \in ServerState
    PROVE  LET a == Answer(t, <<>>) IN
           IsAnswer(a) /\ a.srv = t /\ a.out = <<>> /\ Len(a.out) = 0
  BY DEF IsAnswer, Answer

LEMMA OutcomeWithin ==
    ASSUME NEW s \in ServerState, NEW text \in Statement, NEW sql \in Statement,
           NEW mode \in {"Q", "E"}, NEW a, Outcome(s, text, sql, mode, a)
    PROVE  /\ Within(s, a)
           /\ a.srv.copy = s.copy \/ (sql \in CopyIn /\ a.srv.copy = mode)
  <1>1. CASE a = Fail(s, text)
    <2> DEFINE t == a.srv
               r == Reply(t, Tagged("E"), text)
    <2>1. t \in ServerState /\ Stays(s, t) /\ t.copy = s.copy /\ a.out = <<r>>
      BY <1>1, FailIs DEF Kept, Stays
    <2>2. r \in ServerReply /\ Stays(s, r) /\ r.frame.tag # "Z"
      BY <2>1, ReplyIs, FrameTypes DEF Stays
    <2>3. a = Answer(t, <<r>>)
      BY <1>1, <2>1 DEF Fail, Answer
    <2> HIDE DEF t, r
    <2>4. QED
      BY <2>1, <2>2, <2>3, OneReply DEF Within, t
  <1>2. ASSUME NEW frames, CompletesWith(s, sql, frames), a = Ran(s, text, sql, frames)
        PROVE  Within(s, a) /\ a.srv.copy = s.copy
    <2> DEFINE t == a.srv
    <2>0. frames \in Seq(ServerFrames) /\ \A k \in 1 .. Len(frames) : frames[k].tag # "Z"
      BY <1>2 DEF CompletesWith
    <2>1. /\ t \in ServerState /\ Stays(s, t) /\ t.copy = s.copy
          /\ a.out \in Seq(ServerReply) /\ Len(a.out) = Len(frames)
          /\ \A k \in 1 .. Len(frames) :
                a.out[k] = Reply(IF frames[k].tag = "C" THEN t ELSE s, frames[k], text)
      BY <1>2, <2>0, RanIs DEF Kept, Stays
    <2>2. a = Answer(t, a.out)
      BY <1>2 DEF Ran, Answer
    <2>3. \A k \in 1 .. Len(a.out) : Stays(s, a.out[k]) /\ a.out[k].frame = frames[k]
      <3> SUFFICES ASSUME NEW k \in 1 .. Len(a.out)
                   PROVE  Stays(s, a.out[k]) /\ a.out[k].frame = frames[k]
        OBVIOUS
      <3> DEFINE u == IF frames[k].tag = "C" THEN t ELSE s
      <3>1. u \in ServerState /\ Stays(s, u) /\ frames[k] \in ServerFrames
        BY <2>0, <2>1 DEF Stays
      <3>2. a.out[k] = Reply(u, frames[k], text)
        BY <2>1
      <3> HIDE DEF u
      <3>3. QED
        BY <3>1, <3>2, ReplyIs DEF Stays
    <2>4. QED
      BY <2>0, <2>1, <2>2, <2>3 DEF Within, IsAnswer
  <1>3. ASSUME NEW n \in Nat, a = Suspended(s, text, sql, n)
        PROVE  Within(s, a) /\ a.srv.copy = s.copy
    <2> DEFINE t == a.srv
    <2>1. /\ t \in ServerState /\ Stays(s, t) /\ t.copy = s.copy
          /\ a.out \in Seq(ServerReply) /\ Len(a.out) = n + 1
          /\ \A k \in 1 .. n : a.out[k] = Reply(s, Tagged("D"), text)
          /\ a.out[n + 1] = Reply(t, Tagged("s"), text)
      BY <1>3, SuspendedIs DEF Kept, Stays
    <2>2. a = Answer(t, a.out)
      BY <1>3 DEF Suspended, Answer
    <2>3. /\ Stays(s, Reply(s, Tagged("D"), text))
          /\ Reply(s, Tagged("D"), text).frame.tag = "D"
          /\ Stays(s, Reply(t, Tagged("s"), text))
          /\ Reply(t, Tagged("s"), text).frame.tag = "s"
      BY <2>1, ReplyIs, FrameTypes DEF Stays
    <2>4. \A k \in 1 .. Len(a.out) : Stays(s, a.out[k]) /\ a.out[k].frame.tag # "Z"
      <3> SUFFICES ASSUME NEW k \in 1 .. Len(a.out)
                   PROVE  Stays(s, a.out[k]) /\ a.out[k].frame.tag # "Z"
        OBVIOUS
      <3>1. k \in 1 .. n \/ k = n + 1
        BY <2>1
      <3>2. QED
        BY <2>1, <2>3, <3>1
    <2>5. QED
      BY <2>1, <2>2, <2>4 DEF Within, IsAnswer
  <1>4. CASE sql \in CopyIn /\ a = Copying(s, text, sql, mode)
    <2> DEFINE t == a.srv
               r == Reply(s, Tagged("N"), text)
    <2>1. t \in ServerState /\ Stays(s, t) /\ t.copy = mode /\ a.out = <<r>>
      BY <1>4, CopyingIs DEF Kept, Stays
    <2>2. r \in ServerReply /\ Stays(s, r) /\ r.frame.tag # "Z"
      BY ReplyIs, FrameTypes DEF Stays
    <2>3. a = Answer(t, <<r>>)
      BY <1>4, <2>1 DEF Copying, Answer
    <2> HIDE DEF t, r
    <2>4. QED
      BY <1>4, <2>1, <2>2, <2>3, OneReply DEF Within, t
  <1>5. QED
    BY <1>1, <1>2, <1>3, <1>4 DEF Outcome

LEMMA JoinWithin ==
    ASSUME NEW s, NEW a, Within(s, a), NEW b, Within(a.srv, b)
    PROVE  Within(s, Answer(b.srv, a.out \o b.out))
  <1> DEFINE q == a.out
             w == b.out
             t == b.srv
  <1>1. /\ q \in Seq(ServerReply) /\ w \in Seq(ServerReply) /\ t \in ServerState
        /\ Stays(s, t)
        /\ \A k \in 1 .. Len(q) : Stays(s, q[k]) /\ q[k].frame.tag # "Z"
        /\ \A k \in 1 .. Len(w) : Stays(s, w[k]) /\ w[k].frame.tag # "Z"
    BY DEF Within, IsAnswer, Stays
  <1> HIDE DEF q, w, t
  <1>2. /\ q \o w \in Seq(ServerReply)
        /\ \A k \in 1 .. Len(q \o w) : Stays(s, (q \o w)[k]) /\ (q \o w)[k].frame.tag # "Z"
    BY <1>1
  <1> DEFINE x == q \o w
  <1>3. x \in Seq(ServerReply)
        /\ \A k \in 1 .. Len(x) : Stays(s, x[k]) /\ x[k].frame.tag # "Z"
    BY <1>2
  <1> HIDE DEF x
  <1>4. Within(s, Answer(t, x))
    BY <1>1, <1>3 DEF Within, IsAnswer, Answer
  <1>5. QED
    BY <1>4 DEF q, w, t, x
(***************************************************************************)
(* A text, statement by statement: the function `after' of RunText.        *)
(***************************************************************************)
AnswerSet == [srv : ServerState, out : Seq(ServerReply)]

NextAnswers(text, header, sql, as) ==
    UNION {IF a.srv.skip THEN {a}
           ELSE {Answer(b.srv, a.out \o b.out) :
                    b \in Run(Began(a.srv), text, sql, header)} : a \in as}

Progress(s, text, sqls, header, f) ==
    [n \in 0 .. Len(sqls) |->
        IF n = 0 THEN {Answer(s, <<>>)}
        ELSE NextAnswers(text, header, sqls[n], f[n - 1])]

LEMMA AnswerSetIs == \A a : a \in AnswerSet <=> IsAnswer(a)
  BY DEF AnswerSet, IsAnswer, Answer

LEMMA HeaderMode ==
    ASSUME NEW header PROVE Mode(header) \in {"Q", "E"}
  BY DEF Mode

LEMMA BeganIs ==
    ASSUME NEW s \in ServerState
    PROVE  LET t == Began(s) IN
           /\ t \in ServerState /\ Kept(s, t)
           /\ t.tx = s.tx /\ t.skip = s.skip /\ t.last = s.last /\ t.command = s.command
           /\ t.failed = s.failed /\ t.copy = s.copy /\ t.portals = s.portals
  <1>1. CASE s.open
    BY <1>1 DEF Began, Kept
  <1>2. CASE ~s.open
    <2> DEFINE n == s.xact + 1
    <2>1. Began(s) = [s EXCEPT !.open = TRUE, !.xact = n] /\ n \in Nat
      BY <1>2, ServerFields DEF Began
    <2> HIDE DEF n
    <2>2. QED
      BY <2>1 DEF ServerState, Kept
  <1>3. QED
    BY <1>1, <1>2

LEMMA RunWithin ==
    ASSUME NEW s \in ServerState, NEW text \in Statement, NEW sql \in Statement,
           NEW header \in {<<>>, <<Tagged("T")>>}, NEW b \in Run(Began(s), text, sql, header)
    PROVE  /\ Within(s, b)
           /\ b.srv.copy = s.copy \/ (sql \in CopyIn /\ b.srv.copy = Mode(header))
  <1> DEFINE t == Began(s)
  <1>1. t \in ServerState /\ Stays(s, t) /\ t.copy = s.copy
    BY BeganIs DEF Kept, Stays
  <1> HIDE DEF t
  <1>2. b \in Run(t, text, sql, header)
    BY DEF t
  <1>3. /\ Within(t, b)
        /\ b.srv.copy = t.copy \/ (sql \in CopyIn /\ b.srv.copy = Mode(header))
    BY <1>1, <1>2, RunOutcome, OutcomeWithin, HeaderMode
  <1>4. QED
    BY <1>1, <1>3 DEF Within, Stays

LEMMA NextAnswersType ==
    ASSUME NEW text \in Statement, NEW header \in {<<>>, <<Tagged("T")>>},
           NEW sql \in Statement, NEW as \in SUBSET AnswerSet
    PROVE  NextAnswers(text, header, sql, as) \in SUBSET AnswerSet
  <1> SUFFICES ASSUME NEW x \in NextAnswers(text, header, sql, as)
               PROVE  x \in AnswerSet
    OBVIOUS
  <1>1. PICK a \in as : \/ a.srv.skip /\ x = a
                        \/ /\ ~a.srv.skip
                           /\ \E b \in Run(Began(a.srv), text, sql, header) :
                                 x = Answer(b.srv, a.out \o b.out)
    BY DEF NextAnswers
  <1>2. IsAnswer(a)
    BY AnswerSetIs
  <1>3. ASSUME NEW b \in Run(Began(a.srv), text, sql, header), x = Answer(b.srv, a.out \o b.out)
        PROVE  x \in AnswerSet
    <2>1. a.srv \in ServerState /\ a.out \in Seq(ServerReply)
      BY <1>2 DEF IsAnswer
    <2>2. Within(a.srv, b)
      BY <2>1, RunWithin
    <2>3. b.srv \in ServerState /\ a.out \o b.out \in Seq(ServerReply)
      BY <2>1, <2>2 DEF Within, IsAnswer
    <2>4. QED
      BY <1>3, <2>3 DEF AnswerSet, Answer
  <1>4. QED
    BY <1>1, <1>3

LEMMA ProgressExists ==
    ASSUME NEW s \in ServerState, NEW text \in Statement, NEW sqls \in Seq(Statement),
           NEW header \in {<<>>, <<Tagged("T")>>}
    PROVE  \E f : f = Progress(s, text, sqls, header, f)
  <1> DEFINE n == Len(sqls)
             S == SUBSET AnswerSet
             h == [p \in (1 .. n) \X S |-> NextAnswers(text, header, sqls[p[1]], p[2])]
             first == {Answer(s, <<>>)}
  <1>1. n \in Nat
    OBVIOUS
  <1>2. first \in S
    BY NoReply, AnswerSetIs
  <1>3. h \in [(1 .. n) \X S -> S]
    <2> SUFFICES ASSUME NEW k \in 1 .. n, NEW as \in S
                 PROVE  NextAnswers(text, header, sqls[k], as) \in S
      OBVIOUS
    <2>1. sqls[k] \in Statement
      OBVIOUS
    <2>2. QED
      BY <2>1, NextAnswersType
  <1>4. \A k \in 1 .. n, as \in S : h[<<k, as>>] = NextAnswers(text, header, sqls[k], as)
    OBVIOUS
  <1> HIDE DEF S, h, first
  <1>5. PICK f \in [0 .. n -> S] : Follows(f, n, first, h)
    BY <1>1, <1>2, <1>3, RecursionExists
  <1>6. \A k \in 0 .. n : f[k] = IF k = 0 THEN first
                                 ELSE NextAnswers(text, header, sqls[k], f[k - 1])
    <2> SUFFICES ASSUME NEW k \in 0 .. n
                 PROVE  f[k] = IF k = 0 THEN first
                               ELSE NextAnswers(text, header, sqls[k], f[k - 1])
      OBVIOUS
    <2>1. CASE k = 0
      BY <1>5, <2>1 DEF Follows
    <2>2. CASE k # 0
      <3>1. k \in 1 .. n /\ k - 1 \in 0 .. n
        BY <1>1, <2>2
      <3>2. f[k] = h[<<k, f[k - 1]>>] /\ f[k - 1] \in S
        BY <1>5, <3>1 DEF Follows
      <3>3. QED
        BY <1>4, <2>2, <3>1, <3>2
    <2>3. QED
      BY <2>1, <2>2
  <1>7. f = Progress(s, text, sqls, header, f)
    BY <1>5, <1>6 DEF Progress, first
  <1>8. QED
    BY <1>7

LEMMA StatementsType ==
    ASSUME NEW text \in Sql
    PROVE  /\ StatementsOf(text) \in Seq(Sql) /\ StatementsOf(text) \in Seq(Statement)
           /\ text \in Statement
           /\ \A k \in 1 .. Len(StatementsOf(text)) :
                 StatementsOf(text)[k] \in CopyIn => StatementsOf(text) = <<text>>
  <1> DEFINE q == StatementsOf(text)
  <1>1. q \in Seq(Sql) /\ \A k \in 1 .. Len(q) : q[k] \in CopyIn => q = <<text>>
    <2>1. CASE text \in DOMAIN Script
      <3>1. q \in Seq(Sql \ CopyIn)
        BY <2>1, ScriptAssumption DEF StatementsOf
      <3>2. QED
        BY <3>1
    <2>2. CASE text \notin DOMAIN Script
      BY <2>2 DEF StatementsOf
    <2>3. QED
      BY <2>1, <2>2
  <1> HIDE DEF q
  <1>2. q \in Seq(Statement) /\ text \in Statement
    BY <1>1 DEF Statement
  <1>3. QED
    BY <1>1, <1>2 DEF q

LEMMA RunTextIs ==
    ASSUME NEW s \in ServerState, NEW text \in Sql, NEW header \in {<<>>, <<Tagged("T")>>},
           StatementsOf(text) # <<>>
    PROVE  \E f : /\ f = Progress(s, text, StatementsOf(text), header, f)
                  /\ RunText(s, text, header) = f[Len(StatementsOf(text))]
  <1> DEFINE sqls == StatementsOf(text)
             u == CHOOSE u : u = Progress(s, text, sqls, header, u)
  <1>1. sqls \in Seq(Statement) /\ text \in Statement
    BY StatementsType
  <1>2. RunText(s, text, header) = u[Len(sqls)]
    BY DEF RunText, Progress, NextAnswers
  <1>3. u = Progress(s, text, sqls, header, u)
    BY <1>1, ProgressExists
  <1>4. QED
    BY <1>2, <1>3
LEMMA EmptyTextIs ==
    ASSUME NEW s \in ServerState, NEW text \in Sql, NEW header,
           StatementsOf(text) = <<>>, NEW a \in RunText(s, text, header)
    PROVE  /\ a = Answer(s, <<Reply(s, Tagged("N"), text)>>)
           /\ Reply(s, Tagged("N"), text) \in ServerReply
  <1>1. a = Answer(s, <<Reply(s, Tagged("N"), text)>>)
    BY DEF RunText
  <1>2. QED
    BY <1>1, ReplyIs, FrameTypes DEF Statement

LEMMA RunTextWithin ==
    ASSUME NEW s \in ServerState, s.copy = "no", NEW text \in Sql,
           NEW header \in {<<>>, <<Tagged("T")>>}, NEW a \in RunText(s, text, header)
    PROVE  /\ Within(s, a)
           /\ a.srv.copy = "no" \/ (text \in CopyIn /\ a.srv.copy = Mode(header))
  <1> DEFINE sqls == StatementsOf(text)
             n == Len(sqls)
             good(x) == /\ Within(s, x)
                        /\ x.srv.copy = "no" \/ (text \in CopyIn /\ x.srv.copy = Mode(header))
  <1>1. CASE sqls = <<>>
    <2> DEFINE r == Reply(s, Tagged("N"), text)
    <2>1. a = Answer(s, <<r>>) /\ r \in ServerReply
      BY <1>1, EmptyTextIs
    <2>2. Stays(s, r) /\ Stays(s, s) /\ r.frame.tag # "Z"
      BY ReplyIs, FrameTypes DEF Statement, Stays
    <2> HIDE DEF r
    <2>3. QED
      BY <2>1, <2>2, OneReply DEF Within
  <1>2. CASE sqls # <<>>
    <2>1. PICK f : /\ f = Progress(s, text, sqls, header, f)
                   /\ RunText(s, text, header) = f[n]
      BY <1>2, RunTextIs
    <2>2. /\ sqls \in Seq(Sql) /\ sqls \in Seq(Statement) /\ n \in Nat /\ text \in Statement
          /\ \A k \in 1 .. n : sqls[k] \in CopyIn => sqls = <<text>>
      BY StatementsType
    <2>3. \A k \in 0 .. n : f[k] = IF k = 0 THEN {Answer(s, <<>>)}
                                   ELSE NextAnswers(text, header, sqls[k], f[k - 1])
      BY <2>1 DEF Progress
    <2> DEFINE T == {m \in Nat : m <= n => \A x \in f[m] : good(x)
                                             /\ (m < n => x.srv.copy = "no")}
    <2> HIDE DEF sqls, n
    <2>4. 0 \in T
      <3>1. \A x \in f[0] : x = Answer(s, <<>>)
        BY <2>2, <2>3
      <3>2. Within(s, Answer(s, <<>>)) /\ Answer(s, <<>>).srv = s
        BY NoReply DEF Within, Stays
      <3>3. QED
        BY <3>1, <3>2
    <2>5. ASSUME NEW m \in Nat, m \in T
          PROVE  m + 1 \in T
      <3> SUFFICES ASSUME m + 1 <= n, NEW x \in f[m + 1]
                   PROVE  good(x) /\ (m + 1 < n => x.srv.copy = "no")
        BY <2>5
      <3>1. x \in NextAnswers(text, header, sqls[m + 1], f[m]) /\ m + 1 \in 1 .. n
        BY <2>2, <2>3
      <3>2. sqls[m + 1] \in Statement
        BY <2>2, <3>1 DEF n
      <3>3. PICK y \in f[m] : \/ y.srv.skip /\ x = y
                              \/ /\ ~y.srv.skip
                                 /\ \E b \in Run(Began(y.srv), text, sqls[m + 1], header) :
                                       x = Answer(b.srv, y.out \o b.out)
        BY <3>1 DEF NextAnswers
      <3>4. good(y) /\ y.srv.copy = "no" /\ y.srv \in ServerState
        BY <2>2, <2>5 DEF Within, IsAnswer
      <3>5. ASSUME NEW b \in Run(Began(y.srv), text, sqls[m + 1], header),
                   x = Answer(b.srv, y.out \o b.out)
            PROVE  good(x) /\ (m + 1 < n => x.srv.copy = "no")
        <4>1. /\ Within(y.srv, b)
              /\ b.srv.copy = "no" \/ (sqls[m + 1] \in CopyIn /\ b.srv.copy = Mode(header))
          BY <2>2, <3>2, <3>4, RunWithin
        <4>2. Within(s, x) /\ x.srv = b.srv
          BY <3>4, <3>5, <4>1, JoinWithin DEF Answer
        <4>3. sqls[m + 1] \in CopyIn => text \in CopyIn /\ n = 1
          BY <2>2, <3>1 DEF n
        <4>4. QED
          BY <2>2, <4>1, <4>2, <4>3
      <3>6. QED
        BY <3>3, <3>4, <3>5
    <2>6. n \in T
      BY <2>2, <2>4, <2>5, InductionOverNat
    <2>7. QED
      BY <2>1, <2>2, <2>6
  <1>3. QED
    BY <1>1, <1>2

LEMMA ReadyEnds ==
    ASSUME NEW s \in ServerState, NEW a, Within(s, a), a.srv.copy = "no"
    PROVE  Ends(s, Ready(a))
  <1> DEFINE q == a.out
             t == a.srv
             b == Ready(Answer(t, q))
  <1>1. /\ a = Answer(t, q) /\ t \in ServerState /\ q \in Seq(ServerReply) /\ Stays(s, t)
        /\ t.copy = "no"
        /\ \A k \in 1 .. Len(q) : Stays(s, q[k]) /\ q[k].frame.tag # "Z"
    BY DEF Within, IsAnswer
  <1> HIDE DEF q, t
  <1>2. /\ b.srv \in ServerState /\ b.srv.cycle = t.cycle + 1 /\ ~b.srv.skip
        /\ b.srv.copy = t.copy /\ b.srv.index = 0
        /\ b.srv.tx = b.srv.start /\ (b.srv.open <=> b.srv.start # "I")
        /\ b.out \in Seq(ServerReply) /\ Len(b.out) = Len(q) + 1
        /\ \A k \in 1 .. Len(q) : b.out[k] = q[k]
        /\ b.out[Len(q) + 1].frame.tag = "Z" /\ Stays(t, b.out[Len(q) + 1])
        /\ b.out[Len(q) + 1].frame.status = b.srv.start
    <2> DEFINE z == b.out[Len(q) + 1]
    <2>1. b.srv \in ServerState /\ b.srv.cycle = t.cycle + 1 /\ ~b.srv.skip
          /\ b.srv.copy = t.copy
      BY <1>1, ReadyIs
    <2>2. /\ b.srv.index = 0 /\ b.srv.tx = t.tx /\ b.srv.start = t.tx
          /\ (b.srv.open <=> t.tx # "I")
      BY <1>1, ReadyIs
    <2>3. /\ b.out \in Seq(ServerReply) /\ Len(b.out) = Len(q) + 1
          /\ \A k \in 1 .. Len(q) : b.out[k] = q[k]
      BY <1>1, ReadyIs
    <2>4. z.frame.tag = "Z" /\ z.frame.status = t.tx
      BY <1>1, ReadyIs
    <2>5. z.cycle = t.cycle /\ z.start = t.start
      BY <1>1, ReadyIs
    <2>6. z.index = t.index
      BY <1>1, ReadyIs
    <2> HIDE DEF z, b
    <2>7. QED
      BY <2>1, <2>2, <2>3, <2>4, <2>5, <2>6 DEF Stays, z
  <1>3. b = Answer(b.srv, b.out)
    BY DEF Ready, Answer
  <1> HIDE DEF b
  <1>4. \A k \in 1 .. Len(b.out) : /\ Stays(s, b.out[k])
                                   /\ b.out[k].frame.tag = "Z" => k = Len(b.out)
    <2>1. Stays(s, b.out[Len(q) + 1])
      BY <1>1, <1>2 DEF Stays
    <2>2. QED
      BY <1>1, <1>2, <2>1
  <1>5. Ends(s, b)
    BY <1>1, <1>2, <1>3, <1>4 DEF Ends, IsAnswer, Stays
  <1>6. QED
    BY <1>1, <1>5 DEF b
(***************************************************************************)
(* The rest of what the server does with a frame.                          *)
(***************************************************************************)
SameButMaps(s, t) ==
    /\ t.tx = s.tx /\ t.skip = s.skip /\ t.cycle = s.cycle /\ t.start = s.start
    /\ t.last = s.last /\ t.command = s.command /\ t.failed = s.failed
    /\ t.index = s.index /\ t.open = s.open /\ t.xact = s.xact /\ t.acks = s.acks
    /\ t.copy = s.copy /\ t.ignored = s.ignored

LEMMA StoreIs ==
    ASSUME NEW s \in ServerState, NEW n \in Name, NEW x \in Statement
    PROVE  /\ LET t == [s EXCEPT !.stmts[n] = x] IN
              /\ t \in ServerState /\ SameButMaps(s, t)
              /\ t.stmts = Set(s.stmts, n, x) /\ t.portals = s.portals
           /\ LET t == [s EXCEPT !.portals[n] = x] IN
              /\ t \in ServerState /\ SameButMaps(s, t)
              /\ t.stmts = s.stmts /\ t.portals = Set(s.portals, n, x)
  <1>1. Set(s.stmts, n, x) \in [Name -> Statement] /\ Set(s.portals, n, x) \in [Name -> Statement]
    BY ServerFields, SetType
  <1> DEFINE ss == Set(s.stmts, n, x)
             pp == Set(s.portals, n, x)
  <1>2. [s EXCEPT !.stmts[n] = x] = [s EXCEPT !.stmts = ss]
    BY DEF Set
  <1>3. [s EXCEPT !.portals[n] = x] = [s EXCEPT !.portals = pp]
    BY DEF Set
  <1>4. ss \in [Name -> Statement] /\ pp \in [Name -> Statement]
    BY <1>1
  <1> HIDE DEF ss, pp
  <1>5. LET t == [s EXCEPT !.stmts = ss] IN
        t \in ServerState /\ SameButMaps(s, t) /\ t.stmts = ss /\ t.portals = s.portals
    BY <1>4 DEF ServerState, SameButMaps
  <1>6. LET t == [s EXCEPT !.portals = pp] IN
        t \in ServerState /\ SameButMaps(s, t) /\ t.stmts = s.stmts /\ t.portals = pp
    BY <1>4 DEF ServerState, SameButMaps
  <1>7. QED
    BY <1>2, <1>3, <1>5, <1>6 DEF ss, pp

LEMMA AcknowledgeIs ==
    ASSUME NEW s \in ServerState, NEW tag \in {"1", "2", "3"}
    PROVE  LET a == Acknowledge(s, tag)
               t == a.srv
               r == Reply(t, Tagged(tag), NoSql)
           IN  /\ t \in ServerState /\ t.acks = s.acks + 1
               /\ t.tx = s.tx /\ t.skip = s.skip /\ t.cycle = s.cycle /\ t.start = s.start
               /\ t.last = s.last /\ t.command = s.command /\ t.failed = s.failed
               /\ t.index = s.index /\ t.open = s.open /\ t.xact = s.xact
               /\ t.copy = s.copy /\ t.ignored = s.ignored
               /\ t.stmts = s.stmts /\ t.portals = s.portals
               /\ a = Answer(t, <<r>>) /\ r \in ServerReply
  <1> DEFINE t == [s EXCEPT !.acks = @ + 1]
  <1>1. Acknowledge(s, tag) = Answer(t, <<Reply(t, Tagged(tag), NoSql)>>)
    BY DEF Acknowledge
  <1>2. /\ t \in ServerState /\ t.acks = s.acks + 1
        /\ t.tx = s.tx /\ t.skip = s.skip /\ t.cycle = s.cycle /\ t.start = s.start
        /\ t.last = s.last /\ t.command = s.command /\ t.failed = s.failed
        /\ t.index = s.index /\ t.open = s.open /\ t.xact = s.xact
        /\ t.copy = s.copy /\ t.ignored = s.ignored
        /\ t.stmts = s.stmts /\ t.portals = s.portals
    BY DEF ServerState
  <1> HIDE DEF t
  <1>3. Reply(t, Tagged(tag), NoSql) \in ServerReply
    BY <1>2, ReplyIs, FrameTypes DEF Statement
  <1>4. QED
    BY <1>1, <1>2, <1>3 DEF Answer

LEMMA NumberedIs ==
    ASSUME NEW s \in ServerState, NEW f
    PROVE  LET t == Numbered(s, f) IN
           /\ t \in ServerState
           /\ t.tx = s.tx /\ t.skip = s.skip /\ t.cycle = s.cycle /\ t.start = s.start
           /\ t.last = s.last /\ t.command = s.command /\ t.failed = s.failed
           /\ t.acks = s.acks /\ t.copy = s.copy /\ t.ignored = s.ignored
           /\ t.stmts = s.stmts /\ t.portals = s.portals
           /\ t.open = s.open /\ t.xact = s.xact
           /\ t.index = IF f.tag \in {"Q", "E"} THEN s.index + 1 ELSE s.index
  <1>1. CASE f.tag \notin {"Q", "E"}
    BY <1>1 DEF Numbered
  <1>2. CASE f.tag \in {"Q", "E"}
    <2> DEFINE i == s.index + 1
    <2>1. i \in Nat
      BY ServerFields
    <2>2. Numbered(s, f) = [s EXCEPT !.index = i]
      BY <1>2 DEF Numbered
    <2> HIDE DEF i
    <2>3. LET t == [s EXCEPT !.index = i] IN
          /\ t \in ServerState
          /\ t.tx = s.tx /\ t.skip = s.skip /\ t.cycle = s.cycle /\ t.start = s.start
          /\ t.last = s.last /\ t.command = s.command /\ t.failed = s.failed
          /\ t.acks = s.acks /\ t.copy = s.copy /\ t.ignored = s.ignored
          /\ t.stmts = s.stmts /\ t.portals = s.portals
          /\ t.open = s.open /\ t.xact = s.xact /\ t.index = i
      BY <2>1 DEF ServerState
    <2>4. QED
      BY <1>2, <2>2, <2>3 DEF i
  <1>3. QED
    BY <1>1, <1>2

LEMMA ClearedIs ==
    ASSUME NEW s \in ServerState
    PROVE  LET t == [s EXCEPT !.stmts[Unnamed] = NoSql, !.portals[Unnamed] = NoSql] IN
           /\ t \in ServerState /\ SameButMaps(s, t)
           /\ t.stmts = Set(s.stmts, Unnamed, NoSql)
           /\ t.portals = Set(s.portals, Unnamed, NoSql)
  <1> DEFINE u == [s EXCEPT !.stmts[Unnamed] = NoSql]
             t == [u EXCEPT !.portals[Unnamed] = NoSql]
  <1>0. NoSql \in Statement /\ Unnamed \in Name
    BY NameAssumption DEF Statement
  <1>1. u \in ServerState /\ SameButMaps(s, u) /\ u.stmts = Set(s.stmts, Unnamed, NoSql)
        /\ u.portals = s.portals
    BY <1>0, StoreIs
  <1>2. [s EXCEPT !.stmts[Unnamed] = NoSql, !.portals[Unnamed] = NoSql] = t
    OBVIOUS
  <1> HIDE DEF u
  <1>3. t \in ServerState /\ SameButMaps(u, t) /\ t.stmts = u.stmts
        /\ t.portals = Set(u.portals, Unnamed, NoSql)
    BY <1>0, <1>1, StoreIs
  <1> HIDE DEF t
  <1>4. QED
    BY <1>1, <1>2, <1>3 DEF SameButMaps

LEMMA AcknowledgeWithin ==
    ASSUME NEW s, NEW t \in ServerState, Stays(s, t), NEW tag \in {"1", "2", "3"}
    PROVE  /\ Within(s, Acknowledge(t, tag))
           /\ Acknowledge(t, tag).srv.copy = t.copy
  <1> DEFINE a == Acknowledge(t, tag)
             u == a.srv
             r == Reply(u, Tagged(tag), NoSql)
  <1>1. u \in ServerState /\ Stays(s, u) /\ u.copy = t.copy /\ a = Answer(u, <<r>>)
        /\ r \in ServerReply
    BY AcknowledgeIs DEF Stays
  <1>2. Stays(s, r) /\ r.frame.tag # "Z"
    BY <1>1, ReplyIs, FrameTypes DEF Statement, Stays
  <1> HIDE DEF u, r
  <1>3. QED
    BY <1>1, <1>2, OneReply DEF Within, u

LEMMA FailWithin ==
    ASSUME NEW s, NEW t \in ServerState, Stays(s, t), NEW sql \in Statement
    PROVE  Within(s, Fail(t, sql)) /\ Fail(t, sql).srv.copy = t.copy
  <1>1. Outcome(t, sql, sql, "E", Fail(t, sql))
    BY DEF Outcome
  <1>2. Within(t, Fail(t, sql))
    BY <1>1, OutcomeWithin
  <1>3. QED
    BY <1>2, FailIs DEF Within, Stays
LEMMA ClientFields ==
    ASSUME NEW f \in ClientFrames
    PROVE  /\ f \in FrontendFrame
           /\ f.tag \in {"P", "B", "C", "Q", "E", "D", "S", "H", "c", "X"}
           /\ f.tag = "P" => f.name \in Name /\ f.sql \in Sql
           /\ f.tag = "B" => f.portal \in Name /\ f.stmt \in Name
           /\ f.tag = "C" => f.kind \in {"S", "P"} /\ f.name \in Name
           /\ f.tag = "Q" => f.sql \in Sql
           /\ f.tag = "E" => f.portal \in Name
           /\ f.tag = "D" => f.portal \in Name
  <1>1. f \in FrontendFrame
    BY SessionAssumption
  <1>2. f.tag \in {"P", "B", "C", "Q", "E", "D", "S", "H", "c", "X"}
        /\ (f.tag = "D" => f.portal \in Name)
    BY <1>1 DEF FrontendFrame
  <1>3. /\ f.tag = "P" => f.name \in Name /\ f.sql \in Sql
        /\ f.tag = "Q" => f.sql \in Sql
    BY <1>1, FrontendFields, SessionAssumption DEF Statement
  <1>4. /\ f.tag = "B" => f.portal \in Name /\ f.stmt \in Name
        /\ f.tag = "C" => f.kind \in {"S", "P"} /\ f.name \in Name
        /\ f.tag = "E" => f.portal \in Name
    BY <1>1, FrontendFields, SessionAssumption
  <1>5. QED
    BY <1>1, <1>2, <1>3, <1>4

(***************************************************************************)
(* Parse drops the unnamed statement before it refuses or stores the new   *)
(* one.                                                                    *)
(***************************************************************************)
Dropped(map, n) == IF n = Unnamed THEN Set(map, Unnamed, NoSql) ELSE map

LEMMA ParseIs ==
    ASSUME NEW s \in ServerState, NEW f \in ClientFrames, f.tag = "P",
           NEW a \in ParseAnswers(s, f)
    PROVE  \E v, u :
              /\ v \in ServerState /\ SameButMaps(s, v) /\ v.portals = s.portals
              /\ v.stmts = Dropped(s.stmts, f.name)
              /\ u \in ServerState /\ SameButMaps(s, u) /\ u.portals = s.portals
              /\ u.stmts = Set(s.stmts, f.name, f.sql)
              /\ \/ a = Fail(v, f.sql)
                 \/ a = Acknowledge(u, "1") /\ Len(StatementsOf(f.sql)) <= 1
  <1> DEFINE v == [s EXCEPT !.stmts[Unnamed] = IF f.name = Unnamed THEN NoSql ELSE @]
             u == [v EXCEPT !.stmts[f.name] = f.sql]
  <1>0. f.name \in Name /\ f.sql \in Sql /\ f.sql \in Statement /\ NoSql \in Statement
        /\ Unnamed \in Name /\ s.stmts \in [Name -> Statement]
    BY ClientFields, ServerFields, NameAssumption DEF Statement
  <1>1. \/ a = Fail(v, f.sql)
        \/ a = Acknowledge(u, "1") /\ ~(Len(StatementsOf(f.sql)) > 1)
    BY DEF ParseAnswers
  <1>2. Len(StatementsOf(f.sql)) \in Nat
    BY <1>0, StatementsType
  <1>3. /\ v \in ServerState /\ SameButMaps(s, v) /\ v.portals = s.portals
        /\ v.stmts = Dropped(s.stmts, f.name)
    <2> DEFINE x == IF f.name = Unnamed THEN NoSql ELSE s.stmts[Unnamed]
    <2>1. v = [s EXCEPT !.stmts[Unnamed] = x] /\ x \in Statement
      BY <1>0
    <2>2. Set(s.stmts, Unnamed, x) = Dropped(s.stmts, f.name)
      BY <1>0 DEF Set, Dropped
    <2> HIDE DEF x, v
    <2>3. QED
      BY <1>0, <2>1, <2>2, StoreIs
  <1> HIDE DEF v
  <1>4. /\ u \in ServerState /\ SameButMaps(v, u) /\ u.portals = v.portals
        /\ u.stmts = Set(v.stmts, f.name, f.sql)
    BY <1>0, <1>3, StoreIs
  <1> HIDE DEF u
  <1>5. Set(Dropped(s.stmts, f.name), f.name, f.sql) = Set(s.stmts, f.name, f.sql)
    BY <1>0 DEF Set, Dropped
  <1>6. SameButMaps(s, u) /\ u.portals = s.portals /\ u.stmts = Set(s.stmts, f.name, f.sql)
    BY <1>3, <1>4, <1>5 DEF SameButMaps
  <1>7. \/ a = Fail(v, f.sql)
        \/ a = Acknowledge(u, "1") /\ Len(StatementsOf(f.sql)) <= 1
    BY <1>1, <1>2
  <1>8. QED
    BY <1>3, <1>4, <1>6, <1>7

(***************************************************************************)
(* A frame outside COPY: Sync ends the cycle, so does a simple query       *)
(* unless it begins a COPY, and nothing else does.                         *)
(***************************************************************************)
LEMMA AnswersCycle ==
    ASSUME NEW s \in ServerState, s.copy = "no", NEW f \in ClientFrames,
           NEW a \in Answers(s, f)
    PROVE  LET t == Numbered(s, f) IN
           /\ f.tag = "S" => Ends(t, a)
           /\ f.tag = "Q" /\ ~s.skip => \/ Ends(t, a)
                                        \/ Within(t, a) /\ a.srv.copy = "Q" /\ f.sql \in CopyIn
           /\ f.tag \notin {"S", "Q"} =>
                Within(t, a) /\ (a.srv.copy = "no" \/ CopyIn # {})
           /\ f.tag \in {"H", "c", "X"} => a = Answer(s, <<>>)
  <1> DEFINE t == Numbered(s, f)
  <1>0. /\ t \in ServerState /\ Stays(t, t) /\ t.copy = "no" /\ t.skip = s.skip
        /\ f.tag \notin {"Q", "E"} => t = s
    BY NumberedIs DEF Numbered, Stays
  <1>1. a \in AnswersTo(t, f)
    BY DEF Answers
  <1> SUFFICES /\ f.tag = "S" => Ends(t, a)
               /\ f.tag = "Q" /\ ~s.skip =>
                     \/ Ends(t, a)
                     \/ Within(t, a) /\ a.srv.copy = "Q" /\ f.sql \in CopyIn
               /\ f.tag \notin {"S", "Q"} =>
                     Within(t, a) /\ (a.srv.copy = "no" \/ CopyIn # {})
               /\ f.tag \in {"H", "c", "X"} => a = Answer(s, <<>>)
    OBVIOUS
  <1> HIDE DEF t
  <1>2. NoSql \in Statement /\ Sql \subseteq Statement
    BY DEF Statement
  <1>3. CASE f.tag = "S"
    <2>1. a = Ready(Answer(t, <<>>))
      BY <1>1, <1>3 DEF AnswersTo
    <2>2. Within(t, Answer(t, <<>>)) /\ Answer(t, <<>>).srv = t
      BY <1>0, NoReply DEF Within
    <2>3. QED
      BY <1>0, <1>3, <2>1, <2>2, ReadyEnds
  <1>4. CASE f.tag # "S" /\ t.skip
    <2>1. a = Answer(t, <<>>)
      BY <1>1, <1>4 DEF AnswersTo
    <2>2. Within(t, a) /\ a.srv = t
      BY <1>0, <2>1, NoReply DEF Within
    <2>3. QED
      BY <1>0, <1>4, <2>1, <2>2
  <1>5. CASE f.tag = "P" /\ ~t.skip
    <2>1. f.name \in Name /\ f.sql \in Statement
      BY <1>2, <1>5, ClientFields
    <2>2. PICK v, u : /\ v \in ServerState /\ u \in ServerState
                      /\ SameButMaps(t, v) /\ SameButMaps(t, u)
                      /\ a = Fail(v, f.sql) \/ a = Acknowledge(u, "1")
      BY <1>0, <1>1, <1>5, ParseIs DEF AnswersTo
    <2>3. /\ v \in ServerState /\ Stays(t, v) /\ v.copy = "no"
          /\ u \in ServerState /\ Stays(t, u) /\ u.copy = "no"
      BY <1>0, <2>2 DEF SameButMaps, Stays
    <2>4. QED
      BY <1>0, <1>5, <2>1, <2>2, <2>3, FailWithin, AcknowledgeWithin
  <1>6. CASE f.tag = "B" /\ ~t.skip
    <2> DEFINE sql == t.stmts[f.stmt]
               u == [t EXCEPT !.portals[f.portal] = sql]
    <2>1. f.portal \in Name /\ f.stmt \in Name /\ sql \in Statement
      BY <1>0, <1>6, ClientFields, ServerFields
    <2>2. a = Fail(t, sql) \/ a = Acknowledge(u, "2")
      BY <1>1, <1>6 DEF AnswersTo, BindAnswers
    <2> HIDE DEF sql
    <2>3. u \in ServerState /\ Stays(t, u) /\ u.copy = "no"
      <3>1. u \in ServerState /\ SameButMaps(t, u)
        BY <1>0, <2>1, StoreIs
      <3> HIDE DEF u
      <3>2. QED
        BY <1>0, <3>1 DEF SameButMaps, Stays
    <2> HIDE DEF u
    <2>4. QED
      BY <1>0, <1>6, <2>1, <2>2, <2>3, FailWithin, AcknowledgeWithin
  <1>7. CASE f.tag = "C" /\ ~t.skip
    <2> DEFINE u == IF f.kind = "S" THEN [t EXCEPT !.stmts[f.name] = NoSql]
                    ELSE [t EXCEPT !.portals[f.name] = NoSql]
    <2>1. a = Acknowledge(u, "3")
      BY <1>1, <1>7 DEF AnswersTo, CloseAnswers
    <2>2. u \in ServerState /\ Stays(t, u) /\ u.copy = "no"
      <3>1. f.name \in Name
        BY <1>7, ClientFields
      <3>2. u \in ServerState /\ SameButMaps(t, u)
        BY <1>0, <1>2, <3>1, StoreIs
      <3> HIDE DEF u
      <3>3. QED
        BY <1>0, <3>2 DEF SameButMaps, Stays
    <2> HIDE DEF u
    <2>3. QED
      BY <1>7, <2>1, <2>2, AcknowledgeWithin
  <1>8. CASE f.tag = "D" /\ ~t.skip
    <2> DEFINE sql == t.portals[f.portal]
               frame == Tagged(IF ClassOf(sql) = "Select" THEN "T" ELSE "N")
               r == Reply(t, frame, sql)
    <2>1. f.portal \in Name /\ sql \in Statement
      BY <1>0, <1>8, ClientFields, ServerFields
    <2>2. a = Fail(t, sql) \/ a = Answer(t, <<r>>)
      BY <1>1, <1>8 DEF AnswersTo, DescribeAnswers
    <2> HIDE DEF sql
    <2>3. frame \in ServerFrames /\ frame.tag # "Z"
      BY FrameTypes
    <2> HIDE DEF frame
    <2>4. r \in ServerReply /\ Stays(t, r) /\ r.frame.tag # "Z"
      BY <1>0, <2>1, <2>3, ReplyIs DEF Stays
    <2> HIDE DEF r
    <2>5. Within(t, Answer(t, <<r>>)) /\ Answer(t, <<r>>).srv = t
      BY <1>0, <2>4, OneReply DEF Within
    <2>6. QED
      BY <1>0, <1>8, <2>1, <2>2, <2>5, FailWithin
  <1>9. CASE f.tag = "E" /\ ~t.skip
    <2> DEFINE sql == t.portals[f.portal]
    <2>1. f.portal \in Name /\ sql \in Statement
      BY <1>0, <1>9, ClientFields, ServerFields
    <2>2. \/ a = Fail(t, sql)
          \/ sql # NoSql /\ a \in RunText(t, sql, <<>>)
      BY <1>1, <1>9 DEF AnswersTo, ExecuteAnswers
    <2> HIDE DEF sql
    <2>3. CASE a = Fail(t, sql)
      BY <1>0, <1>9, <2>1, <2>3, FailWithin
    <2>4. CASE sql # NoSql /\ a \in RunText(t, sql, <<>>)
      <3>1. sql \in Sql
        BY <2>1, <2>4 DEF Statement
      <3>2. Within(t, a) /\ (a.srv.copy = "no" \/ sql \in CopyIn)
        BY <1>0, <2>4, <3>1, RunTextWithin
      <3>3. QED
        BY <1>0, <1>9, <3>2 DEF Within
    <2>5. QED
      BY <2>2, <2>3, <2>4
  <1>10. CASE f.tag = "Q" /\ ~t.skip
    <2> DEFINE u == [t EXCEPT !.stmts[Unnamed] = NoSql, !.portals[Unnamed] = NoSql]
               h == <<Tagged("T")>>
    <2>1. PICK b \in RunText(u, f.sql, h) : a = IF b.srv.copy = "no" THEN Ready(b) ELSE b
      BY <1>1, <1>10 DEF AnswersTo, QueryAnswers
    <2>2. u \in ServerState /\ Stays(t, u) /\ u.copy = "no"
      <3>1. u \in ServerState /\ SameButMaps(t, u)
        BY <1>0, ClearedIs
      <3> HIDE DEF u
      <3>2. QED
        BY <1>0, <3>1 DEF SameButMaps, Stays
    <2> HIDE DEF u
    <2>3. h # <<>> /\ h \in {<<>>, <<Tagged("T")>>}
      OBVIOUS
    <2> HIDE DEF h
    <2>4. /\ Within(u, b)
          /\ b.srv.copy = "no" \/ (f.sql \in CopyIn /\ b.srv.copy = "Q")
      BY <1>10, <2>1, <2>2, <2>3, ClientFields, RunTextWithin DEF Mode
    <2>5. Within(t, b)
      BY <2>2, <2>4 DEF Within, Stays
    <2>6. QED
      BY <1>0, <1>10, <2>1, <2>4, <2>5, ReadyEnds
  <1>11. CASE f.tag \in {"H", "c", "X"} /\ ~t.skip
    <2>1. a = Answer(t, <<>>)
      BY <1>1, <1>11 DEF AnswersTo
    <2>2. Within(t, a) /\ a.srv = t
      BY <1>0, <2>1, NoReply DEF Within
    <2>3. QED
      BY <1>0, <1>11, <2>1, <2>2
  <1>12. QED
    BY <1>3, <1>4, <1>5, <1>6, <1>7, <1>8, <1>9, <1>10, <1>11, ClientFields

(***************************************************************************)
(* Only a statement begins or ends a transaction, or the end of the cycle. *)
(***************************************************************************)
LEMMA AnswersOpen ==
    ASSUME NEW s \in ServerState, s.copy = "no", NEW f \in ClientFrames,
           NEW a \in Answers(s, f), f.tag \notin {"Q", "E"}
    PROVE  /\ a.srv.xact = s.xact
           /\ f.tag # "S" => a.srv.open = s.open
  <1>1. a \in AnswersTo(s, f)
    BY DEF Answers, Numbered
  <1>2. NoSql \in Statement /\ Sql \subseteq Statement
    BY DEF Statement
  <1>3. CASE f.tag = "S"
    <2> DEFINE none == <<>>
    <2>1. a = Ready(Answer(s, none)) /\ none \in Seq(ServerReply)
      BY <1>1, <1>3 DEF AnswersTo
    <2> HIDE DEF none
    <2>2. a.srv.xact = s.xact
      BY <2>1, ReadyIs
    <2>3. QED
      BY <1>3, <2>2
  <1>4. CASE f.tag # "S" /\ (s.skip \/ f.tag \in {"H", "c", "X"})
    <2>1. a = Answer(s, <<>>)
      BY <1>1, <1>4 DEF AnswersTo
    <2>2. QED
      BY <2>1 DEF Answer
  <1>5. CASE f.tag = "P" /\ ~s.skip
    <2>1. PICK v, u : /\ v \in ServerState /\ u \in ServerState
                      /\ SameButMaps(s, v) /\ SameButMaps(s, u)
                      /\ a = Fail(v, f.sql) \/ a = Acknowledge(u, "1")
      BY <1>1, <1>5, ParseIs DEF AnswersTo
    <2>2. f.sql \in Statement
      BY <1>2, <1>5, ClientFields
    <2>3. CASE a = Fail(v, f.sql)
      BY <2>1, <2>2, <2>3, FailIs DEF SameButMaps
    <2>4. CASE a = Acknowledge(u, "1")
      BY <2>1, <2>4, AcknowledgeIs DEF SameButMaps
    <2>5. QED
      BY <2>1, <2>3, <2>4
  <1>6. CASE f.tag = "B" /\ ~s.skip
    <2> DEFINE sql == s.stmts[f.stmt]
               u == [s EXCEPT !.portals[f.portal] = sql]
    <2>1. f.portal \in Name /\ f.stmt \in Name /\ sql \in Statement
      BY <1>6, ClientFields, ServerFields
    <2>2. a = Fail(s, sql) \/ a = Acknowledge(u, "2")
      BY <1>1, <1>6 DEF AnswersTo, BindAnswers
    <2> HIDE DEF sql
    <2>3. u \in ServerState /\ SameButMaps(s, u)
      BY <2>1, StoreIs
    <2> HIDE DEF u
    <2>4. CASE a = Fail(s, sql)
      BY <2>1, <2>4, FailIs
    <2>5. CASE a = Acknowledge(u, "2")
      BY <2>3, <2>5, AcknowledgeIs DEF SameButMaps
    <2>6. QED
      BY <2>2, <2>4, <2>5
  <1>7. CASE f.tag = "C" /\ ~s.skip
    <2> DEFINE u == IF f.kind = "S" THEN [s EXCEPT !.stmts[f.name] = NoSql]
                    ELSE [s EXCEPT !.portals[f.name] = NoSql]
    <2>1. a = Acknowledge(u, "3")
      BY <1>1, <1>7 DEF AnswersTo, CloseAnswers
    <2>2. u \in ServerState /\ SameButMaps(s, u)
      <3>1. f.name \in Name
        BY <1>7, ClientFields
      <3>2. QED
        BY <1>2, <3>1, StoreIs
    <2> HIDE DEF u
    <2>3. QED
      BY <2>1, <2>2, AcknowledgeIs DEF SameButMaps
  <1>8. CASE f.tag = "D" /\ ~s.skip
    <2> DEFINE sql == s.portals[f.portal]
    <2>1. f.portal \in Name /\ sql \in Statement
      BY <1>8, ClientFields, ServerFields
    <2>2. a = Fail(s, sql) \/ a.srv = s
      BY <1>1, <1>8 DEF AnswersTo, DescribeAnswers, Answer
    <2> HIDE DEF sql
    <2>3. QED
      BY <2>1, <2>2, FailIs
  <1>9. QED
    BY <1>3, <1>4, <1>5, <1>6, <1>7, <1>8, ClientFields

(***************************************************************************)
(* The CopyDone of a simple query's COPY ends its cycle.                   *)
(***************************************************************************)
LEMMA CopyCycle ==
    ASSUME NEW s \in ServerState, s.copy = "Q", NEW f, f.tag = "c", NEW a \in Answers(s, f)
    PROVE  Ends(s, a)
  <1> DEFINE t == [s EXCEPT !.copy = "no"]
             c == Complete("DONE")
             b == Ran(t, s.last, s.last, <<c>>)
  <1>1. a = Ready(b)
    BY DEF Answers, CopyAnswers
  <1>2. t \in ServerState /\ Stays(s, t) /\ t.copy = "no"
    BY DEF ServerState, Stays
  <1> HIDE DEF t
  <1>3. c \in ServerFrames /\ c.tag = "C" /\ s.last \in Statement
    BY FrameTypes, ServerFields DEF CommandTag
  <1> HIDE DEF c
  <1>4. /\ b.srv \in ServerState /\ Stays(s, b.srv) /\ b.srv.copy = "no"
        /\ b.out \in Seq(ServerReply) /\ Len(b.out) = 1
        /\ b.out[1] = Reply(b.srv, c, s.last)
    <2> DEFINE q == <<c>>
    <2>1. q \in Seq(ServerFrames) /\ Len(q) = 1 /\ q[1] = c
      BY <1>3
    <2> HIDE DEF q
    <2>2. b = Ran(t, s.last, s.last, q)
      BY DEF q
    <2> HIDE DEF b
    <2>3. QED
      BY <1>2, <1>3, <2>1, <2>2, RanIs DEF Kept, Stays
  <1>5. Stays(s, b.out[1]) /\ b.out[1].frame.tag # "Z"
    <2> HIDE DEF b
    <2>1. QED
      BY <1>3, <1>4, ReplyIs DEF Stays
  <1>6. b = Answer(b.srv, b.out)
    BY DEF Ran, Answer
  <1> HIDE DEF b
  <1>7. Within(s, b)
    BY <1>2, <1>4, <1>5, <1>6 DEF Within, IsAnswer
  <1>8. QED
    BY <1>1, <1>4, <1>7, ReadyEnds
-----------------------------------------------------------------------------
(***************************************************************************)
(* Part 3.  The proxy's queue of cycles.  Frontend work replaces the       *)
(* newest cycle, which it may have opened; backend frames replace the      *)
(* oldest one or, at ReadyForQuery, drop it.                               *)
(***************************************************************************)
Worked(extended, d) ==
    cycles' = SetBack(CyclesWith(extended), d) /\ next_cycle' = IdsWith(extended)

Newest(extended) ==
    IF OpensCycle(extended) THEN FreshCycle(next_cycle + 1, extended) ELSE cycles[Len(cycles)]

LEMMA WorkIs ==
    ASSUME TypeOK, NEW extended \in BOOLEAN
    PROVE  LET n == IF OpensCycle(extended) THEN Len(cycles) + 1 ELSE Len(cycles) IN
           /\ n \in Nat \ {0} /\ Newest(extended) \in Cycle
           /\ Back(CyclesWith(extended)) = Newest(extended)
           /\ Len(CyclesWith(extended)) = n
           /\ IdsWith(extended) = IF OpensCycle(extended) THEN next_cycle + 1 ELSE next_cycle
           /\ \A d \in Cycle : LET q == SetBack(CyclesWith(extended), d) IN
                 /\ q \in Seq(Cycle) /\ Len(q) = n
                 /\ \A i \in 1 .. n : q[i] = IF i = n THEN d ELSE cycles[i]
  <1> DEFINE cs == CyclesWith(extended)
             n == IF OpensCycle(extended) THEN Len(cycles) + 1 ELSE Len(cycles)
             c == FreshCycle(next_cycle + 1, extended)
  <1>1. /\ cycles \in Seq(Cycle) /\ next_cycle \in Nat /\ c \in Cycle
        /\ Len(cycles) \in Nat
    BY FreshCycleType DEF TypeOK
  <1> HIDE DEF c
  <1>2. /\ cs \in Seq(Cycle) /\ Len(cs) = n /\ n \in Nat \ {0} /\ cs[n] = Newest(extended)
        /\ \A i \in 1 .. n : i # n => cs[i] = cycles[i]
        /\ Newest(extended) \in Cycle
    <2>1. CASE OpensCycle(extended)
      <3>1. cs = Append(cycles, c) /\ n = Len(cycles) + 1 /\ Newest(extended) = c
        BY <2>1 DEF CyclesWith, Newest, c
      <3>2. QED
        BY <1>1, <3>1
    <2>2. CASE ~OpensCycle(extended)
      <3>1. cs = cycles /\ n = Len(cycles) /\ cycles # <<>> /\ Newest(extended) = cycles[Len(cycles)]
        BY <2>2 DEF CyclesWith, OpensCycle, Newest
      <3>2. QED
        BY <1>1, <3>1
    <2>3. QED
      BY <2>1, <2>2
  <1>3. Back(cs) = Newest(extended)
    BY <1>2 DEF Back
  <1>4. ASSUME NEW d \in Cycle
        PROVE  LET q == SetBack(cs, d) IN
               /\ q \in Seq(Cycle) /\ Len(q) = n
               /\ \A i \in 1 .. n : q[i] = IF i = n THEN d ELSE cycles[i]
    <2> HIDE DEF cs, n
    <2>1. SetBack(cs, d) = [cs EXCEPT ![n] = d]
      BY <1>2 DEF SetBack
    <2>2. n \in 1 .. Len(cs)
      BY <1>2
    <2>3. QED
      BY <1>2, <2>1, <2>2, ReplaceType
  <1> HIDE DEF cs
  <1>5. QED
    BY <1>2, <1>3, <1>4 DEF IdsWith, cs

(***************************************************************************)
(* What the frames do to the newest cycle.                                 *)
(***************************************************************************)
SameShape(b, d) ==
    /\ d.id = b.id /\ d.last = b.last /\ d.rows = b.rows /\ d.command = b.command
    /\ d.error = b.error /\ d.extended = b.extended /\ d.statement_index = b.statement_index

SameStatements(b, d) ==
    /\ d.statements = b.statements /\ d.executions = b.executions
    /\ d.epoch_allocated = b.epoch_allocated

Pushes(b, m) == [b EXCEPT !.mutations = Append(@, m)]

LEMMA PushesIs ==
    ASSUME NEW b \in Cycle, NEW m \in Mutation
    PROVE  LET d == Pushes(b, m) IN
           /\ d \in Cycle /\ SameShape(b, d) /\ SameStatements(b, d)
           /\ d.sealed = b.sealed /\ d.mutations = Append(b.mutations, m)
  BY AppendProperties DEF Pushes, Cycle, SameShape, SameStatements

Seals(b) == [b EXCEPT !.sealed = TRUE]

LEMMA SealsIs ==
    ASSUME NEW b \in Cycle
    PROVE  LET d == Seals(b) IN
           /\ d \in Cycle /\ SameShape(b, d) /\ SameStatements(b, d)
           /\ d.sealed /\ d.mutations = b.mutations
  BY DEF Seals, Cycle, SameShape, SameStatements

Starts(b, s, alloc) ==
    [b EXCEPT !.statements = Append(@, s), !.executions = @ + 1,
              !.epoch_allocated = @ \/ alloc]

LEMMA StartsIs ==
    ASSUME NEW b \in Cycle, NEW s \in Statement, NEW alloc \in BOOLEAN
    PROVE  LET d == Starts(b, s, alloc) IN
           /\ d \in Cycle /\ SameShape(b, d)
           /\ d.statements = Append(b.statements, s) /\ d.executions = b.executions + 1
           /\ d.epoch_allocated = (b.epoch_allocated \/ alloc)
           /\ d.sealed = b.sealed /\ d.mutations = b.mutations
  <1> DEFINE q == Append(b.statements, s)
             n == b.executions + 1
             e == b.epoch_allocated \/ alloc
  <1>1. Starts(b, s, alloc) = [b EXCEPT !.statements = q, !.executions = n, !.epoch_allocated = e]
    BY DEF Starts
  <1>2. q \in Seq(Statement) /\ n \in Nat /\ e \in BOOLEAN
    BY AppendProperties DEF Cycle
  <1> HIDE DEF q, n, e
  <1>3. QED
    BY <1>1, <1>2 DEF Cycle, SameShape, q, n, e

(***************************************************************************)
(* frontend(), for a frame that a client of Session sends.                 *)
(***************************************************************************)
MutationOf(f) ==
    CASE f.tag = "P" -> [op |-> "Parse", kind |-> "S", name |-> f.name, stmt |-> f.sql]
      [] f.tag = "B" -> [op |-> "Bind", kind |-> "P", name |-> f.portal,
                         stmt |-> prepared[f.stmt]]
      [] OTHER -> [op |-> "Close", kind |-> f.kind, name |-> f.name, stmt |-> NoSql]

Mutates(f) == f.tag \in {"P", "C"} \/ (f.tag = "B" /\ prepared[f.stmt] # NoSql)

StatementOf(f) == IF f.tag = "Q" THEN f.sql ELSE portals[f.portal]

Allocates(f) == AllocatesEpoch(CyclesWith(f.tag # "Q"))

LEMMA FrontendWork ==
    ASSUME TypeOK, NEW f \in ClientFrames, Frontend(f)
    PROVE  /\ f.tag \in {"D", "H", "c", "X"} => UNCHANGED <<cycles, next_cycle>>
           /\ f.tag \in {"P", "B", "C"} /\ Mutates(f) =>
                MutationOf(f) \in Mutation /\ Worked(TRUE, Pushes(Newest(TRUE), MutationOf(f)))
           /\ f.tag = "B" /\ ~Mutates(f) => Worked(TRUE, Newest(TRUE))
           /\ f.tag = "S" => Worked(TRUE, Seals(Newest(TRUE)))
           /\ f.tag \in {"Q", "E"} =>
                /\ StatementOf(f) \in Statement /\ Allocates(f) \in BOOLEAN
                /\ LET x == f.tag # "Q" IN
                   Worked(x, Starts(Newest(x), StatementOf(f), Allocates(f)))
           /\ tx_epoch' = IF f.tag \in {"Q", "E"} /\ Allocates(f) THEN tx_epoch + 1 ELSE tx_epoch
           /\ UNCHANGED <<startup, tx_state, reliable>>
  <1>0. \A x \in BOOLEAN : Newest(x) = Back(CyclesWith(x)) /\ CyclesWith(x) \in Seq(Cycle)
                           /\ CyclesWith(x) # <<>>
    BY WorkIs, CyclesWithType
  <1>1. CASE f.tag = "P"
    <2>1. FrontendParse(f) /\ f.name \in Name /\ f.sql \in Statement /\ f.sql # NoSql
      BY <1>1, ClientFields, SqlAssumption
         DEF Frontend, FrontendParse, FrontendBind, FrontendClose, FrontendQuery,
             FrontendExecute, FrontendSync, FrontendOther, Statement
    <2> DEFINE m == [op |-> "Parse", kind |-> "S", name |-> f.name, stmt |-> f.sql]
    <2>2. MutationOf(f) = m /\ m \in Mutation
      BY <1>1, <2>1 DEF MutationOf, Mutation
    <2>3. cycles' = PushMutation(CyclesWith(TRUE), m)
      BY <2>1 DEF FrontendParse
    <2> HIDE DEF m
    <2>4. cycles' = SetBack(CyclesWith(TRUE), Pushes(Newest(TRUE), m))
      BY <1>0, <2>3 DEF PushMutation, SetBack, Pushes, Back
    <2>5. QED
      BY <1>1, <2>1, <2>2, <2>4 DEF Worked, FrontendParse, Mutates
  <1>2. CASE f.tag = "B"
    <2>1. FrontendBind(f) /\ f.portal \in Name /\ f.stmt \in Name /\ f.portal # None
      BY <1>2, ClientFields, NameAssumption
         DEF Frontend, FrontendParse, FrontendBind, FrontendClose, FrontendQuery,
             FrontendExecute, FrontendSync, FrontendOther
    <2>2. prepared[f.stmt] \in Statement
      BY <2>1 DEF TypeOK
    <2> DEFINE m == [op |-> "Bind", kind |-> "P", name |-> f.portal, stmt |-> prepared[f.stmt]]
    <2>3. MutationOf(f) = m /\ m \in Mutation
      BY <1>2, <2>1, <2>2 DEF MutationOf, Mutation
    <2>4. cycles' = IF prepared[f.stmt] # NoSql THEN PushMutation(CyclesWith(TRUE), m)
                    ELSE CyclesWith(TRUE)
      BY <2>1 DEF FrontendBind
    <2> HIDE DEF m
    <2>5. PushMutation(CyclesWith(TRUE), m) = SetBack(CyclesWith(TRUE), Pushes(Newest(TRUE), m))
      BY <1>0 DEF PushMutation, SetBack, Pushes, Back
    <2>7. CyclesWith(TRUE) = SetBack(CyclesWith(TRUE), Newest(TRUE))
      <3>1. \A cs \in Seq(Cycle) : cs # <<>> => SetBack(cs, Back(cs)) = cs
        BY DEF SetBack, Back
      <3>2. QED
        BY <1>0, <3>1
    <2>6. QED
      BY <1>2, <2>1, <2>3, <2>4, <2>5, <2>7 DEF Worked, FrontendBind, Mutates
  <1>3. CASE f.tag = "C"
    <2>1. FrontendClose(f) /\ f.kind \in {"S", "P", "?"} /\ f.name \in Name
      BY <1>3, ClientFields, NameAssumption
         DEF Frontend, FrontendParse, FrontendBind, FrontendClose, FrontendQuery,
             FrontendExecute, FrontendSync, FrontendOther
    <2> DEFINE m == [op |-> "Close", kind |-> f.kind, name |-> f.name, stmt |-> NoSql]
    <2>2. MutationOf(f) = m /\ m \in Mutation
      BY <1>3, <2>1, NoSqlType DEF MutationOf, Mutation
    <2>3. cycles' = PushMutation(CyclesWith(TRUE), m)
      BY <2>1 DEF FrontendClose
    <2> HIDE DEF m
    <2>4. cycles' = SetBack(CyclesWith(TRUE), Pushes(Newest(TRUE), m))
      BY <1>0, <2>3 DEF PushMutation, SetBack, Pushes, Back
    <2>5. QED
      BY <1>3, <2>1, <2>2, <2>4 DEF Worked, FrontendClose, Mutates
  <1>4. CASE f.tag \in {"Q", "E"}
    <2> DEFINE x == f.tag # "Q"
               s == StatementOf(f)
               received == IF f.tag = "Q" THEN "query.received" ELSE "frontend.execute"
    <2>1. StartStatement(received, s, x) /\ UNCHANGED <<startup, tx_state, reliable>>
      <3>1. CASE f.tag = "Q"
        <4>1. FrontendQuery(f)
          BY <3>1 DEF Frontend, FrontendParse, FrontendBind, FrontendClose, FrontendQuery,
                FrontendExecute, FrontendSync, FrontendOther
        <4>2. QED
          BY <3>1, <4>1 DEF FrontendQuery, StatementOf
      <3>2. CASE f.tag = "E"
        <4>1. FrontendExecute(f) /\ f.portal # None
          BY <3>2, ClientFields, NameAssumption
             DEF Frontend, FrontendParse, FrontendBind, FrontendClose, FrontendQuery,
                FrontendExecute, FrontendSync, FrontendOther
        <4>2. QED
          BY <3>2, <4>1 DEF FrontendExecute, StatementOf
      <3>3. QED
        BY <1>4, <3>1, <3>2
    <2>2. s \in Statement
      BY <1>4, ClientFields DEF StatementOf, Statement, TypeOK
    <2>3. Allocates(f) \in BOOLEAN
      BY DEF Allocates, AllocatesEpoch
    <2>4. /\ Worked(x, Starts(Newest(x), s, Allocates(f)))
          /\ tx_epoch' = IF Allocates(f) THEN tx_epoch + 1 ELSE tx_epoch
      BY <1>0, <2>1 DEF StartStatement, Worked, Starts, Allocates
    <2>5. QED
      BY <1>4, <2>1, <2>2, <2>3, <2>4
  <1>5. CASE f.tag = "S"
    <2>1. FrontendSync(f)
      BY <1>5 DEF Frontend, FrontendParse, FrontendBind, FrontendClose, FrontendQuery,
             FrontendExecute, FrontendSync, FrontendOther
    <2>2. cycles' = SetBack(CyclesWith(TRUE), Seals(Newest(TRUE)))
      BY <1>0, <2>1 DEF FrontendSync, SetBack, Seals, Back
    <2>3. QED
      BY <1>5, <2>1, <2>2 DEF Worked, FrontendSync
  <1>6. CASE f.tag \in {"D", "H", "c", "X"}
    <2>1. FrontendOther(f)
      BY <1>6 DEF Frontend, FrontendParse, FrontendBind, FrontendClose, FrontendQuery,
             FrontendExecute, FrontendSync, FrontendOther
    <2>2. QED
      BY <1>6, <2>1 DEF FrontendOther
  <1>7. QED
    BY <1>1, <1>2, <1>3, <1>4, <1>5, <1>6, ClientFields

(***************************************************************************)
(* backend(): what a reply makes of the oldest cycle.                      *)
(***************************************************************************)
Replied(f, c) ==
    CASE f.tag \in {"1", "2", "3"} -> [c EXCEPT !.mutations = Rest(@)]
      [] f.tag = "D" -> [c EXCEPT !.rows = @ + 1]
      [] f.tag = "C" -> [Finish(c) EXCEPT !.command = f.command,
                                          !.statement_index = IF c.extended THEN @ + 1 ELSE @]
      [] f.tag = "s" -> Finish(c)
      [] f.tag = "E" -> [c EXCEPT !.error = TRUE, !.mutations = <<>>]
      [] OTHER -> c

LEMMA RepliedIs ==
    ASSUME NEW f \in ServerFrames, NEW c \in Cycle
    PROVE  LET d == Replied(f, c) IN
           /\ d \in Cycle /\ d.id = c.id /\ d.sealed = c.sealed /\ d.extended = c.extended
           /\ d.executions = c.executions /\ d.epoch_allocated = c.epoch_allocated
           /\ d.mutations = CASE f.tag \in {"1", "2", "3"} -> Rest(c.mutations)
                              [] f.tag = "E" -> <<>>
                              [] OTHER -> c.mutations
           /\ d.statements = IF f.tag \in {"C", "s"} THEN Rest(c.statements) ELSE c.statements
           /\ d.last = IF f.tag \in {"C", "s"} THEN CurrentStatement(c) ELSE c.last
           /\ d.command = IF f.tag = "C" THEN f.command ELSE c.command
           /\ d.error = (f.tag = "E" \/ c.error)
           /\ d.statement_index = IF f.tag = "C" /\ c.extended THEN c.statement_index + 1
                                  ELSE c.statement_index
  <1> DEFINE rest == Rest(c.mutations)
             done == Finish(c)
  <1>0. \A S : \A q \in Seq(S) : Rest(q) \in Seq(S)
    BY DEF Rest
  <1>1. rest \in Seq(Mutation)
    BY <1>0 DEF Cycle
  <1>2. done \in Cycle
    BY FinishType
  <1>3. /\ done.id = c.id /\ done.epoch_allocated = c.epoch_allocated
        /\ done.extended = c.extended /\ done.sealed = c.sealed
        /\ done.executions = c.executions /\ done.mutations = c.mutations
        /\ done.statement_index = c.statement_index /\ done.statements = Rest(c.statements)
        /\ done.last = CurrentStatement(c) /\ done.command = c.command
        /\ done.error = c.error
    BY DEF Finish, Cycle
  <1>4. c.error \in BOOLEAN /\ <<>> \in Seq(Mutation)
    BY DEF Cycle
  <1>5. CASE f.tag \in {"1", "2", "3"}
    <2>1. Replied(f, c) = [c EXCEPT !.mutations = rest]
      BY <1>5 DEF Replied
    <2> HIDE DEF rest
    <2>2. QED
      BY <1>1, <1>4, <1>5, <2>1 DEF Cycle, rest
  <1>6. CASE f.tag = "D"
    <2>1. Replied(f, c) = [c EXCEPT !.rows = @ + 1]
      BY <1>6 DEF Replied
    <2>2. [c EXCEPT !.rows = @ + 1] \in Cycle
      BY ReplyType DEF CommandTag
    <2>3. QED
      BY <1>4, <1>6, <2>1, <2>2 DEF Cycle
  <1>7. CASE f.tag = "C"
    <2> DEFINE n == IF c.extended THEN c.statement_index + 1 ELSE c.statement_index
    <2>1. Replied(f, c) = [done EXCEPT !.command = f.command, !.statement_index = n]
      BY <1>3, <1>7 DEF Replied
    <2>2. f.command \in CommandTag /\ n \in Nat
      BY <1>7, BackendFields DEF ServerFrames, Cycle
    <2> HIDE DEF done, n
    <2>3. LET d == [done EXCEPT !.command = f.command, !.statement_index = n] IN
          /\ d \in Cycle /\ d.id = done.id /\ d.sealed = done.sealed
          /\ d.extended = done.extended /\ d.executions = done.executions
          /\ d.epoch_allocated = done.epoch_allocated /\ d.mutations = done.mutations
          /\ d.statements = done.statements /\ d.last = done.last /\ d.command = f.command
          /\ d.error = done.error /\ d.statement_index = n
      BY <1>2, <2>2 DEF Cycle
    <2> DEFINE d == [done EXCEPT !.command = f.command, !.statement_index = n]
    <2> HIDE DEF d
    <2>4. Replied(f, c) = d
      BY <2>1 DEF d
    <2>5. /\ d \in Cycle /\ d.id = done.id /\ d.sealed = done.sealed
          /\ d.extended = done.extended /\ d.executions = done.executions
          /\ d.epoch_allocated = done.epoch_allocated /\ d.mutations = done.mutations
          /\ d.statements = done.statements /\ d.last = done.last /\ d.command = f.command
          /\ d.error = done.error /\ d.statement_index = n
      BY <2>3 DEF d
    <2>6. d.error = (f.tag = "E" \/ c.error)
      BY <1>3, <1>4, <1>7, <2>5
    <2>7. QED
      BY <1>3, <1>7, <2>4, <2>5, <2>6 DEF n
  <1>8. CASE f.tag = "s"
    <2>1. Replied(f, c) = done
      BY <1>8 DEF Replied
    <2> HIDE DEF done
    <2>2. done.error = (f.tag = "E" \/ c.error)
      BY <1>3, <1>4, <1>8
    <2>3. QED
      BY <1>2, <1>3, <1>8, <2>1, <2>2
  <1>9. CASE f.tag = "E"
    <2>1. Replied(f, c) = [c EXCEPT !.error = TRUE, !.mutations = <<>>]
      BY <1>9 DEF Replied
    <2>2. [c EXCEPT !.error = TRUE, !.mutations = <<>>] \in Cycle
      BY ReplyType DEF CommandTag
    <2>3. QED
      BY <1>9, <2>1, <2>2 DEF Cycle
  <1>10. CASE f.tag \notin {"1", "2", "3", "D", "C", "s", "E"}
    BY <1>4, <1>10 DEF Replied
  <1>11. QED
    BY <1>5, <1>6, <1>7, <1>8, <1>9, <1>10

LEMMA BackendWork ==
    ASSUME TypeOK, NEW f \in ServerFrames, Backend(f)
    PROVE  /\ f.tag # "Z" =>
                /\ cycles' \in Seq(Cycle) /\ Len(cycles') = Len(cycles)
                /\ \A i \in 1 .. Len(cycles) :
                      cycles'[i] = IF i = 1 THEN Replied(f, cycles[1]) ELSE cycles[i]
                /\ tx_state' = tx_state
           /\ f.tag = "Z" => BackendReady(f) /\ cycles' = Rest(cycles)
           /\ next_cycle' = next_cycle /\ tx_epoch' = tx_epoch
  <1> DEFINE c == cycles[1]
  <1>0. /\ cycles \in Seq(Cycle)
        /\ cycles # <<>> => Head(cycles) = c /\ c \in Cycle /\ 1 \in 1 .. Len(cycles)
    BY EndsType DEF TypeOK
  <1>1. CASE f.tag = "Z"
    <2>0. StatusOf(f) # None
      <3>1. f.status \in {"I", "T", "E"}
        BY <1>1, BackendFields DEF ServerFrames
      <3>2. StatusOf(f) \in TxState
        BY <3>1 DEF StatusOf, TxState
      <3>3. QED
        BY <3>2, NameAssumption
    <2>1. BackendReady(f)
      BY <1>1, <2>0 DEF Backend, BackendParameterStatus, BackendAcknowledge,
           BackendRowDescription, BackendDataRow, BackendCommandComplete,
           BackendPortalSuspended, BackendError, BackendOther, BackendReady
    <2>2. QED
      BY <1>1, <2>1 DEF BackendReady
  <1>2. CASE f.tag # "Z"
    <2>1. /\ cycles' = SetFront(Replied(f, c)) \/ (cycles' = cycles /\ Replied(f, c) = c)
          /\ next_cycle' = next_cycle /\ tx_epoch' = tx_epoch /\ tx_state' = tx_state
      <3>1. CASE f.tag \in {"1", "2", "3"}
        <4>1. BackendAcknowledge(f) /\ Replied(f, c) = [c EXCEPT !.mutations = Rest(@)]
          BY <3>1 DEF Replied, Backend, BackendParameterStatus, BackendAcknowledge,
               BackendRowDescription, BackendDataRow, BackendCommandComplete,
               BackendPortalSuspended, BackendError, BackendReady, BackendOther
        <4>2. CASE Unacknowledged # <<>>
          BY <1>0, <4>1, <4>2 DEF BackendAcknowledge, Unacknowledged, SetFront, Rest
        <4>3. CASE Unacknowledged = <<>>
          <5>1. cycles' = cycles
            BY <4>1, <4>3 DEF BackendAcknowledge
          <5>2. CASE cycles = <<>>
            BY <4>1, <5>1, <5>2 DEF SetFront, BackendAcknowledge
          <5>3. CASE cycles # <<>>
            <6>1. c \in Cycle /\ c.mutations = <<>>
              BY <1>0, <4>3, <5>3 DEF Unacknowledged
            <6> HIDE DEF c
            <6>2. Replied(f, c) = [c EXCEPT !.mutations = <<>>]
              BY <4>1, <6>1 DEF Rest
            <6>3. Replied(f, c) = c
              BY <6>1, <6>2 DEF Cycle
            <6>4. QED
              BY <4>1, <5>1, <6>3 DEF BackendAcknowledge
          <5>4. QED
            BY <5>2, <5>3
        <4>4. QED
          BY <4>2, <4>3
      <3>2. CASE f.tag \in {"S", "T", "N"}
        BY <1>2, <3>2 DEF Replied, Backend, BackendParameterStatus, BackendAcknowledge,
             BackendRowDescription, BackendDataRow, BackendCommandComplete,
             BackendPortalSuspended, BackendError, BackendReady, BackendOther
      <3>3. CASE f.tag \in {"D", "E", "s"}
        <4>1. BackendDataRow(f) \/ BackendError(f) \/ BackendPortalSuspended(f)
          BY <3>3 DEF Backend, BackendParameterStatus, BackendAcknowledge,
             BackendRowDescription, BackendDataRow, BackendCommandComplete,
             BackendPortalSuspended, BackendError, BackendReady, BackendOther
        <4>2. QED
          BY <1>0, <4>1 DEF Replied, BackendDataRow, BackendPortalSuspended, BackendError, SetFront
      <3>4. CASE f.tag = "C"
        <4>1. BackendCommandComplete(f)
          BY <3>4 DEF Backend, BackendParameterStatus, BackendAcknowledge,
             BackendRowDescription, BackendDataRow, BackendCommandComplete,
             BackendPortalSuspended, BackendError, BackendReady, BackendOther
        <4>2. cycles # <<>> => Finish(c).extended = c.extended
          BY <1>0 DEF Finish, Cycle
        <4>3. QED
          BY <1>0, <3>4, <4>1, <4>2 DEF Replied, BackendCommandComplete, SetFront
      <3>5. QED
        BY <1>2, <3>1, <3>2, <3>3, <3>4 DEF ServerFrames, BackendFrame
    <2>2. CASE cycles = <<>>
      <3>1. cycles' = <<>>
        BY <2>1, <2>2 DEF SetFront
      <3>2. QED
        BY <1>2, <2>1, <2>2, <3>1
    <2>3. CASE cycles # <<>>
      <3> DEFINE d == Replied(f, c)
      <3>1. d \in Cycle /\ 1 \in 1 .. Len(cycles)
        BY <1>0, <2>3, RepliedIs
      <3>2. cycles' = [cycles EXCEPT ![1] = d] \/ (cycles' = cycles /\ cycles[1] = d)
        BY <2>1, <2>3 DEF SetFront
      <3> HIDE DEF d
      <3>3. /\ cycles' \in Seq(Cycle) /\ Len(cycles') = Len(cycles)
            /\ \A i \in 1 .. Len(cycles) : cycles'[i] = IF i = 1 THEN d ELSE cycles[i]
        BY <1>0, <3>1, <3>2, ReplaceType
      <3>4. QED
        BY <1>2, <2>1, <3>3 DEF d
    <2>4. QED
      BY <2>2, <2>3
  <1>3. QED
    BY <1>1, <1>2

(***************************************************************************)
(* The events of a reply describe the oldest cycle and the statement it is *)
(* executing.                                                              *)
(***************************************************************************)
Describes(e) ==
    /\ e.cycle = IF cycles = <<>> THEN 0 ELSE cycles[1].id
    /\ e.index = IF cycles = <<>> THEN 0 ELSE BackendIndex(cycles[1])
    /\ e.stmt = IF cycles = <<>> THEN NoSql ELSE CurrentStatement(cycles[1])
    /\ e.reliable = reliable /\ e.epoch = tx_epoch

LEMMA DescribesIs ==
    ASSUME NEW names, NEW cs, cycles = <<>> <=> cs = <<>>,
           cycles # <<>> => LET c == cycles[1]
                                d == Head(cs)
                            IN  /\ d.id = c.id /\ d.statements = c.statements
                                /\ d.last = c.last /\ d.statement_index = c.statement_index
    PROVE  LET es == BackendEvents(names, cs) IN
           /\ DOMAIN es = DOMAIN names
           /\ \A k \in DOMAIN names : es[k].event = names[k] /\ Describes(es[k])
  <1> SUFFICES ASSUME NEW k \in DOMAIN names
               PROVE  LET e == BackendEvent(names[k], cs) IN
                      e.event = names[k] /\ Describes(e)
    BY DEF BackendEvents
  <1> DEFINE e == BackendEvent(names[k], cs)
  <1>1. /\ e.event = names[k] /\ e.reliable = reliable /\ e.epoch = tx_epoch
        /\ e.cycle = IF cs = <<>> THEN 0 ELSE Head(cs).id
        /\ e.index = IF cs = <<>> THEN 0 ELSE BackendIndex(Head(cs))
        /\ e.stmt = IF cs = <<>> THEN NoSql ELSE CurrentStatement(Head(cs))
    BY DEF BackendEvent
  <1>2. cycles # <<>> => /\ Head(cs).id = cycles[1].id
                         /\ BackendIndex(Head(cs)) = BackendIndex(cycles[1])
                         /\ CurrentStatement(Head(cs)) = CurrentStatement(cycles[1])
    BY DEF BackendIndex, CurrentStatement
  <1> HIDE DEF e
  <1>3. Describes(e)
    BY <1>1, <1>2 DEF Describes
  <1>4. QED
    BY <1>1, <1>3 DEF e

Elements(q) == {q[k] : k \in DOMAIN q}

LEMMA ConcatElements ==
    ASSUME NEW S, NEW a \in Seq(S), NEW b \in Seq(S)
    PROVE  a \o b \in Seq(S) /\ Elements(a \o b) = Elements(a) \cup Elements(b)
  <1> DEFINE q == a \o b
  <1>1. /\ q \in Seq(S) /\ Len(q) = Len(a) + Len(b)
        /\ \A k \in 1 .. Len(q) : q[k] = IF k <= Len(a) THEN a[k] ELSE b[k - Len(a)]
        /\ DOMAIN q = 1 .. Len(q) /\ DOMAIN a = 1 .. Len(a) /\ DOMAIN b = 1 .. Len(b)
        /\ Len(a) \in Nat /\ Len(b) \in Nat
    OBVIOUS
  <1> HIDE DEF q
  <1>2. ASSUME NEW k \in DOMAIN q
        PROVE  q[k] \in {a[i] : i \in DOMAIN a} \cup {b[i] : i \in DOMAIN b}
    <2>1. CASE k <= Len(a)
      BY <1>1, <2>1
    <2>2. CASE ~(k <= Len(a))
      <3>1. k - Len(a) \in 1 .. Len(b) /\ q[k] = b[k - Len(a)]
        BY <1>1, <2>2
      <3>2. QED
        BY <1>1, <3>1
    <2>3. QED
      BY <2>1, <2>2
  <1>3. ASSUME NEW k \in DOMAIN a PROVE a[k] \in {q[i] : i \in DOMAIN q}
    <2>1. k \in DOMAIN q /\ q[k] = a[k]
      BY <1>1
    <2>2. QED
      BY <2>1
  <1>4. ASSUME NEW k \in DOMAIN b PROVE b[k] \in {q[i] : i \in DOMAIN q}
    <2>1. Len(a) + k \in DOMAIN q /\ q[Len(a) + k] = b[k]
      BY <1>1
    <2>2. QED
      BY <2>1
  <1>5. QED
    BY <1>1, <1>2, <1>3, <1>4 DEF q, Elements

Named(es) == {es[k].event : k \in DOMAIN es}

LEMMA BackendEventsAre ==
    ASSUME TypeOK, NEW f \in ServerFrames, Backend(f)
    PROVE  /\ \A k \in DOMAIN events' : Describes(events'[k])
           /\ f.tag = "Z" =>
                \E failed \in {"transaction.failed", None} :
                   Named(events') = {"backend.ready", failed, Completed(StatusOf(f)),
                                     "connection.ready"} \ {None}
           /\ f.tag = "D" => Named(events') = {"result.row"}
           /\ f.tag = "C" => Named(events') = {"backend.command_complete", "result.completed",
                                               "statement.execution_completed"}
           /\ f.tag \notin {"Z", "D", "C"} => Named(events') \subseteq {"result.started",
                                                                       "backend.error"}
  <1> DEFINE c == cycles[1]
  <1>0. /\ cycles \in Seq(Cycle)
        /\ cycles # <<>> => Head(cycles) = c /\ c \in Cycle /\ Len(cycles) >= 1
    BY EndsType DEF TypeOK
  <1>1. ASSUME NEW names, events' = BackendEvents(names, cycles)
        PROVE  /\ Named(events') = Elements(names)
               /\ \A k \in DOMAIN events' : Describes(events'[k])
    <2>1. cycles # <<>> => LET d == Head(cycles) IN
             /\ d.id = c.id /\ d.statements = c.statements
             /\ d.last = c.last /\ d.statement_index = c.statement_index
      BY <1>0
    <2>2. /\ DOMAIN events' = DOMAIN names
          /\ \A k \in DOMAIN names : events'[k].event = names[k] /\ Describes(events'[k])
      BY <1>1, <2>1, DescribesIs
    <2>3. QED
      BY <2>2 DEF Named, Elements
  <1>2. ASSUME NEW names, events' = BackendEvents(names, cycles'), f.tag \in {"D", "E"}
        PROVE  /\ Named(events') = Elements(names)
               /\ \A k \in DOMAIN events' : Describes(events'[k])
    <2>1. /\ cycles' \in Seq(Cycle) /\ Len(cycles') = Len(cycles)
          /\ cycles # <<>> => cycles'[1] = Replied(f, c)
      BY <1>0, <1>2, BackendWork
    <2>2. /\ cycles = <<>> <=> cycles' = <<>>
          /\ cycles # <<>> => Head(cycles') = Replied(f, c)
      BY <1>0, <2>1
    <2>3. cycles # <<>> => LET d == Head(cycles') IN
             /\ d.id = c.id /\ d.statements = c.statements
             /\ d.last = c.last /\ d.statement_index = c.statement_index
      BY <1>0, <1>2, <2>2, RepliedIs
    <2>4. /\ DOMAIN events' = DOMAIN names
          /\ \A k \in DOMAIN names : events'[k].event = names[k] /\ Describes(events'[k])
      BY <1>2, <2>2, <2>3, DescribesIs
    <2>5. QED
      BY <2>4 DEF Named, Elements
  <1>3. events' = <<>> => Named(events') = {} /\ \A k \in DOMAIN events' : Describes(events'[k])
    BY DEF Named
  <1>4. CASE f.tag \in {"S", "1", "2", "3", "s", "N"}
    <2>1. events' = <<>>
      BY <1>4 DEF Backend, BackendParameterStatus, BackendAcknowledge,
           BackendRowDescription, BackendDataRow, BackendCommandComplete,
           BackendPortalSuspended, BackendError, BackendReady, BackendOther
    <2>2. QED
      BY <1>3, <1>4, <2>1
  <1>5. CASE f.tag = "T"
    <2>1. events' = BackendEvents(<<"result.started">>, cycles)
      BY <1>5 DEF Backend, BackendParameterStatus, BackendAcknowledge,
           BackendRowDescription, BackendDataRow, BackendCommandComplete,
           BackendPortalSuspended, BackendError, BackendReady, BackendOther
    <2> DEFINE names == <<"result.started">>
    <2>2. Elements(names) = {"result.started"}
      BY DEF Elements
    <2> HIDE DEF names
    <2>3. events' = BackendEvents(names, cycles)
      BY <2>1 DEF names
    <2>4. QED
      BY <1>1, <1>5, <2>2, <2>3
  <1>6. CASE f.tag \in {"D", "E"}
    <2> DEFINE a == IF f.tag = "D" THEN "result.row" ELSE "backend.error"
               names == <<a>>
    <2>1. events' = BackendEvents(names, cycles')
      BY <1>6 DEF Backend, BackendParameterStatus, BackendAcknowledge,
           BackendRowDescription, BackendDataRow, BackendCommandComplete,
           BackendPortalSuspended, BackendError, BackendReady, BackendOther
    <2>2. Elements(names) = {a}
      BY DEF Elements
    <2> HIDE DEF names
    <2>3. QED
      BY <1>2, <1>6, <2>1, <2>2
  <1>7. CASE f.tag = "C"
    <2> DEFINE names == <<"backend.command_complete", "statement.execution_completed",
                          "result.completed">>
    <2>1. events' = BackendEvents(names, cycles)
      BY <1>7 DEF Backend, BackendParameterStatus, BackendAcknowledge,
           BackendRowDescription, BackendDataRow, BackendCommandComplete,
           BackendPortalSuspended, BackendError, BackendReady, BackendOther
    <2>2. Elements(names) = {"backend.command_complete", "result.completed",
                                             "statement.execution_completed"}
      BY DEF Elements
    <2> HIDE DEF names
    <2>3. QED
      BY <1>1, <1>7, <2>1, <2>2
  <1>8. CASE f.tag = "Z"
    <2>1. BackendReady(f)
      BY <1>8, BackendWork
    <2> DEFINE new == StatusOf(f)
               failed == IF new = "FailedTransaction" /\ tx_state # new
                         THEN "transaction.failed" ELSE None
               a == <<"backend.ready">>
               b == IfAny(failed)
               e == IfAny(Completed(new))
               g == <<"connection.ready">>
               names == a \o b \o e \o g
    <2>2. events' = BackendEvents(names, cycles)
      BY <2>1 DEF BackendReady
    <2> DEFINE S == {"backend.ready", failed, Completed(new), "connection.ready"}
    <2>3. failed \in {"transaction.failed", None}
      OBVIOUS
    <2> HIDE DEF failed, new
    <2>4. /\ a \in Seq(S) /\ Elements(a) = {"backend.ready"}
          /\ g \in Seq(S) /\ Elements(g) = {"connection.ready"}
      BY DEF Elements
    <2>5. \A x \in S : IfAny(x) \in Seq(S) /\ Elements(IfAny(x)) = {x} \ {None}
      <3> SUFFICES ASSUME NEW x \in S
                   PROVE  IfAny(x) \in Seq(S) /\ Elements(IfAny(x)) = {x} \ {None}
        OBVIOUS
      <3> HIDE DEF S
      <3>1. CASE x = None
        BY <3>1 DEF IfAny, Elements
      <3>2. CASE x # None
        BY <3>2 DEF IfAny, Elements
      <3>3. QED
        BY <3>1, <3>2
    <2>6. /\ b \in Seq(S) /\ Elements(b) = {failed} \ {None}
          /\ e \in Seq(S) /\ Elements(e) = {Completed(new)} \ {None}
      BY <2>5
    <2> DEFINE R == Elements(names)
    <2>7. R = {"backend.ready"} \cup ({failed} \ {None})
                     \cup ({Completed(new)} \ {None}) \cup {"connection.ready"}
      <3> HIDE DEF a, b, e, g, S
      <3>1. a \o b \in Seq(S) /\ Elements(a \o b)
                                   = {"backend.ready"} \cup ({failed} \ {None})
        BY <2>4, <2>6, ConcatElements
      <3> DEFINE h == a \o b
                 j == h \o e
      <3>2. h \in Seq(S) /\ Elements(h) = {"backend.ready"} \cup ({failed} \ {None})
        BY <3>1
      <3> HIDE DEF h
      <3>3. j \in Seq(S) /\ Elements(j)
              = Elements(h) \cup Elements(e)
        BY <2>6, <3>2, ConcatElements
      <3> HIDE DEF j
      <3>4. Elements(j \o g)
              = Elements(j) \cup Elements(g)
        BY <2>4, <3>3, ConcatElements
      <3>5. names = j \o g
        BY DEF j, h
      <3>6. QED
        BY <2>4, <2>6, <3>2, <3>3, <3>4, <3>5
    <2>8. None # "backend.ready" /\ None # "connection.ready"
      BY EventAssumption DEF EventName
    <2> HIDE DEF names
    <2>9. /\ Named(events') = R
          /\ \A k \in DOMAIN events' : Describes(events'[k])
      BY <1>1, <2>2
    <2> HIDE DEF R
    <2>10. Named(events') = {"backend.ready", failed, Completed(new), "connection.ready"} \ {None}
      BY <2>7, <2>8, <2>9
    <2>11. QED
      BY <1>8, <2>3, <2>9, <2>10 DEF new
  <1>9. QED
    BY <1>4, <1>5, <1>6, <1>7, <1>8 DEF ServerFrames, BackendFrame

-----------------------------------------------------------------------------
(***************************************************************************)
(* Part 4.  The session.  A scenario that suppresses a client frame hides  *)
(* it from the server but not from the proxy's state, which then waits for *)
(* an answer that never comes; the theorems below are about the others.    *)
(***************************************************************************)
Undisturbed ==
    \A i \in DOMAIN Config :
        Config[i].when.event \in UpstreamEvent => Config[i].action.suppress # TRUE

LEMMA FrontendNames ==
    ASSUME NEW f, Frontend(f)
    PROVE  \A k \in DOMAIN events' : events'[k].event \in UpstreamEvent
  <1>0. ASSUME NEW names, NEW cs, NEW e, events' = FrontendEvents(names, cs, e),
               Elements(names) \subseteq UpstreamEvent
        PROVE  \A k \in DOMAIN events' : events'[k].event \in UpstreamEvent
    BY <1>0, EventNames DEF Elements
  <1>1. CASE FrontendParse(f) \/ FrontendBind(f) \/ FrontendClose(f) \/ FrontendOther(f)
    <2>1. events' = <<>>
      BY <1>1 DEF FrontendParse, FrontendBind, FrontendClose, FrontendOther
    <2>2. QED
      BY <2>1
  <1>2. ASSUME NEW a \in {"query.received", "frontend.execute"}, NEW s,
               events' = FrontendEvents(<<a, "statement.execution_started">> \o Requested(s),
                                        cycles', tx_epoch')
        PROVE  \A k \in DOMAIN events' : events'[k].event \in UpstreamEvent
    <2> DEFINE h == <<a, "statement.execution_started">>
               r == Requested(s)
    <2>1. h \in Seq(UpstreamEvent) /\ Elements(h) \subseteq UpstreamEvent
      BY DEF UpstreamEvent, Elements
    <2>2. r \in Seq(UpstreamEvent) /\ Elements(r) \subseteq UpstreamEvent
      <3>1. \A b \in UpstreamEvent : <<b>> \in Seq(UpstreamEvent) /\ Elements(<<b>>) = {b}
        BY DEF Elements
      <3>2. <<>> \in Seq(UpstreamEvent) /\ Elements(<<>>) = {}
        BY DEF Elements
      <3>3. {"transaction.begin.requested", "transaction.commit.requested",
             "transaction.rollback.requested"} \subseteq UpstreamEvent
        BY DEF UpstreamEvent
      <3>4. \/ r = <<>>
            \/ \E b \in {"transaction.begin.requested", "transaction.commit.requested",
                         "transaction.rollback.requested"} : r = <<b>>
        BY DEF Requested
      <3> HIDE DEF r
      <3>5. QED
        BY <3>1, <3>2, <3>3, <3>4
    <2> HIDE DEF h, r
    <2>3. Elements(h \o r) \subseteq UpstreamEvent
      BY <2>1, <2>2, ConcatElements
    <2>4. events' = FrontendEvents(h \o r, cycles', tx_epoch')
      BY <1>2 DEF h, r
    <2>5. QED
      BY <1>0, <2>3, <2>4
  <1>3. CASE FrontendQuery(f)
    <2>1. events' = FrontendEvents(<<"query.received", "statement.execution_started">>
                                     \o Requested(f.sql), cycles', tx_epoch')
      BY <1>3 DEF FrontendQuery, StartStatement
    <2>2. QED
      BY <1>2, <2>1
  <1>4. CASE FrontendExecute(f)
    <2>1. PICK s : events' = FrontendEvents(<<"frontend.execute", "statement.execution_started">>
                                              \o Requested(s), cycles', tx_epoch')
      BY <1>4 DEF FrontendExecute, StartStatement
    <2>2. QED
      BY <1>2, <2>1
  <1>5. CASE FrontendSync(f)
    <2> DEFINE names == <<"frontend.sync">>
    <2>1. events' = FrontendEvents(names, cycles', tx_epoch)
      BY <1>5 DEF FrontendSync
    <2>2. Elements(names) \subseteq UpstreamEvent
      BY DEF Elements, UpstreamEvent
    <2> HIDE DEF names
    <2>3. QED
      BY <1>0, <2>1, <2>2
  <1>6. QED
    BY <1>1, <1>3, <1>4, <1>5 DEF Frontend

(***************************************************************************)
(* As long as the connection stays open, the server gets the frame.        *)
(***************************************************************************)
LEMMA ClientWrites ==
    ASSUME Undisturbed, NEW f, ClientFrame(f)
    PROVE  /\ conn = "open" /\ Frontend(f) /\ to_server' \in {<<>>, <<f>>} /\ held' = held
           /\ conn' = "open" => to_server' = <<f>> /\ f.tag # "X"
  <1>1. PICK ok \in BOOLEAN : ClientRelay(f, ok)
    BY DEF ClientFrame
  <1>2. PICK forwarded : ClientApplies(f, ok, forwarded)
    BY <1>1, ClientArm
  <1> DEFINE first == Fired(matchers, events')
  <1>3. conn = "open" /\ Frontend(f) /\ to_server' \in {<<>>, <<f>>} /\ held' = held
    BY <1>1, <1>2 DEF ClientRelay, ClientApplies
  <1>4. ASSUME conn' = "open" PROVE ok /\ f.tag # "X" /\ ~Disconnects(fired')
    BY <1>1, <1>4 DEF ClientRelay, Return
  <1>5. ASSUME conn' = "open" PROVE ~Disconnects(first)
    <2>1. first \subseteq fired'
      BY <1>2 DEF ClientApplies
    <2>2. QED
      BY <1>4, <1>5, <2>1 DEF Disconnects
  <1>6. ~Suppresses(first)
    <2> SUFFICES ASSUME NEW i \in first, Config[i].action.suppress = TRUE PROVE FALSE
      BY DEF Suppresses
    <2>1. i \in DOMAIN Config /\ \E k \in DOMAIN events' : events'[k].event = Config[i].when.event
      BY DEF Fired, Fires, MatchesOne, Matches
    <2>2. QED
      BY <1>3, <2>1, FrontendNames DEF Undisturbed
  <1>7. QED
    BY <1>2, <1>3, <1>4, <1>5, <1>6 DEF ClientApplies

(***************************************************************************)
(* A server step hands the oldest reply to backend().                      *)
(***************************************************************************)
LEMMA ServerReads ==
    ASSUME ServerStep
    PROVE  /\ conn = "open" /\ replies # <<>> /\ Backend(Head(replies).frame)
           /\ reply' = Head(replies) /\ replies' = Tail(replies)
           /\ UNCHANGED <<srv, sent, batch, flushed>>
           /\ awaited' = awaited - CountReady(to_client')
           /\ Head(replies).frame.tag # "Z" =>
                to_client' = <<>> \/ to_client' = <<Head(replies).frame>>
  <1>1. Observed(Head(replies).frame)
    BY DEF ServerStep, ServerFrame
  <1>2. QED
    BY <1>1 DEF ServerStep, ServerFrame, Observed, ServerDisconnected, ServerCut, ServerReady,
                ServerRelayed, ServerWriteFails

(***************************************************************************)
(* No reply can be filed under another cycle's: no suppressed client       *)
(* frame, no Describe (which opens no cycle in the proxy, so that the      *)
(* answer to one that begins the client's work may find none) and a COPY   *)
(* only for a client of the simple protocol.                               *)
(***************************************************************************)
SimpleOnly == \A f \in ClientFrames : f.tag \in {"Q", "c", "X"}

Orderly ==
    /\ Undisturbed
    /\ \A f \in ClientFrames : f.tag # "D"
    /\ CopyIn = {} \/ SimpleOnly

(***************************************************************************)
(* The query cycle that the oldest reply answers, or the server's own.     *)
(***************************************************************************)
Answering == IF replies = <<>> THEN srv.cycle ELSE replies[1].cycle

NewestOpen == cycles # <<>> /\ ~cycles[Len(cycles)].sealed

NextCycle(r) == IF r.frame.tag = "Z" THEN r.cycle + 1 ELSE r.cycle

Chained(q, s, n) ==
    \A k \in 1 .. Len(q) :
        /\ q[k].cycle <= n
        /\ NextCycle(q[k]) = IF k = Len(q) THEN s.cycle ELSE q[k + 1].cycle
        /\ NextCycle(q[k]) <= s.cycle
        /\ q[k].cycle = 0 => q[k].frame.tag \in {"S", "Z"}

InStep ==
    /\ Chained(replies, srv, next_cycle) /\ srv.cycle # 0
    /\ Answering > 0 => Len(cycles) + Answering = next_cycle + 1
    /\ Answering = 0 => /\ cycles = <<>> /\ next_cycle = 0 /\ srv = NewServer
                        /\ ~batch /\ ~Welcomed /\ awaited = 1
    /\ NewestOpen => batch /\ srv.cycle = next_cycle /\ srv.copy = "no"
    /\ ~NewestOpen /\ srv.copy = "no" => srv.cycle = next_cycle + 1 /\ ~srv.skip
    /\ srv.copy # "no" => /\ srv.copy = "Q" /\ srv.cycle = next_cycle /\ CopyIn # {}
                          /\ ~batch /\ ~NewestOpen

Connected == srv \in ServerState /\ replies \in Seq(ServerReply) /\ InStep

AlignedInv == TypeOK /\ Structure /\ (conn = "open" => Connected)

(***************************************************************************)
(* The server's answers join the queue of replies in the order of their    *)
(* cycles.                                                                 *)
(***************************************************************************)
Turn(s, a) ==
    /\ IsAnswer(a)
    /\ \A k \in 1 .. Len(a.out) : /\ a.out[k].cycle = s.cycle
                                  /\ a.out[k].frame.tag = "Z" => k = Len(a.out)
    /\ a.srv.cycle = IF a.out # <<>> /\ a.out[Len(a.out)].frame.tag = "Z"
                     THEN s.cycle + 1 ELSE s.cycle

LEMMA TakesTurn ==
    ASSUME NEW s, NEW a, Within(s, a) \/ Ends(s, a)
    PROVE  Turn(s, a)
  <1>1. CASE Within(s, a)
    <2>1. a.out \in Seq(ServerReply) /\ Len(a.out) \in Nat /\ (a.out # <<>> => Len(a.out) \in 1 .. Len(a.out))
      BY <1>1 DEF Within, IsAnswer
    <2>2. QED
      BY <1>1, <2>1 DEF Within, Turn, Stays
  <1>2. CASE Ends(s, a)
    BY <1>2 DEF Ends, Turn, Stays
  <1>3. QED
    BY <1>1, <1>2

LEMMA ChainTurn ==
    ASSUME NEW q \in Seq(ServerReply), NEW s \in ServerState, NEW n \in Nat, Chained(q, s, n),
           NEW a, Turn(s, a), NEW m \in Nat, n <= m, a.out = <<>> \/ s.cycle <= m,
           s.cycle # 0
    PROVE  /\ q \o a.out \in Seq(ServerReply) /\ a.srv \in ServerState
           /\ Chained(q \o a.out, a.srv, m)
           /\ (IF q \o a.out = <<>> THEN a.srv.cycle ELSE (q \o a.out)[1].cycle)
                = IF q = <<>> THEN s.cycle ELSE q[1].cycle
           /\ Len(q \o a.out) = Len(q) + Len(a.out) /\ a.srv.cycle # 0
  <1> DEFINE o == a.out
             j == q \o o
             t == a.srv
  <1>1. /\ o \in Seq(ServerReply) /\ Len(o) \in Nat /\ Len(q) \in Nat /\ t \in ServerState
        /\ \A k \in 1 .. Len(o) : /\ o[k].cycle = s.cycle
                                  /\ o[k].frame.tag = "Z" => k = Len(o)
        /\ t.cycle = IF o # <<>> /\ o[Len(o)].frame.tag = "Z" THEN s.cycle + 1 ELSE s.cycle
        /\ o = <<>> \/ s.cycle <= m
    BY DEF Turn, IsAnswer
  <1> HIDE DEF o, t
  <1>2. /\ j \in Seq(ServerReply) /\ Len(j) = Len(q) + Len(o)
        /\ \A k \in 1 .. Len(q) : j[k] = q[k]
        /\ \A k \in 1 .. Len(o) : j[Len(q) + k] = o[k]
        /\ q = <<>> => j = o
        /\ o = <<>> => j = q /\ Len(o) = 0
        /\ o # <<>> => Len(o) >= 1
        /\ q # <<>> => Len(q) >= 1
        /\ Len(j) = 0 => j = <<>>
    BY <1>1
  <1>0. /\ \A k \in 1 .. Len(q) : q[k].cycle \in Nat
        /\ s.cycle \in Nat
    <2>1. \A k \in 1 .. Len(q) : q[k] \in ServerReply
      OBVIOUS
    <2>2. QED
      BY <2>1, ServerFields, ReplyFields
  <1> HIDE DEF j
  <1>3. Chained(j, t, m)
    <2> SUFFICES ASSUME NEW k \in 1 .. Len(j)
                 PROVE  /\ j[k].cycle <= m
                        /\ NextCycle(j[k]) = IF k = Len(j) THEN t.cycle ELSE j[k + 1].cycle
                        /\ NextCycle(j[k]) <= t.cycle
                        /\ j[k].cycle = 0 => j[k].frame.tag \in {"S", "Z"}
      BY DEF Chained
    <2>0. s.cycle <= t.cycle /\ t.cycle \in Nat
      BY <1>0, <1>1
    <2>1. CASE k \in 1 .. Len(q) /\ k # Len(q)
      <3>0. k + 1 \in 1 .. Len(q) /\ k < Len(q)
        BY <1>1, <2>1
      <3>1. j[k] = q[k] /\ j[k + 1] = q[k + 1] /\ k # Len(j)
        BY <1>1, <1>2, <2>1, <3>0
      <3>2. /\ q[k].cycle <= n /\ NextCycle(q[k]) = q[k + 1].cycle /\ NextCycle(q[k]) <= s.cycle
            /\ q[k].cycle = 0 => q[k].frame.tag \in {"S", "Z"}
        BY <2>1 DEF Chained
      <3>3. q[k].cycle \in Nat /\ q[k + 1].cycle \in Nat
        BY <1>0, <2>1, <3>0
      <3>4. QED
        BY <1>0, <2>0, <3>1, <3>2, <3>3
    <2>2. CASE k = Len(q)
      <3>1. /\ k \in 1 .. Len(q) /\ q[k].cycle <= n /\ NextCycle(q[k]) = s.cycle /\ j[k] = q[k]
            /\ q[k].cycle = 0 => q[k].frame.tag \in {"S", "Z"}
        BY <1>1, <1>2, <2>2 DEF Chained
      <3>2. CASE o = <<>>
        <4>1. t.cycle = s.cycle /\ Len(j) = Len(q)
          BY <1>1, <1>2, <3>2
        <4>2. QED
          BY <1>0, <2>0, <2>2, <3>1, <4>1
      <3>3. CASE o # <<>>
        <4>1. k # Len(j) /\ j[k + 1] = o[1] /\ o[1].cycle = s.cycle
          BY <1>1, <1>2, <2>2, <3>3
        <4>2. QED
          BY <1>0, <2>0, <3>1, <4>1
      <3>4. QED
        BY <3>2, <3>3
    <2>3. CASE k > Len(q)
      <3> DEFINE i == k - Len(q)
      <3>1. i \in 1 .. Len(o) /\ j[k] = o[i] /\ o[i].cycle = s.cycle /\ s.cycle <= m
            /\ (k = Len(j) <=> i = Len(o)) /\ (k # Len(j) => j[k + 1] = o[i + 1] /\ i + 1 \in 1 .. Len(o))
        <4>1. i \in 1 .. Len(o) /\ o # <<>> /\ k = Len(q) + i
          BY <1>1, <1>2, <2>3
        <4> HIDE DEF i
        <4>2. /\ k = Len(j) <=> i = Len(o)
              /\ k # Len(j) => i + 1 \in 1 .. Len(o) /\ k + 1 = Len(q) + (i + 1)
          <5>1. Len(j) = Len(q) + Len(o) /\ Len(o) \in Nat /\ Len(q) \in Nat /\ i \in 1 .. Len(o)
            BY <1>1, <1>2, <4>1
          <5>2. QED
            BY <4>1, <5>1
        <4>3. j[k] = o[i] /\ o[i].cycle = s.cycle /\ s.cycle <= m
          BY <1>1, <1>2, <4>1
        <4>4. k # Len(j) => j[k + 1] = o[i + 1]
          BY <1>2, <4>2
        <4>5. QED
          BY <4>1, <4>2, <4>3, <4>4
      <3>2. CASE k = Len(j)
        BY <1>0, <1>1, <2>0, <3>1, <3>2 DEF NextCycle
      <3>3. CASE k # Len(j)
        BY <1>0, <1>1, <2>0, <3>1, <3>3 DEF NextCycle
      <3>4. QED
        BY <3>1, <3>2, <3>3
    <2>4. QED
      BY <1>1, <2>1, <2>2, <2>3
  <1>4. (IF j = <<>> THEN t.cycle ELSE j[1].cycle) = IF q = <<>> THEN s.cycle ELSE q[1].cycle
    <2>1. CASE q # <<>>
      BY <1>1, <1>2, <2>1
    <2>2. CASE q = <<>> /\ o = <<>>
      BY <1>1, <1>2, <2>2
    <2>3. CASE q = <<>> /\ o # <<>>
      <3>1. j = o
        BY <1>2, <2>3
      <3>2. Len(o) \in Nat /\ Len(o) >= 1
        BY <1>1, <1>2, <2>3
      <3>3. 1 \in 1 .. Len(o)
        BY <3>2
      <3>4. QED
        BY <1>1, <2>3, <3>1, <3>3
    <2>4. QED
      BY <2>1, <2>2, <2>3
  <1>5. t.cycle # 0
    BY <1>0, <1>1
  <1>6. QED
    BY <1>1, <1>2, <1>3, <1>4, <1>5 DEF j, o, t

(***************************************************************************)
(* A client step: the frame's answers join the queue, in one turn.         *)
(***************************************************************************)
Joins(f, a) ==
    /\ a \in Answers(srv, f) /\ Turn(srv, a)
    /\ srv' = a.srv /\ replies' = replies \o a.out

LEMMA ClientTurn ==
    ASSUME Orderly, AlignedInv, NEW f \in ClientFrames, ClientStep(f)
    PROVE  /\ conn = "open" /\ Connected /\ Frontend(f) /\ f.tag # "D"
           /\ f.tag = "Q" => ~NewestOpen /\ ~srv.skip
           /\ srv.copy # "no" => f.tag = "c" /\ SimpleOnly
           /\ srv.copy = "no" => f.tag # "c"
           /\ f.tag # "X" => Answering # 0
           /\ \/ conn' # "open" /\ UNCHANGED <<srv, replies>>
              \/ (conn' = "open" => f.tag # "X") /\ \E a : Joins(f, a)
  <1>1. /\ conn = "open" /\ Frontend(f) /\ to_server' \in {<<>>, <<f>>}
        /\ conn' = "open" => to_server' = <<f>> /\ f.tag # "X"
    BY ClientWrites DEF ClientStep, Orderly
  <1>2. Connected
    BY <1>1 DEF AlignedInv
  <1>3. f.tag = "Q" => ~NewestOpen /\ ~srv.skip
    BY <1>2 DEF ClientStep, MaySend, Connected, InStep
  <1>4. srv.copy # "no" => srv.copy = "Q" /\ f.tag = "c" /\ SimpleOnly
    <2>1. srv.copy # "no" => SimpleOnly /\ srv.copy = "Q"
      BY <1>2 DEF Connected, InStep, Orderly
    <2>2. srv.copy # "no" => f.tag \in {"S", "c"}
      BY DEF ClientStep, MaySend
    <2>3. QED
      BY <2>1, <2>2 DEF SimpleOnly
  <1>5. srv.copy = "no" => f.tag # "c"
    BY DEF ClientStep, MaySend
  <1>6. f.tag # "X" => Answering # 0
    <2> SUFFICES ASSUME f.tag # "X", Answering = 0 PROVE FALSE
      OBVIOUS
    <2>1. srv = NewServer /\ ~batch /\ ~Welcomed /\ awaited = 1
      BY <1>2 DEF Connected, InStep
    <2>2. srv.copy = "no"
      BY <2>1 DEF NewServer
    <2>3. QED
      BY <1>5, <2>1, <2>2 DEF ClientStep, MaySend, StartsCycle
  <1>7. ASSUME NEW a \in Answers(srv, f) PROVE Turn(srv, a)
    <2>1. srv \in ServerState
      BY <1>2 DEF Connected
    <2>2. CASE srv.copy = "no"
      <3>1. Within(Numbered(srv, f), a) \/ Ends(Numbered(srv, f), a)
        BY <1>3, <2>1, <2>2, AnswersCycle
      <3>2. Turn(Numbered(srv, f), a) /\ Numbered(srv, f).cycle = srv.cycle
        BY <2>1, <3>1, TakesTurn, NumberedIs
      <3>3. QED
        BY <3>2 DEF Turn
    <2>3. CASE srv.copy # "no"
      BY <1>4, <2>1, <2>3, CopyCycle, TakesTurn
    <2>4. QED
      BY <2>2, <2>3
  <1>8. \/ to_server' = <<>> /\ UNCHANGED <<srv, replies>>
        \/ to_server' = <<f>> /\ \E a \in Answers(srv, f) : srv' = a.srv /\ replies' = replies \o a.out
    <2>1. CASE to_server' = <<>>
      BY <2>1 DEF ClientStep
    <2>2. CASE to_server' = <<f>>
      <3>1. <<f>> # <<>> /\ <<f>>[1] = f
        OBVIOUS
      <3>2. QED
        BY <2>2, <3>1 DEF ClientStep
    <2>3. QED
      BY <1>1, <2>1, <2>2
  <1>9. to_server' = <<>> => conn' # "open"
    BY <1>1
  <1>10. QED
    BY <1>1, <1>2, <1>3, <1>4, <1>5, <1>6, <1>7, <1>8, <1>9 DEF Joins, Orderly

(***************************************************************************)
(* What a client frame does to the number of cycles and to the newest one. *)
(***************************************************************************)
LEMMA WorkCounts ==
    ASSUME TypeOK, NEW f \in ClientFrames, Frontend(f)
    PROVE  /\ f.tag \in {"D", "H", "c", "X"} => UNCHANGED <<cycles, next_cycle>>
           /\ f.tag = "Q" => /\ Len(cycles') = Len(cycles) + 1
                             /\ next_cycle' = next_cycle + 1 /\ ~NewestOpen'
           /\ f.tag \in {"P", "B", "C", "E", "S"} =>
                /\ IF NewestOpen THEN Len(cycles') = Len(cycles) /\ next_cycle' = next_cycle
                   ELSE Len(cycles') = Len(cycles) + 1 /\ next_cycle' = next_cycle + 1
                /\ NewestOpen' <=> f.tag # "S"
  <1>1. \A x \in BOOLEAN : /\ Newest(x) \in Cycle
                           /\ x => ~Newest(x).sealed
                           /\ ~x => Newest(x).sealed
    <2>1. \A x \in BOOLEAN : Newest(x) \in Cycle
      BY WorkIs
    <2>2. TRUE => ~Newest(TRUE).sealed
      BY DEF Newest, OpensCycle, Back, FreshCycle
    <2>3. Newest(FALSE).sealed
      BY DEF Newest, OpensCycle, FreshCycle
    <2>4. QED
      BY <2>1, <2>2, <2>3
  <1>2. OpensCycle(FALSE) /\ (OpensCycle(TRUE) <=> ~NewestOpen)
    BY DEF OpensCycle, NewestOpen, Back
  <1>3. ASSUME NEW x \in BOOLEAN, NEW d \in Cycle, Worked(x, d)
        PROVE  /\ IF OpensCycle(x) THEN Len(cycles') = Len(cycles) + 1 /\ next_cycle' = next_cycle + 1
                  ELSE Len(cycles') = Len(cycles) /\ next_cycle' = next_cycle
               /\ NewestOpen' <=> ~d.sealed
    <2> DEFINE n == IF OpensCycle(x) THEN Len(cycles) + 1 ELSE Len(cycles)
    <2>1. /\ n \in Nat \ {0} /\ Len(cycles') = n /\ cycles' \in Seq(Cycle)
          /\ \A i \in 1 .. n : cycles'[i] = IF i = n THEN d ELSE cycles[i]
          /\ next_cycle' = IF OpensCycle(x) THEN next_cycle + 1 ELSE next_cycle
      BY <1>3, WorkIs DEF Worked
    <2>2. cycles' # <<>> /\ cycles'[Len(cycles')] = d
      BY <2>1
    <2>3. QED
      BY <2>1, <2>2 DEF NewestOpen
  <1>4. CASE f.tag \in {"D", "H", "c", "X"}
    BY <1>4, FrontendWork
  <1>5. CASE f.tag \in {"Q", "E"}
    <2> DEFINE x == f.tag # "Q"
               d == Starts(Newest(x), StatementOf(f), Allocates(f))
    <2>1. /\ Worked(x, d) /\ d \in Cycle /\ d.sealed = Newest(x).sealed /\ x \in BOOLEAN
      <3>1. /\ x \in BOOLEAN /\ Worked(x, d)
            /\ StatementOf(f) \in Statement /\ Allocates(f) \in BOOLEAN
        BY <1>5, FrontendWork
      <3> HIDE DEF x
      <3>2. d \in Cycle /\ d.sealed = Newest(x).sealed
        BY <1>1, <3>1, StartsIs
      <3>3. QED
        BY <3>1, <3>2
    <2> HIDE DEF d
    <2>2. QED
      BY <1>1, <1>2, <1>3, <1>5, <2>1
  <1>6. CASE f.tag \in {"P", "B", "C"} /\ Mutates(f)
    <2> DEFINE d == Pushes(Newest(TRUE), MutationOf(f))
    <2>1. /\ Worked(TRUE, d) /\ d \in Cycle /\ d.sealed = Newest(TRUE).sealed
      BY <1>1, <1>6, FrontendWork, PushesIs
    <2> HIDE DEF d
    <2>2. QED
      BY <1>1, <1>2, <1>3, <1>6, <2>1
  <1>7. CASE f.tag = "B" /\ ~Mutates(f)
    BY <1>1, <1>2, <1>3, <1>7, FrontendWork
  <1>8. CASE f.tag = "S"
    <2> DEFINE d == Seals(Newest(TRUE))
    <2>1. /\ Worked(TRUE, d) /\ d \in Cycle /\ d.sealed
      BY <1>1, <1>8, FrontendWork, SealsIs
    <2> HIDE DEF d
    <2>2. QED
      BY <1>2, <1>3, <1>8, <2>1
  <1>9. QED
    BY <1>4, <1>5, <1>6, <1>7, <1>8, ClientFields DEF Mutates

(***************************************************************************)
(* The client's half of the invariant.                                     *)
(***************************************************************************)
LEMMA StateKept ==
    ASSUME TypeOK, Structure,
           \/ UNCHANGED stateVars
           \/ \E f \in FrontendFrame : Frontend(f)
           \/ \E f \in BackendFrame : Backend(f)
    PROVE  TypeOK' /\ Structure'
  <1>1. CASE UNCHANGED stateVars
    BY <1>1 DEF stateVars, TypeOK, Structure, ConsecutiveIds, LaterCyclesUnanswered, EpochBound,
                SimpleCyclesAlone
  <1>2. CASE \/ \E f \in FrontendFrame : Frontend(f)
             \/ \E f \in BackendFrame : Backend(f)
    <2>1. TypeOK'
      BY <1>2, FrontendType, BackendType
    <2>2. Structured(cycles', next_cycle', tx_epoch')
      BY <1>2, FrontendStructured, BackendStructured
    <2>3. TypeOK' => (Structure' <=> Structured(cycles, next_cycle, tx_epoch)')
      BY StructureIs, PTL
    <2>4. QED
      BY <2>1, <2>2, <2>3
  <1>3. QED
    BY <1>1, <1>2

LEMMA ClientInStep ==
    ASSUME Orderly, AlignedInv, NEW f \in ClientFrames, ClientStep(f)
    PROVE  AlignedInv'
  <1>1. /\ conn = "open" /\ Connected /\ Frontend(f) /\ f.tag # "D"
        /\ f.tag = "Q" => ~NewestOpen /\ ~srv.skip
        /\ srv.copy # "no" => f.tag = "c" /\ SimpleOnly
        /\ srv.copy = "no" => f.tag # "c"
        /\ f.tag # "X" => Answering # 0
        /\ \/ conn' # "open" /\ UNCHANGED <<srv, replies>>
           \/ (conn' = "open" => f.tag # "X") /\ \E a : Joins(f, a)
    BY ClientTurn
  <1>2. TypeOK' /\ Structure'
    BY <1>1, StateKept, SessionAssumption DEF AlignedInv
  <1> SUFFICES ASSUME conn' = "open" PROVE Connected'
    BY <1>2 DEF AlignedInv
  <1>3. f.tag # "X" /\ Answering # 0 /\ \E a : Joins(f, a)
    BY <1>1
  <1>4. PICK a : Joins(f, a)
    BY <1>3
  <1>5. /\ srv \in ServerState /\ replies \in Seq(ServerReply) /\ srv.cycle \in Nat
        /\ Chained(replies, srv, next_cycle) /\ srv.cycle # 0
        /\ next_cycle \in Nat /\ Len(cycles) \in Nat
        /\ Answering \in Nat /\ Len(cycles) + Answering = next_cycle + 1
        /\ NewestOpen => srv.cycle = next_cycle /\ srv.copy = "no"
        /\ ~NewestOpen /\ srv.copy = "no" => srv.cycle = next_cycle + 1 /\ ~srv.skip
        /\ srv.copy # "no" => srv.copy = "Q" /\ srv.cycle = next_cycle /\ ~NewestOpen
    <2>1. srv \in ServerState /\ replies \in Seq(ServerReply) /\ srv.cycle \in Nat
      BY <1>1, ServerFields DEF Connected
    <2>2. Answering \in Nat
      <3>1. replies # <<>> => replies[1] \in ServerReply
        BY <2>1
      <3>2. QED
        BY <2>1, <3>1, ReplyFields DEF Answering
    <2>3. next_cycle \in Nat /\ Len(cycles) \in Nat
      BY DEF AlignedInv, TypeOK
    <2>4. QED
      BY <1>1, <1>3, <2>1, <2>2, <2>3 DEF Connected, InStep
  <1>6. /\ f.tag \in {"S", "c"} => Ends(Numbered(srv, f), a)
        /\ f.tag = "Q" => \/ Ends(Numbered(srv, f), a)
                          \/ Within(Numbered(srv, f), a) /\ a.srv.copy = "Q" /\ CopyIn # {}
        /\ f.tag \in {"P", "B", "C", "E"} => Within(Numbered(srv, f), a) /\ a.srv.copy = "no"
        /\ f.tag = "H" => a = Answer(srv, <<>>) /\ srv.copy = "no"
    <2>1. CASE srv.copy = "no"
      <3>1. f.tag \in {"P", "B", "C", "E"} => CopyIn = {}
        BY DEF Orderly, SimpleOnly
      <3>2. QED
        BY <1>1, <1>4, <1>5, <2>1, <3>1, AnswersCycle DEF Joins
    <2>2. CASE srv.copy # "no"
      <3>1. f.tag = "c" /\ Ends(srv, a)
        BY <1>1, <1>4, <1>5, <2>2, CopyCycle DEF Joins
      <3>2. Numbered(srv, f) = srv
        BY <3>1 DEF Numbered
      <3>3. QED
        BY <2>2, <3>1, <3>2
    <2>3. QED
      BY <2>1, <2>2
  <1>7. /\ f.tag \in {"H", "c"} => UNCHANGED <<cycles, next_cycle>>
        /\ f.tag = "Q" => /\ Len(cycles') = Len(cycles) + 1
                          /\ next_cycle' = next_cycle + 1 /\ ~NewestOpen'
        /\ f.tag \in {"P", "B", "C", "E", "S"} =>
             /\ IF NewestOpen THEN Len(cycles') = Len(cycles) /\ next_cycle' = next_cycle
                ELSE Len(cycles') = Len(cycles) + 1 /\ next_cycle' = next_cycle + 1
             /\ NewestOpen' <=> f.tag # "S"
    BY <1>1, WorkCounts DEF AlignedInv
  <1>8. f.tag \in {"P", "B", "C", "E", "S", "Q", "H", "c"}
    BY <1>1, <1>3, ClientFields
  <1>9. /\ next_cycle' \in Nat /\ next_cycle <= next_cycle'
        /\ Len(cycles') + next_cycle = Len(cycles) + next_cycle'
        /\ f.tag # "H" => srv.cycle = next_cycle'
        /\ f.tag \in {"H", "c"} => (NewestOpen' <=> NewestOpen)
    <2>1. CASE f.tag \in {"H", "c"}
      BY <1>1, <1>5, <1>7, <2>1 DEF NewestOpen
    <2>2. CASE f.tag = "Q"
      BY <1>1, <1>5, <1>7, <2>2
    <2>3. CASE f.tag \in {"P", "B", "C", "E", "S"}
      <3>1. srv.copy = "no"
        BY <1>1, <2>3
      <3>2. QED
        BY <1>5, <1>7, <2>3, <3>1
    <2>4. QED
      BY <1>8, <2>1, <2>2, <2>3
  <1>10. /\ replies' \in Seq(ServerReply) /\ srv' \in ServerState
         /\ Chained(replies', srv', next_cycle') /\ Answering' = Answering /\ srv'.cycle # 0
    <2>1. Turn(srv, a) /\ srv' = a.srv /\ replies' = replies \o a.out
      BY <1>4 DEF Joins
    <2>2. a.out = <<>> \/ srv.cycle <= next_cycle'
      BY <1>5, <1>6, <1>9 DEF Answer
    <2>3. /\ replies \o a.out \in Seq(ServerReply) /\ a.srv \in ServerState
          /\ Chained(replies \o a.out, a.srv, next_cycle') /\ a.srv.cycle # 0
          /\ (IF replies \o a.out = <<>> THEN a.srv.cycle ELSE (replies \o a.out)[1].cycle)
                = IF replies = <<>> THEN srv.cycle ELSE replies[1].cycle
      <3>1. /\ replies \in Seq(ServerReply) /\ srv \in ServerState /\ srv.cycle # 0
            /\ next_cycle \in Nat /\ Chained(replies, srv, next_cycle)
        BY <1>5
      <3>2. PICK m \in Nat : m = next_cycle' /\ next_cycle <= m
        BY <1>9
      <3>3. Turn(srv, a) /\ (a.out = <<>> \/ srv.cycle <= m)
        BY <2>1, <2>2, <3>2
      <3>4. QED
        BY <3>1, <3>2, <3>3, ChainTurn
    <2>4. QED
      BY <2>1, <2>3 DEF Answering
  <1>11. batch' = (f.tag \notin {"Q", "S"} /\ ~(f.tag = "c" /\ srv.copy = "Q"))
    BY <1>3 DEF ClientStep
  <1>12. /\ NewestOpen' => batch' /\ srv'.cycle = next_cycle' /\ srv'.copy = "no"
         /\ ~NewestOpen' /\ srv'.copy = "no" => srv'.cycle = next_cycle' + 1 /\ ~srv'.skip
         /\ srv'.copy # "no" => /\ srv'.copy = "Q" /\ srv'.cycle = next_cycle' /\ CopyIn # {}
                                /\ ~batch' /\ ~NewestOpen'
    <2>0. srv' = a.srv /\ Numbered(srv, f).cycle = srv.cycle
      BY <1>4, <1>5, NumberedIs DEF Joins
    <2>1. CASE f.tag = "H"
      <3>1. srv' = srv /\ next_cycle' = next_cycle /\ (NewestOpen' <=> NewestOpen) /\ batch'
        <4>1. srv' = srv
          BY <1>6, <2>0, <2>1 DEF Answer
        <4>2. batch'
          BY <1>11, <2>1
        <4>3. QED
          BY <1>7, <1>9, <2>1, <4>1, <4>2
      <3>2. QED
        BY <1>5, <1>6, <2>1, <3>1
    <2>2. CASE f.tag \in {"S", "c"}
      <3>1. srv'.cycle = srv.cycle + 1 /\ ~srv'.skip /\ srv'.copy = "no"
        BY <1>6, <2>0, <2>2 DEF Ends
      <3>2. ~NewestOpen'
        BY <1>1, <1>5, <1>7, <1>9, <2>2
      <3>3. QED
        BY <1>9, <2>2, <3>1, <3>2
    <2>3. CASE f.tag = "Q"
      <3>1. \/ srv'.cycle = srv.cycle + 1 /\ ~srv'.skip /\ srv'.copy = "no"
            \/ srv'.cycle = srv.cycle /\ srv'.copy = "Q" /\ CopyIn # {}
        BY <1>6, <2>0, <2>3 DEF Ends, Within, Stays
      <3>2. ~NewestOpen' /\ ~batch'
        BY <1>7, <1>11, <2>3
      <3>3. QED
        BY <1>9, <2>3, <3>1, <3>2
    <2>4. CASE f.tag \in {"P", "B", "C", "E"}
      <3>1. srv'.cycle = srv.cycle /\ srv'.copy = "no"
        BY <1>6, <2>0, <2>4 DEF Within, Stays
      <3>2. NewestOpen' /\ batch'
        BY <1>7, <1>11, <2>4
      <3>3. QED
        BY <1>9, <2>4, <3>1, <3>2
    <2>5. QED
      BY <1>8, <2>1, <2>2, <2>3, <2>4
  <1>13. /\ Answering' # 0
         /\ Answering' > 0 => Len(cycles') + Answering' = next_cycle' + 1
    <2>1. Len(cycles') \in Nat
      BY <1>2 DEF TypeOK
    <2>2. \A x, y, z, w, u \in Nat : x + y = z + 1 /\ w + z = x + u => w + y = u + 1
      OBVIOUS
    <2>3. Len(cycles') + Answering = next_cycle' + 1
      BY <1>5, <1>9, <2>1, <2>2
    <2>4. QED
      BY <1>3, <1>10, <2>3
  <1>14. InStep'
    BY <1>10, <1>12, <1>13 DEF InStep
  <1>15. QED
    BY <1>10, <1>14 DEF Connected

(***************************************************************************)
(* The server's half: a reply leaves the queue, and at ReadyForQuery its   *)
(* cycle leaves the proxy's.                                               *)
(***************************************************************************)
LEMMA ChainTail ==
    ASSUME NEW q \in Seq(ServerReply), q # <<>>, NEW s, NEW n, Chained(q, s, n)
    PROVE  /\ Head(q) = q[1] /\ q[1] \in ServerReply /\ Tail(q) \in Seq(ServerReply)
           /\ Chained(Tail(q), s, n)
           /\ (IF Tail(q) = <<>> THEN s.cycle ELSE Tail(q)[1].cycle) = NextCycle(q[1])
           /\ q[1].cycle <= n /\ NextCycle(q[1]) <= s.cycle
           /\ q[1].cycle = 0 => q[1].frame.tag \in {"S", "Z"}
  <1> DEFINE t == Tail(q)
  <1>1. /\ Head(q) = q[1] /\ q[1] \in ServerReply /\ t \in Seq(ServerReply)
        /\ Len(q) \in Nat /\ Len(q) >= 1 /\ Len(t) = Len(q) - 1
        /\ \A k \in 1 .. Len(t) : t[k] = q[k + 1]
        /\ t = <<>> <=> Len(q) = 1
    <2>1. /\ Head(q) = q[1] /\ q[1] \in ServerReply /\ t \in Seq(ServerReply)
          /\ Len(q) \in Nat /\ Len(q) >= 1 /\ Len(t) = Len(q) - 1
          /\ \A k \in 1 .. Len(t) : t[k] = q[k + 1]
      OBVIOUS
    <2> HIDE DEF t
    <2>2. t = <<>> <=> Len(t) = 0
      BY <2>1
    <2>3. QED
      BY <2>1, <2>2
  <1> HIDE DEF t
  <1>2. 1 \in 1 .. Len(q)
    BY <1>1
  <1>3. /\ NextCycle(q[1]) = IF 1 = Len(q) THEN s.cycle ELSE q[2].cycle
        /\ q[1].cycle <= n /\ NextCycle(q[1]) <= s.cycle
        /\ q[1].cycle = 0 => q[1].frame.tag \in {"S", "Z"}
    <2>1. 1 + 1 = 2
      OBVIOUS
    <2>2. QED
      BY <1>2, <2>1 DEF Chained
  <1>4. (IF t = <<>> THEN s.cycle ELSE t[1].cycle) = NextCycle(q[1])
    <2>1. t # <<>> => 1 \in 1 .. Len(t) /\ t[1] = q[2]
      BY <1>1
    <2>2. QED
      BY <1>1, <1>3, <2>1
  <1>5. Chained(t, s, n)
    <2> SUFFICES ASSUME NEW k \in 1 .. Len(t)
                 PROVE  /\ t[k].cycle <= n
                        /\ NextCycle(t[k]) = IF k = Len(t) THEN s.cycle ELSE t[k + 1].cycle
                        /\ NextCycle(t[k]) <= s.cycle
                        /\ t[k].cycle = 0 => t[k].frame.tag \in {"S", "Z"}
      BY DEF Chained
    <2> DEFINE i == k + 1
    <2>1. /\ i \in 1 .. Len(q) /\ t[k] = q[i] /\ (i = Len(q) <=> k = Len(t))
          /\ k # Len(t) => t[k + 1] = q[i + 1]
      BY <1>1
    <2> HIDE DEF i
    <2>2. QED
      BY <2>1 DEF Chained
  <1>6. QED
    BY <1>1, <1>3, <1>4, <1>5 DEF t

LEMMA NoneReady ==
    ASSUME NEW f, f.tag # "Z"
    PROVE  CountReady(<<>>) = 0 /\ CountReady(<<f>>) = 0
  <1>1. {k \in DOMAIN <<>> : <<>>[k].tag = "Z"} = {}
    OBVIOUS
  <1>2. {k \in DOMAIN <<f>> : <<f>>[k].tag = "Z"} = {}
    OBVIOUS
  <1>3. QED
    BY <1>1, <1>2, FS_EmptySet DEF CountReady

LEMMA ServerInStep ==
    ASSUME AlignedInv, ServerStep
    PROVE  AlignedInv'
  <1> DEFINE r == Head(replies)
             f == r.frame
  <1>1. /\ conn = "open" /\ replies # <<>> /\ Backend(f)
        /\ reply' = r /\ replies' = Tail(replies)
        /\ UNCHANGED <<srv, sent, batch, flushed>>
        /\ awaited' = awaited - CountReady(to_client')
        /\ f.tag # "Z" => to_client' = <<>> \/ to_client' = <<f>>
    BY ServerReads
  <1>2. TypeOK /\ Structure /\ srv \in ServerState /\ replies \in Seq(ServerReply) /\ InStep
    BY <1>1 DEF AlignedInv, Connected
  <1>3. /\ r = replies[1] /\ r \in ServerReply /\ replies' \in Seq(ServerReply)
        /\ Chained(replies', srv, next_cycle) /\ Answering' = NextCycle(r) /\ Answering = r.cycle
        /\ r.cycle <= next_cycle /\ NextCycle(r) <= srv.cycle
        /\ r.cycle = 0 => f.tag \in {"S", "Z"}
    BY <1>1, <1>2, ChainTail DEF InStep, Answering
  <1>4. f \in ServerFrames /\ f \in BackendFrame /\ r.cycle \in Nat
    BY <1>3, ReplyFields DEF ServerFrames
  <1>5. TypeOK' /\ Structure'
    BY <1>1, <1>2, <1>4, StateKept
  <1> HIDE DEF r
  <1>6. next_cycle' = next_cycle
    BY <1>1, <1>2, <1>4, BackendWork
  <1>7. /\ cycles \in Seq(Cycle) /\ Len(cycles) \in Nat /\ next_cycle \in Nat /\ srv.cycle \in Nat
        /\ cycles = <<>> <=> Len(cycles) = 0
    BY <1>2, ServerFields DEF TypeOK
  <1>8. /\ r.cycle = 0 => cycles = <<>> /\ next_cycle = 0 /\ ~batch
        /\ r.cycle > 0 => Len(cycles) + r.cycle = next_cycle + 1
        /\ NewestOpen => srv.cycle = next_cycle /\ cycles # <<>>
    BY <1>2, <1>3 DEF InStep, NewestOpen
  <1>9. /\ NewestOpen' <=> NewestOpen
        /\ f.tag = "Z" /\ r.cycle > 0 => Len(cycles') = Len(cycles) - 1
        /\ f.tag # "Z" \/ r.cycle = 0 => Len(cycles') = Len(cycles)
    <2>1. CASE f.tag # "Z"
      <3>1. /\ cycles' \in Seq(Cycle) /\ Len(cycles') = Len(cycles)
            /\ \A i \in 1 .. Len(cycles) :
                      cycles'[i] = IF i = 1 THEN Replied(f, cycles[1]) ELSE cycles[i]
        BY <1>1, <1>2, <1>4, <2>1, BackendWork
      <3>2. cycles # <<>> => Replied(f, cycles[1]).sealed = cycles[1].sealed
        BY <1>4, <1>7, RepliedIs
      <3>3. cycles # <<>> => Len(cycles) \in 1 .. Len(cycles)
        BY <1>7
      <3>4. cycles # <<>> => cycles'[Len(cycles')].sealed = cycles[Len(cycles)].sealed
        BY <3>1, <3>2, <3>3
      <3>5. cycles = <<>> <=> cycles' = <<>>
        BY <1>7, <3>1
      <3>6. QED
        BY <2>1, <3>1, <3>4, <3>5 DEF NewestOpen
    <2>2. CASE f.tag = "Z"
      <3>0. cycles' = Rest(cycles)
        BY <1>1, <1>2, <1>4, <2>2, BackendWork
      <3>1. CASE r.cycle = 0
        <4>1. cycles = <<>> /\ cycles' = <<>>
          BY <1>8, <3>0, <3>1 DEF Rest
        <4>2. QED
          BY <3>1, <4>1, <1>3, <1>4 DEF NewestOpen
      <3>2. CASE r.cycle > 0
        <4>0. r.cycle # 0
          BY <1>4, <3>2
        <4>1. cycles # <<>> /\ Len(cycles) >= 1
          BY <1>3, <1>4, <1>7, <1>8, <3>2
        <4>2. /\ cycles' = Tail(cycles) /\ Len(cycles') = Len(cycles) - 1 /\ cycles' \in Seq(Cycle)
              /\ \A k \in 1 .. Len(cycles') : cycles'[k] = cycles[k + 1]
          BY <1>7, <3>0, <4>1 DEF Rest
        <4>3. CASE Len(cycles) = 1
          <5>1. ~NewestOpen'
            BY <4>2, <4>3 DEF NewestOpen
          <5>2. ~NewestOpen
            BY <1>3, <1>4, <1>7, <1>8, <2>2, <3>2, <4>3 DEF NextCycle
          <5>3. QED
            BY <2>2, <4>0, <4>2, <5>1, <5>2
        <4>4. CASE Len(cycles) > 1
          <5>1. Len(cycles') \in 1 .. Len(cycles') /\ Len(cycles') + 1 = Len(cycles) /\ cycles' # <<>>
            <6>1. Len(cycles') = Len(cycles) - 1 /\ Len(cycles) \in Nat
              BY <1>7, <4>2
            <6>2. Len(cycles') \in Nat /\ Len(cycles') >= 1 /\ Len(cycles') + 1 = Len(cycles)
              BY <4>4, <6>1
            <6>3. cycles' # <<>>
              BY <6>2
            <6>4. Len(cycles') \in 1 .. Len(cycles')
              BY <6>2
            <6>5. QED
              BY <6>2, <6>3, <6>4
          <5>2. cycles'[Len(cycles')] = cycles[Len(cycles)]
            BY <4>2, <5>1
          <5>3. QED
            <6>1. NewestOpen' <=> NewestOpen
              BY <4>1, <5>1, <5>2 DEF NewestOpen
            <6>2. QED
              BY <2>2, <4>0, <4>2, <6>1
        <4>5. Len(cycles) = 1 \/ Len(cycles) > 1
          <5>1. \A n \in Nat : n >= 1 => n = 1 \/ n > 1
            OBVIOUS
          <5>2. QED
            BY <1>7, <4>1, <5>1
        <4>6. QED
          BY <4>3, <4>4, <4>5
      <3>3. QED
        BY <1>4, <3>1, <3>2
    <2>3. QED
      BY <2>1, <2>2
  <1>10. Answering' > 0 => Len(cycles') + Answering' = next_cycle + 1
    <2>1. CASE f.tag # "Z"
      BY <1>3, <1>7, <1>8, <1>9, <2>1 DEF NextCycle
    <2>2. CASE f.tag = "Z" /\ r.cycle = 0
      <3>1. Answering' = 1 /\ next_cycle = 0 /\ Len(cycles') = 0
        <4>1. Answering' = r.cycle + 1 /\ r.cycle = 0
          BY <1>3, <2>2 DEF NextCycle
        <4>2. next_cycle = 0 /\ Len(cycles') = Len(cycles) /\ Len(cycles) = 0
          BY <1>7, <1>8, <1>9, <2>2
        <4>3. QED
          BY <4>1, <4>2
      <3>2. QED
        BY <3>1
    <2>3. CASE f.tag = "Z" /\ r.cycle > 0
      <3>1. Answering' = r.cycle + 1 /\ Len(cycles') = Len(cycles) - 1
            /\ Len(cycles) + r.cycle = next_cycle + 1
        BY <1>3, <1>8, <1>9, <2>3 DEF NextCycle
      <3>2. QED
        BY <1>4, <1>7, <3>1
    <2>4. QED
      BY <1>4, <2>1, <2>2, <2>3
  <1>11. Answering' = 0 => /\ cycles' = <<>> /\ next_cycle = 0 /\ srv = NewServer
                           /\ ~batch /\ ~Welcomed' /\ awaited' = 1
    <2> SUFFICES ASSUME Answering' = 0
                 PROVE  /\ cycles' = <<>> /\ next_cycle = 0 /\ srv = NewServer
                        /\ ~batch /\ ~Welcomed' /\ awaited' = 1
      OBVIOUS
    <2>1. f.tag # "Z" /\ r.cycle = 0 /\ f.tag = "S"
      BY <1>3, <1>4 DEF NextCycle
    <2>2. /\ cycles = <<>> /\ next_cycle = 0 /\ srv = NewServer /\ ~batch /\ awaited = 1
      BY <1>2, <1>3, <2>1 DEF InStep
    <2>3. cycles' = <<>>
      <3>1. Len(cycles') = 0 /\ cycles' \in Seq(Cycle)
        BY <1>5, <1>7, <1>9, <2>1, <2>2 DEF TypeOK
      <3>2. QED
        BY <3>1
    <2>4. CountReady(to_client') = 0
      BY <1>1, <2>1, NoneReady
    <2>5. awaited' = 1
      BY <1>1, <2>2, <2>4
    <2>6. ~Welcomed'
      BY <1>1, <2>1 DEF Welcomed
    <2>7. QED
      BY <2>2, <2>3, <2>5, <2>6
  <1>12. InStep'
    BY <1>1, <1>2, <1>3, <1>6, <1>9, <1>10, <1>11 DEF InStep
  <1>13. QED
    BY <1>1, <1>2, <1>3, <1>5, <1>12 DEF AlignedInv, Connected

LEMMA WelcomeIs ==
    LET q == Welcome(NewServer, Startup.application_name) IN
    /\ NewServer \in ServerState /\ q \in Seq(ServerReply) /\ Len(q) = 2
    /\ q[1].cycle = 0 /\ q[2].cycle = 0 /\ q[1].frame.tag = "S" /\ q[2].frame.tag = "Z"
    /\ q[2].frame.status = "I"
    /\ \A k \in 1 .. 2 : /\ q[k].start = "I" /\ q[k].index = 0 /\ q[k].tx = "I"
                         /\ q[k].sql = NoSql /\ q[k].last = NoSql /\ q[k].command = ""
                         /\ ~q[k].failed /\ q[k].acks = 0
                         /\ q[k].stmts = NewServer.stmts /\ q[k].portals = NewServer.portals
  <1> DEFINE s == [NewServer EXCEPT !.cycle = 0]
             a == [tag |-> "S", application_name |-> Startup.application_name]
             z == [tag |-> "Z", status |-> "I"]
             u == Reply(s, a, NoSql)
             v == Reply(s, z, NoSql)
  <1>0. NoSql \in Statement /\ "I" \in ServerStatus
    BY DEF Statement, ServerStatus
  <1>1. NewServer \in ServerState
    <2>1. [n \in Name |-> NoSql] \in [Name -> Statement]
      BY <1>0
    <2>2. QED
      BY <1>0, <2>1 DEF NewServer, ServerState, CommandTag
  <1>2. /\ s \in ServerState /\ s.cycle = 0 /\ s.start = "I" /\ s.index = 0 /\ s.tx = "I"
        /\ s.last = NoSql /\ s.command = "" /\ s.failed = FALSE /\ s.acks = 0
        /\ s.stmts = NewServer.stmts /\ s.portals = NewServer.portals
    BY <1>1 DEF ServerState, NewServer
  <1>3. a \in ServerFrames /\ z \in ServerFrames
    <2>1. z \in ServerFrames
      BY <1>0, FrameTypes
    <2>2. a \in ServerFrames
      BY SessionAssumption DEF ServerFrames, BackendFrame
    <2>3. QED
      BY <2>1, <2>2
  <1>4. a.tag = "S" /\ z.tag = "Z" /\ z.status = "I"
    OBVIOUS
  <1>5. Welcome(NewServer, Startup.application_name) = <<u, v>>
    BY DEF Welcome
  <1> HIDE DEF s, a, z
  <1>6. /\ u \in ServerReply /\ v \in ServerReply /\ u.frame = a /\ v.frame = z
        /\ \A x \in {u, v} :
              /\ x.cycle = 0 /\ x.start = "I" /\ x.index = 0 /\ x.tx = "I"
              /\ x.sql = NoSql /\ x.last = NoSql /\ x.command = ""
              /\ ~x.failed /\ x.acks = 0
              /\ x.stmts = NewServer.stmts /\ x.portals = NewServer.portals
    <2>1. ASSUME NEW g \in ServerFrames
          PROVE  LET x == Reply(s, g, NoSql) IN
                /\ x \in ServerReply /\ x.frame = g
                /\ x.cycle = 0 /\ x.start = "I" /\ x.index = 0 /\ x.tx = "I"
                /\ x.sql = NoSql /\ x.last = NoSql /\ x.command = ""
                /\ ~x.failed /\ x.acks = 0
                /\ x.stmts = NewServer.stmts /\ x.portals = NewServer.portals
      <3> DEFINE x == Reply(s, g, NoSql)
      <3>1. x \in ServerReply
        BY <1>0, <1>2, ReplyIs
      <3>2. /\ x.frame = g /\ x.cycle = s.cycle /\ x.start = s.start /\ x.index = s.index
            /\ x.tx = s.tx /\ x.sql = NoSql /\ x.last = s.last /\ x.command = s.command
            /\ x.failed = s.failed /\ x.acks = s.acks
            /\ x.stmts = s.stmts /\ x.portals = s.portals
        BY DEF Reply
      <3> HIDE DEF x
      <3>3. QED
        BY <1>2, <3>1, <3>2 DEF x
    <2>2. \A x : x \in {u, v} <=> x = u \/ x = v
      OBVIOUS
    <2> HIDE DEF u, v
    <2>3. u = Reply(s, a, NoSql) /\ v = Reply(s, z, NoSql)
      BY DEF u, v
    <2>4. \A x \in {u, v} : x \in ServerReply /\ (x = u => x.frame = a) /\ (x = v => x.frame = z)
      <3>1. u \in ServerReply /\ u.frame = a
        BY <1>3, <2>1, <2>3
      <3>2. v \in ServerReply /\ v.frame = z
        BY <1>3, <2>1, <2>3
      <3>3. QED
        BY <2>2, <3>1, <3>2
    <2>5. ASSUME NEW x \in {u, v}
          PROVE  /\ x.cycle = 0 /\ x.start = "I" /\ x.index = 0 /\ x.tx = "I"
                 /\ x.sql = NoSql /\ x.last = NoSql /\ x.command = ""
                 /\ ~x.failed /\ x.acks = 0
                 /\ x.stmts = NewServer.stmts /\ x.portals = NewServer.portals
      <3>1. PICK g \in ServerFrames : x = Reply(s, g, NoSql)
        BY <1>3, <2>2, <2>3
      <3>2. QED
        BY <2>1, <3>1
    <2>6. QED
      BY <2>2, <2>4, <2>5
  <1> HIDE DEF u, v
  <1>7. <<u, v>> \in Seq(ServerReply) /\ Len(<<u, v>>) = 2 /\ <<u, v>>[1] = u /\ <<u, v>>[2] = v
    <2>1. u \in ServerReply /\ v \in ServerReply
      BY <1>6
    <2>2. QED
      BY <2>1
  <1> DEFINE q == <<u, v>>
  <1> HIDE DEF q
  <1>8. q \in Seq(ServerReply) /\ Len(q) = 2 /\ q[1] = u /\ q[2] = v
    BY <1>7 DEF q
  <1>9. \A k \in 1 .. 2 : q[k] \in {u, v}
    BY <1>8
  <1>10. /\ q[1].cycle = 0 /\ q[2].cycle = 0 /\ q[1].frame.tag = "S" /\ q[2].frame.tag = "Z"
         /\ q[2].frame.status = "I"
    BY <1>4, <1>6, <1>8
  <1>11. \A k \in 1 .. 2 : /\ q[k].start = "I" /\ q[k].index = 0 /\ q[k].tx = "I"
                           /\ q[k].sql = NoSql /\ q[k].last = NoSql /\ q[k].command = ""
                           /\ ~q[k].failed /\ q[k].acks = 0
                           /\ q[k].stmts = NewServer.stmts /\ q[k].portals = NewServer.portals
    BY <1>6, <1>9
  <1>12. QED
    BY <1>1, <1>5, <1>8, <1>10, <1>11 DEF q

LEMMA AlignedInit == SessionInit => AlignedInv
  <1> SUFFICES ASSUME SessionInit PROVE AlignedInv
    OBVIOUS
  <1>1. TypeOK
    BY NoSqlType, StartupAssumption DEF SessionInit, ProxyInit, Init, TypeOK, TxState
  <1>2. Structure
    <2>1. Structured(cycles, next_cycle, tx_epoch)
      BY DEF SessionInit, ProxyInit, Init, Structured
    <2>2. QED
      BY <1>1, <2>1, StructureIs
  <1>3. /\ srv = NewServer /\ srv \in ServerState /\ replies \in Seq(ServerReply) /\ Len(replies) = 2
        /\ replies[1].cycle = 0 /\ replies[2].cycle = 0
        /\ replies[1].frame.tag = "S" /\ replies[2].frame.tag = "Z"
    BY WelcomeIs DEF SessionInit
  <1>4. srv.cycle = 1 /\ srv.copy = "no" /\ ~srv.skip
    BY <1>3 DEF NewServer
  <1>5. /\ cycles = <<>> /\ next_cycle = 0 /\ ~batch /\ awaited = 1 /\ ~Welcomed
    BY DEF SessionInit, ProxyInit, Init, Welcomed
  <1>6. Chained(replies, srv, next_cycle)
    <2> SUFFICES ASSUME NEW k \in 1 .. Len(replies)
                 PROVE  /\ replies[k].cycle <= next_cycle
                        /\ NextCycle(replies[k])
                             = IF k = Len(replies) THEN srv.cycle ELSE replies[k + 1].cycle
                        /\ NextCycle(replies[k]) <= srv.cycle
                        /\ replies[k].cycle = 0 => replies[k].frame.tag \in {"S", "Z"}
      BY DEF Chained
    <2>1. CASE k = 1
      BY <1>3, <1>4, <1>5, <2>1 DEF NextCycle
    <2>2. CASE k = 2
      BY <1>3, <1>4, <1>5, <2>2 DEF NextCycle
    <2>3. QED
      BY <1>3, <2>1, <2>2
  <1>7. Answering = 0 /\ ~NewestOpen
    BY <1>3, <1>5 DEF Answering, NewestOpen
  <1>8. InStep
    BY <1>3, <1>4, <1>5, <1>6, <1>7 DEF InStep
  <1>9. QED
    BY <1>1, <1>2, <1>3, <1>8 DEF AlignedInv, Connected

LEMMA AlignedStep ==
    ASSUME Orderly, AlignedInv, [SessionNext]_sessionVars
    PROVE  AlignedInv'
  <1>1. CASE UNCHANGED sessionVars
    <2>1. UNCHANGED stateVars /\ UNCHANGED <<conn, srv, replies, reply, batch, awaited>>
      <3>1. UNCHANGED proxyVars /\ UNCHANGED <<srv, replies, reply, batch, awaited>>
        BY <1>1 DEF sessionVars
      <3>2. UNCHANGED stateVars /\ UNCHANGED conn
        BY <3>1 DEF proxyVars, relayVars
      <3>3. QED
        BY <3>1, <3>2
    <2>2. TypeOK' /\ Structure'
      BY <2>1, StateKept DEF AlignedInv
    <2>3. UNCHANGED <<cycles, next_cycle>>
      BY <2>1 DEF stateVars
    <2>4. Connected => Connected'
      BY <2>1, <2>3 DEF Connected, InStep, Chained, Answering, NewestOpen, Welcomed
    <2>5. QED
      BY <2>1, <2>2, <2>4 DEF AlignedInv
  <1>2. ASSUME NEW f \in ClientFrames, ClientStep(f) PROVE AlignedInv'
    BY <1>2, ClientInStep
  <1>3. CASE ServerStep
    BY <1>3, ServerInStep
  <1>4. CASE Break
    <2>1. conn' # "open" /\ UNCHANGED stateVars
      BY <1>4 DEF Break, ClientEof, UpstreamEof, Failure, Return, Unrelayed
    <2>2. QED
      BY <2>1, StateKept DEF AlignedInv
  <1>5. QED
    BY <1>1, <1>2, <1>3, <1>4 DEF SessionNext, Finished

LEMMA AlignedInvariant ==
    ASSUME Orderly
    PROVE  SessionSpec => []AlignedInv
  <1>1. AlignedInv /\ [SessionNext]_sessionVars => AlignedInv'
    BY AlignedStep
  <1>2. QED
    BY <1>1, AlignedInit, PTL DEF SessionSpec

(***************************************************************************)
(* Only a server step shortens the queue of replies.                       *)
(***************************************************************************)
LEMMA HandledIs ==
    ASSUME Orderly, AlignedInv, [SessionNext]_sessionVars, Handled
    PROVE  ServerStep
  <1>1. CASE UNCHANGED replies
    <2>1. conn # "open" \/ Len(replies) \in Nat \/ TRUE
      OBVIOUS
    <2>2. replies' = replies
      BY <1>1
    <2>3. ~(Len(replies) < Len(replies))
      OBVIOUS
    <2>4. QED
      BY <2>2, <2>3 DEF Handled
  <1>2. ASSUME NEW f \in ClientFrames, ClientStep(f), ~(UNCHANGED replies) PROVE FALSE
    <2>1. PICK a : Joins(f, a)
      BY <1>2, ClientTurn
    <2>2. replies \in Seq(ServerReply) /\ a.out \in Seq(ServerReply)
      BY <1>2, <2>1, ClientTurn DEF Connected, Joins, Turn, IsAnswer
    <2>3. replies' = replies \o a.out
      BY <2>1 DEF Joins
    <2>4. \A p, q \in Seq(ServerReply) : ~(Len(p \o q) < Len(p))
      OBVIOUS
    <2>5. QED
      BY <2>2, <2>3, <2>4 DEF Handled
  <1>3. QED
    BY <1>1, <1>2 DEF SessionNext, Break, Finished, sessionVars

LEMMA CycleNamed ==
    ASSUME Orderly, AlignedInv, [SessionNext]_sessionVars, Handled
    PROVE  \A e \in NewEvents : e.cycle = reply'.cycle
  <1>1. ServerStep
    BY HandledIs
  <1>2. /\ conn = "open" /\ replies # <<>> /\ Backend(Head(replies).frame)
        /\ reply' = Head(replies)
    BY <1>1, ServerReads
  <1>3. /\ TypeOK /\ Structure /\ InStep /\ replies \in Seq(ServerReply)
    BY <1>2 DEF AlignedInv, Connected
  <1>4. /\ Head(replies) = replies[1] /\ replies[1].frame \in ServerFrames
        /\ replies[1].cycle \in Nat /\ replies[1].cycle <= next_cycle
        /\ Answering = replies[1].cycle
    BY <1>2, <1>3, ChainTail, ReplyFields DEF InStep, Answering
  <1>5. \A e \in NewEvents : e.cycle = IF cycles = <<>> THEN 0 ELSE cycles[1].id
    BY <1>2, <1>3, <1>4, BackendEventsAre DEF NewEvents, Describes
  <1>6. /\ cycles \in Seq(Cycle) /\ next_cycle \in Nat /\ Len(cycles) \in Nat
        /\ cycles = <<>> <=> Len(cycles) = 0
    BY <1>3 DEF TypeOK
  <1>7. \A i \in 1 .. Len(cycles) : cycles[i].id = (next_cycle - Len(cycles)) + i
    BY <1>3, StructureIs DEF Structured
  <1>8. CASE replies[1].cycle = 0
    <2>1. cycles = <<>>
      BY <1>3, <1>4, <1>8 DEF InStep
    <2>2. QED
      BY <1>2, <1>4, <1>5, <1>8, <2>1
  <1>9. CASE replies[1].cycle > 0
    <2>1. Len(cycles) + replies[1].cycle = next_cycle + 1
      BY <1>3, <1>4, <1>9 DEF InStep
    <2>2. 1 \in 1 .. Len(cycles) /\ cycles # <<>>
      BY <1>4, <1>6, <1>9, <2>1
    <2>3. cycles[1].id = (next_cycle - Len(cycles)) + 1
      BY <1>7, <2>2
    <2>4. cycles[1].id = replies[1].cycle
      BY <1>4, <1>6, <2>1, <2>3
    <2>5. QED
      BY <1>2, <1>4, <1>5, <2>2, <2>4
  <1>10. QED
    BY <1>4, <1>8, <1>9

(***************************************************************************)
(* The event of a reply names the cycle that the server is answering, for  *)
(* any pipelining client and any number of cycles in flight (query_cycle   *)
(* of ConnectionState, whose queue the two directions push and pop apart). *)
(***************************************************************************)
THEOREM CyclesAlignedCorrect ==
    ASSUME Orderly
    PROVE  SessionSpec => CyclesAligned
  <1>1. AlignedInv /\ [SessionNext]_sessionVars
          => [Handled => \A e \in NewEvents : e.cycle = reply'.cycle]_sessionVars
    BY CycleNamed
  <1>2. QED
    BY <1>1, AlignedInvariant, PTL DEF SessionSpec, CyclesAligned
-----------------------------------------------------------------------------
(***************************************************************************)
(* Part 5.  A client that waits for ReadyForQuery before it begins a new   *)
(* cycle.  At most one cycle is outstanding, the client is silent from its *)
(* Sync or simple query to the ReadyForQuery, the two sides count the      *)
(* statements of the cycle alike and, at its start, agree on whether a     *)
(* transaction is under way.                                               *)
(***************************************************************************)
Lockstep == Orderly /\ ~Pipelining /\ CopyIn = {}

ReadyComing == replies # <<>> /\ replies[Len(replies)].frame.tag = "Z"

Executed == IF cycles = <<>> THEN 0 ELSE cycles[1].executions

InTurn ==
    /\ Len(cycles) <= 1
    /\ batch => awaited = 0
    /\ \A k \in 1 .. Len(replies) : replies[k].frame.tag = "Z" => k = Len(replies)
    /\ ReadyComing \/ (cycles # <<>> /\ ~NewestOpen) => awaited = 1

Counted ==
    /\ srv.index = 0 => (srv.open <=> srv.start # "I")
    /\ ReadyComing => srv.index = 0 /\ srv.start = replies[Len(replies)].frame.status
    /\ ~ReadyComing => tx_state = StatusName(srv.start) /\ srv.index = Executed
    /\ ReadyComing \/ cycles = <<>> => srv.tx = srv.start
    /\ cycles # <<>> => (cycles[1].epoch_allocated <=> tx_state = "Idle" /\ Executed > 0)

LockInv == AlignedInv /\ (conn = "open" => InTurn /\ Counted)

(***************************************************************************)
(* When the client sends, nothing is on its way that ends a cycle.         *)
(***************************************************************************)
LEMMA ClientQuiet ==
    ASSUME Lockstep, LockInv, NEW f \in ClientFrames, ClientStep(f), f.tag # "X"
    PROVE  /\ TypeOK /\ Connected /\ InTurn /\ Counted /\ Frontend(f)
           /\ awaited = 0 /\ ~ReadyComing /\ (cycles = <<>> \/ NewestOpen)
           /\ srv.copy = "no" /\ f.tag \in {"P", "B", "C", "E", "S", "Q", "H"}
           /\ f.tag = "Q" => cycles = <<>> /\ ~srv.skip
  <1>1. /\ conn = "open" /\ Connected /\ Frontend(f) /\ f.tag # "D"
        /\ f.tag = "Q" => ~NewestOpen /\ ~srv.skip
        /\ srv.copy = "no" => f.tag # "c"
    BY ClientTurn DEF Lockstep, LockInv
  <1>2. TypeOK /\ InTurn /\ Counted
    BY <1>1 DEF LockInv, AlignedInv
  <1>3. srv.copy = "no"
    BY <1>1 DEF Lockstep, Connected, InStep
  <1>4. f.tag \in {"P", "B", "C", "E", "S", "Q", "H"}
    BY <1>1, <1>3, ClientFields
  <1>5. awaited = 0
    <2>1. CASE batch
      BY <1>2, <2>1 DEF InTurn
    <2>2. CASE ~batch
      BY <1>4, <2>2 DEF ClientStep, MaySend, StartsCycle, Lockstep
    <2>3. QED
      BY <2>1, <2>2
  <1>6. ~ReadyComing /\ (cycles = <<>> \/ NewestOpen)
    BY <1>2, <1>5 DEF InTurn
  <1>7. QED
    BY <1>1, <1>2, <1>3, <1>4, <1>5, <1>6

LEMMA ClientAlone ==
    ASSUME Lockstep, LockInv, NEW f \in ClientFrames, ClientStep(f), conn' = "open"
    PROVE  /\ TypeOK /\ Connected /\ InTurn /\ Counted /\ Frontend(f)
           /\ awaited = 0 /\ ~ReadyComing /\ (cycles = <<>> \/ NewestOpen)
           /\ srv.copy = "no" /\ f.tag \in {"P", "B", "C", "E", "S", "Q", "H"}
           /\ f.tag = "Q" => cycles = <<>> /\ ~srv.skip
           /\ \E a : /\ Joins(f, a)
                     /\ f.tag \in {"S", "Q"} => Ends(Numbered(srv, f), a)
                     /\ f.tag \in {"P", "B", "C", "E"} => Within(Numbered(srv, f), a)
                     /\ f.tag = "H" => a = Answer(srv, <<>>)
  <1>1. f.tag # "X" /\ \E a : Joins(f, a)
    BY ClientTurn DEF Lockstep, LockInv
  <1>2. /\ TypeOK /\ Connected /\ InTurn /\ Counted /\ Frontend(f)
        /\ awaited = 0 /\ ~ReadyComing /\ (cycles = <<>> \/ NewestOpen)
        /\ srv.copy = "no" /\ f.tag \in {"P", "B", "C", "E", "S", "Q", "H"}
        /\ f.tag = "Q" => cycles = <<>> /\ ~srv.skip
    BY <1>1, ClientQuiet
  <1>3. srv \in ServerState
    BY <1>2 DEF Connected
  <1>4. PICK a : Joins(f, a)
    BY <1>1
  <1>5. /\ f.tag \in {"S", "Q"} => Ends(Numbered(srv, f), a)
        /\ f.tag \in {"P", "B", "C", "E"} => Within(Numbered(srv, f), a)
        /\ f.tag = "H" => a = Answer(srv, <<>>)
    BY <1>2, <1>3, <1>4, AnswersCycle DEF Joins, Lockstep
  <1>6. QED
    BY <1>2, <1>4, <1>5

(***************************************************************************)
(* The only outstanding cycle, after the client's frame.                   *)
(***************************************************************************)
Only(extended) == IF cycles = <<>> THEN FreshCycle(next_cycle + 1, extended) ELSE cycles[1]

LEMMA OnlyWork ==
    ASSUME TypeOK, Len(cycles) <= 1, cycles = <<>> \/ NewestOpen,
           NEW f \in ClientFrames, Frontend(f), f.tag = "Q" => cycles = <<>>
    PROVE  LET x == f.tag # "Q"
               c == Only(x)
               d == cycles'[1]
           IN  /\ c \in Cycle /\ c.sealed = ~x
               /\ cycles = <<>> => /\ c.executions = 0 /\ ~c.epoch_allocated
                                   /\ c.mutations = <<>> /\ c.extended = x
               /\ f.tag \in {"P", "B", "C", "E", "S", "Q"} =>
                     /\ cycles' # <<>> /\ Len(cycles') = 1 /\ d \in Cycle /\ SameShape(c, d)
                     /\ d.sealed = (f.tag \in {"S", "Q"})
               /\ f.tag \in {"P", "B", "C"} /\ Mutates(f) =>
                     MutationOf(f) \in Mutation /\ d.mutations = Append(c.mutations, MutationOf(f))
               /\ f.tag \in {"Q", "E", "S"} \/ (f.tag = "B" /\ ~Mutates(f)) =>
                     d.mutations = c.mutations
               /\ f.tag \in {"P", "B", "C", "S"} => SameStatements(c, d)
               /\ f.tag \in {"Q", "E"} =>
                     /\ d.executions = c.executions + 1
                     /\ d.epoch_allocated = (c.epoch_allocated \/ tx_state = "Idle")
                     /\ StatementOf(f) \in Statement
                     /\ d.statements = Append(c.statements, StatementOf(f))
                     /\ tx_epoch' = IF tx_state = "Idle" /\ ~c.epoch_allocated THEN tx_epoch + 1
                                    ELSE tx_epoch
               /\ f.tag \notin {"Q", "E"} => tx_epoch' = tx_epoch
               /\ f.tag = "H" => UNCHANGED <<cycles, next_cycle>>
               /\ UNCHANGED <<startup, tx_state, reliable>>
  <1> DEFINE x == f.tag # "Q"
             c == Only(x)
             d == cycles'[1]
  <1>0. cycles \in Seq(Cycle) /\ next_cycle \in Nat /\ Len(cycles) \in Nat
        /\ (cycles # <<>> => Len(cycles) = 1 /\ cycles[1] \in Cycle)
    <2>1. cycles \in Seq(Cycle) /\ next_cycle \in Nat
      BY DEF TypeOK
    <2>2. Len(cycles) \in Nat /\ (cycles # <<>> => Len(cycles) # 0 /\ cycles[1] \in Cycle)
      BY <2>1
    <2>3. \A n \in Nat : n <= 1 /\ n # 0 => n = 1
      OBVIOUS
    <2>4. QED
      BY <2>1, <2>2, <2>3
  <1>1. /\ x \in BOOLEAN /\ Newest(x) = c /\ c \in Cycle
        /\ OpensCycle(x) <=> cycles = <<>>
        /\ c.sealed = ~x
        /\ cycles = <<>> => /\ c.executions = 0 /\ ~c.epoch_allocated
                            /\ c.mutations = <<>> /\ c.extended = x
    <2>1. OpensCycle(x) <=> cycles = <<>>
      BY DEF OpensCycle, NewestOpen, Back
    <2>2. Newest(x) = c
      BY <1>0, <2>1 DEF Newest, Only
    <2>3. c \in Cycle
      BY <2>2, WorkIs
    <2>4. c.sealed = ~x
      <3>1. CASE cycles = <<>>
        BY <3>1 DEF Only, FreshCycle
      <3>2. CASE cycles # <<>>
        <4>1. x /\ c = cycles[1] /\ ~cycles[1].sealed
          BY <1>0, <3>2 DEF Only, NewestOpen
        <4>2. c.sealed \in BOOLEAN
          BY <2>3 DEF Cycle
        <4>3. QED
          BY <4>1, <4>2
      <3>3. QED
        BY <3>1, <3>2
    <2>5. QED
      BY <2>1, <2>2, <2>3, <2>4 DEF Only, FreshCycle
  <1>2. ASSUME NEW e \in Cycle, Worked(x, e)
        PROVE  cycles' # <<>> /\ Len(cycles') = 1 /\ d = e
    <2> DEFINE n == IF OpensCycle(x) THEN Len(cycles) + 1 ELSE Len(cycles)
    <2>0. n = 1
      BY <1>0, <1>1
    <2>1. x \in BOOLEAN
      BY <1>1
    <2> HIDE DEF x
    <2>2. /\ Len(cycles') = n /\ cycles' \in Seq(Cycle)
          /\ \A i \in 1 .. n : cycles'[i] = IF i = n THEN e ELSE cycles[i]
      BY <1>2, <2>1, WorkIs DEF Worked
    <2> HIDE DEF n
    <2>3. Len(cycles') = 1 /\ 1 \in 1 .. 1 /\ cycles'[1] = e
      BY <2>0, <2>2
    <2>4. cycles' # <<>>
      BY <2>3
    <2>5. QED
      BY <2>3, <2>4
  <1> SUFFICES /\ c \in Cycle /\ c.sealed = ~x
               /\ cycles = <<>> => /\ c.executions = 0 /\ ~c.epoch_allocated
                                   /\ c.mutations = <<>> /\ c.extended = x
               /\ f.tag \in {"P", "B", "C", "E", "S", "Q"} =>
                     /\ cycles' # <<>> /\ Len(cycles') = 1 /\ d \in Cycle /\ SameShape(c, d)
                     /\ d.sealed = (f.tag \in {"S", "Q"})
               /\ f.tag \in {"P", "B", "C"} /\ Mutates(f) =>
                     MutationOf(f) \in Mutation /\ d.mutations = Append(c.mutations, MutationOf(f))
               /\ f.tag \in {"Q", "E", "S"} \/ (f.tag = "B" /\ ~Mutates(f)) =>
                     d.mutations = c.mutations
               /\ f.tag \in {"P", "B", "C", "S"} => SameStatements(c, d)
               /\ f.tag \in {"Q", "E"} =>
                     /\ d.executions = c.executions + 1
                     /\ d.epoch_allocated = (c.epoch_allocated \/ tx_state = "Idle")
                     /\ StatementOf(f) \in Statement
                     /\ d.statements = Append(c.statements, StatementOf(f))
                     /\ tx_epoch' = IF tx_state = "Idle" /\ ~c.epoch_allocated THEN tx_epoch + 1
                                    ELSE tx_epoch
               /\ f.tag \notin {"Q", "E"} => tx_epoch' = tx_epoch
               /\ f.tag = "H" => UNCHANGED <<cycles, next_cycle>>
               /\ UNCHANGED <<startup, tx_state, reliable>>
    OBVIOUS
  <1> HIDE DEF c, d
  <1>3. UNCHANGED <<startup, tx_state, reliable>>
        /\ (f.tag \notin {"Q", "E"} => tx_epoch' = tx_epoch)
    BY FrontendWork
  <1>4. CASE f.tag \in {"P", "B", "C"} /\ Mutates(f)
    <2>1. MutationOf(f) \in Mutation /\ Worked(TRUE, Pushes(Newest(TRUE), MutationOf(f))) /\ x = TRUE
      BY <1>4, FrontendWork
    <2>2. /\ Pushes(c, MutationOf(f)) \in Cycle /\ SameShape(c, Pushes(c, MutationOf(f)))
          /\ SameStatements(c, Pushes(c, MutationOf(f)))
          /\ Pushes(c, MutationOf(f)).sealed = c.sealed
          /\ Pushes(c, MutationOf(f)).mutations = Append(c.mutations, MutationOf(f))
      BY <1>1, <2>1, PushesIs
    <2>3. cycles' # <<>> /\ Len(cycles') = 1 /\ d = Pushes(c, MutationOf(f))
      BY <1>1, <1>2, <2>1, <2>2
    <2>4. QED
      BY <1>1, <1>3, <1>4, <2>1, <2>2, <2>3
  <1>5. CASE f.tag = "B" /\ ~Mutates(f)
    <2>1. Worked(TRUE, Newest(TRUE)) /\ x = TRUE
      BY <1>5, FrontendWork
    <2>2. cycles' # <<>> /\ Len(cycles') = 1 /\ d = c
      BY <1>1, <1>2, <2>1
    <2>3. QED
      BY <1>1, <1>3, <1>5, <2>1, <2>2 DEF SameShape, SameStatements
  <1>6. CASE f.tag = "S"
    <2>1. Worked(TRUE, Seals(Newest(TRUE))) /\ x = TRUE
      BY <1>6, FrontendWork
    <2>2. /\ Seals(c) \in Cycle /\ SameShape(c, Seals(c)) /\ SameStatements(c, Seals(c))
          /\ Seals(c).sealed = TRUE /\ Seals(c).mutations = c.mutations
      BY <1>1, SealsIs DEF Cycle
    <2>3. cycles' # <<>> /\ Len(cycles') = 1 /\ d = Seals(c)
      BY <1>1, <1>2, <2>1, <2>2
    <2>4. QED
      BY <1>1, <1>3, <1>6, <2>1, <2>2, <2>3
  <1>7. CASE f.tag \in {"Q", "E"}
    <2> DEFINE e == Starts(c, StatementOf(f), Allocates(f))
    <2>1. /\ StatementOf(f) \in Statement /\ Allocates(f) \in BOOLEAN
          /\ Worked(x, Starts(Newest(x), StatementOf(f), Allocates(f)))
          /\ tx_epoch' = IF Allocates(f) THEN tx_epoch + 1 ELSE tx_epoch
      BY <1>7, FrontendWork
    <2>2. /\ e \in Cycle /\ SameShape(c, e) /\ e.executions = c.executions + 1
          /\ e.epoch_allocated = (c.epoch_allocated \/ Allocates(f))
          /\ e.statements = Append(c.statements, StatementOf(f))
          /\ e.sealed = c.sealed /\ e.mutations = c.mutations
      BY <1>1, <2>1, StartsIs
    <2> HIDE DEF e
    <2>3. cycles' # <<>> /\ Len(cycles') = 1 /\ d = e
      BY <1>1, <1>2, <2>1, <2>2 DEF e
    <2>4. Allocates(f) <=> tx_state = "Idle" /\ ~c.epoch_allocated
      <3> DEFINE n == IF OpensCycle(x) THEN Len(cycles) + 1 ELSE Len(cycles)
      <3>0. n = 1
        BY <1>0, <1>1
      <3>1. Len(CyclesWith(x)) = n /\ Back(CyclesWith(x)) = c /\ CyclesWith(x) \in Seq(Cycle)
        BY <1>1, WorkIs, CyclesWithType
      <3> HIDE DEF n
      <3>2. Head(CyclesWith(x)) = c /\ Len(CyclesWith(x)) = 1
        BY <3>0, <3>1 DEF Back
      <3>3. QED
        BY <3>2 DEF Allocates, AllocatesEpoch
    <2>5. d.epoch_allocated = (c.epoch_allocated \/ tx_state = "Idle")
      BY <1>1, <2>2, <2>3, <2>4 DEF Cycle
    <2>6. d.sealed = (f.tag \in {"S", "Q"})
      BY <1>1, <1>7, <2>2, <2>3
    <2>7. tx_epoch' = IF tx_state = "Idle" /\ ~c.epoch_allocated THEN tx_epoch + 1 ELSE tx_epoch
      BY <2>1, <2>4
    <2>8. QED
      BY <1>1, <1>3, <1>7, <2>1, <2>2, <2>3, <2>5, <2>6, <2>7
  <1>8. CASE f.tag \in {"D", "H", "c", "X"}
    BY <1>1, <1>3, <1>8, FrontendWork
  <1>9. QED
    BY <1>4, <1>5, <1>6, <1>7, <1>8, ClientFields DEF Mutates

LEMMA Joined ==
    ASSUME NEW S, NEW q \in Seq(S), NEW o \in Seq(S)
    PROVE  LET j == q \o o IN
           /\ j \in Seq(S) /\ Len(j) = Len(q) + Len(o) /\ Len(q) \in Nat /\ Len(o) \in Nat
           /\ \A k \in 1 .. Len(j) :
                 \/ k \in 1 .. Len(q) /\ j[k] = q[k]
                 \/ \E i \in 1 .. Len(o) : k = Len(q) + i /\ j[k] = o[i]
           /\ o # <<>> => /\ j # <<>> /\ Len(j) # 0 /\ j[Len(j)] = o[Len(o)]
                          /\ Len(o) \in 1 .. Len(o)
           /\ o = <<>> => j = q
  <1> DEFINE j == q \o o
  <1>1. /\ j \in Seq(S) /\ Len(j) = Len(q) + Len(o) /\ Len(q) \in Nat /\ Len(o) \in Nat
        /\ \A k \in 1 .. Len(q) : j[k] = q[k]
        /\ \A k \in 1 .. Len(o) : j[Len(q) + k] = o[k]
        /\ o = <<>> => j = q
        /\ o # <<>> => Len(o) # 0
    OBVIOUS
  <1> HIDE DEF j
  <1>2. ASSUME NEW k \in 1 .. Len(j)
        PROVE  \/ k \in 1 .. Len(q) /\ j[k] = q[k]
               \/ \E i \in 1 .. Len(o) : k = Len(q) + i /\ j[k] = o[i]
    <2>1. CASE k <= Len(q)
      BY <1>1, <2>1
    <2>2. CASE ~(k <= Len(q))
      <3> DEFINE i == k - Len(q)
      <3>1. i \in 1 .. Len(o) /\ k = Len(q) + i
        BY <1>1, <2>2
      <3> HIDE DEF i
      <3>2. QED
        BY <1>1, <3>1
    <2>3. QED
      BY <2>1, <2>2
  <1>3. ASSUME o # <<>>
        PROVE  j # <<>> /\ Len(j) # 0 /\ j[Len(j)] = o[Len(o)] /\ Len(o) \in 1 .. Len(o)
    <2>1. Len(o) \in 1 .. Len(o) /\ Len(j) # 0
      BY <1>1, <1>3
    <2>2. j # <<>>
      BY <2>1
    <2>3. QED
      BY <1>1, <2>1, <2>2
  <1>4. QED
    BY <1>1, <1>2, <1>3 DEF j

LEMMA Single ==
    ASSUME NEW S, NEW q \in Seq(S), Len(q) <= 1, q # <<>>
    PROVE  Len(q) = 1 /\ q[1] \in S /\ Head(q) = q[1]
  <1>1. Len(q) \in Nat /\ Len(q) # 0 /\ q[1] \in S /\ Head(q) = q[1]
    OBVIOUS
  <1>2. \A n \in Nat : n <= 1 /\ n # 0 => n = 1
    OBVIOUS
  <1>3. QED
    BY <1>1, <1>2

LEMMA StatusIdle ==
    \A s \in ServerState : StatusName(s.start) = "Idle" <=> s.start = "I"
  BY DEF ServerState, StatusName

LEMMA ClientLock ==
    ASSUME Lockstep, LockInv, NEW f \in ClientFrames, ClientStep(f)
    PROVE  LockInv'
  <1>1. AlignedInv'
    BY ClientInStep DEF Lockstep, LockInv
  <1> SUFFICES ASSUME conn' = "open" PROVE InTurn' /\ Counted'
    BY <1>1 DEF LockInv
  <1> DEFINE x == f.tag # "Q"
             c == Only(x)
             d == cycles'[1]
             t == Numbered(srv, f)
  <1>2. /\ TypeOK /\ Connected /\ InTurn /\ Counted /\ Frontend(f)
        /\ awaited = 0 /\ ~ReadyComing /\ (cycles = <<>> \/ NewestOpen)
        /\ srv.copy = "no" /\ f.tag \in {"P", "B", "C", "E", "S", "Q", "H"}
        /\ f.tag = "Q" => cycles = <<>> /\ ~srv.skip
    BY ClientAlone
  <1>3. PICK a : /\ Joins(f, a)
                 /\ f.tag \in {"S", "Q"} => Ends(t, a)
                 /\ f.tag \in {"P", "B", "C", "E"} => Within(t, a)
                 /\ f.tag = "H" => a = Answer(srv, <<>>)
    BY ClientAlone
  <1>4. /\ c \in Cycle
        /\ cycles = <<>> => c.executions = 0 /\ ~c.epoch_allocated
        /\ f.tag # "H" => /\ cycles' # <<>> /\ Len(cycles') = 1 /\ d \in Cycle
                          /\ d.sealed = (f.tag \in {"S", "Q"})
        /\ f.tag \in {"P", "B", "C", "S"} =>
              d.executions = c.executions /\ d.epoch_allocated = c.epoch_allocated
        /\ f.tag \in {"Q", "E"} =>
              /\ d.executions = c.executions + 1
              /\ d.epoch_allocated = (c.epoch_allocated \/ tx_state = "Idle")
              /\ tx_epoch' = IF tx_state = "Idle" /\ ~c.epoch_allocated THEN tx_epoch + 1
                             ELSE tx_epoch
        /\ f.tag \notin {"Q", "E"} => tx_epoch' = tx_epoch
        /\ f.tag = "H" => cycles' = cycles
        /\ tx_state' = tx_state
    BY <1>2, OnlyWork DEF SameStatements, InTurn
  <1> HIDE DEF x, d
  <1>5. srv \in ServerState /\ replies \in Seq(ServerReply)
    BY <1>2 DEF Connected
  <1>6. /\ t \in ServerState /\ t.start = srv.start /\ t.tx = srv.tx
        /\ t.index = IF f.tag \in {"Q", "E"} THEN srv.index + 1 ELSE srv.index
    BY <1>5, NumberedIs
  <1> HIDE DEF t
  <1>7. /\ c.executions \in Nat /\ c.epoch_allocated \in BOOLEAN /\ srv.index = c.executions
        /\ c.epoch_allocated <=> tx_state = "Idle" /\ c.executions > 0
        /\ tx_state = "Idle" <=> srv.start = "I"
        /\ tx_state = StatusName(srv.start)
    <2>1. c.executions \in Nat /\ c.epoch_allocated \in BOOLEAN
      BY <1>4 DEF Cycle
    <2>2. tx_state = StatusName(srv.start) /\ srv.index = Executed
      BY <1>2 DEF Counted
    <2>3. CASE cycles = <<>>
      BY <1>4, <1>5, <2>1, <2>2, <2>3, StatusIdle DEF Executed
    <2>4. CASE cycles # <<>>
      <3>1. c = cycles[1]
        BY <2>4 DEF Only
      <3>2. Executed = c.executions
        BY <2>4, <3>1 DEF Executed
      <3>3. c.epoch_allocated <=> tx_state = "Idle" /\ Executed > 0
        BY <1>2, <2>4, <3>1 DEF Counted
      <3>4. QED
        BY <1>5, <2>1, <2>2, <3>2, <3>3, StatusIdle
    <2>5. QED
      BY <2>3, <2>4
  <1> HIDE DEF c
  <1>9. /\ batch' = (f.tag \notin {"Q", "S"})
        /\ awaited' = IF f.tag \in {"Q", "S"} THEN 1 ELSE 0
    <2>1. f.tag \notin {"X", "c"}
      BY <1>2
    <2>2. /\ batch' = (f.tag \notin {"Q", "S", "X"} /\ ~(f.tag = "c" /\ srv.copy = "Q"))
          /\ awaited' = CASE f.tag \in {"Q", "S"} -> awaited + 1
                          [] f.tag = "c" -> awaited - srv.ignored
                          [] OTHER -> awaited
      BY DEF ClientStep
    <2>3. QED
      BY <1>2, <2>1, <2>2
  <1> DEFINE o == a.out
             j == replies'
  <1>10. /\ o \in Seq(ServerReply) /\ j = replies \o o /\ srv' = a.srv /\ a.srv \in ServerState
    BY <1>3 DEF Joins, Turn, IsAnswer
  <1> HIDE DEF o
  <1>11. /\ j \in Seq(ServerReply) /\ Len(j) = Len(replies) + Len(o)
         /\ Len(replies) \in Nat /\ Len(o) \in Nat
         /\ \A k \in 1 .. Len(j) :
               \/ k \in 1 .. Len(replies) /\ j[k] = replies[k]
               \/ \E i \in 1 .. Len(o) : k = Len(replies) + i /\ j[k] = o[i]
         /\ o # <<>> => j # <<>> /\ j[Len(j)] = o[Len(o)]
         /\ o = <<>> => j = replies
    <2>1. LET q == replies \o o IN
          /\ q \in Seq(ServerReply) /\ Len(q) = Len(replies) + Len(o)
          /\ Len(replies) \in Nat /\ Len(o) \in Nat
          /\ \A k \in 1 .. Len(q) :
                \/ k \in 1 .. Len(replies) /\ q[k] = replies[k]
                \/ \E i \in 1 .. Len(o) : k = Len(replies) + i /\ q[k] = o[i]
          /\ o # <<>> => q # <<>> /\ q[Len(q)] = o[Len(o)]
          /\ o = <<>> => q = replies
      BY <1>5, <1>10, Joined
    <2> DEFINE q == replies \o o
    <2>2. j = q
      BY <1>10
    <2> HIDE DEF q, j
    <2>3. QED
      BY <2>1, <2>2 DEF q
  <1>12. \A k \in 1 .. Len(replies) : replies[k].frame.tag # "Z"
    <2> SUFFICES ASSUME NEW k \in 1 .. Len(replies), replies[k].frame.tag = "Z" PROVE FALSE
      OBVIOUS
    <2>1. k = Len(replies)
      BY <1>2 DEF InTurn
    <2>2. replies # <<>>
      BY <1>5
    <2>3. QED
      BY <1>2, <2>1, <2>2 DEF ReadyComing
  <1>13. f.tag \in {"P", "B", "C", "H"} =>
            srv'.index = srv.index /\ (srv.index = 0 => (srv'.open <=> srv'.start # "I"))
    <2> SUFFICES ASSUME f.tag \in {"P", "B", "C", "H"}
                 PROVE  /\ srv'.index = srv.index
                        /\ srv.index = 0 => (srv'.open <=> srv'.start # "I")
      OBVIOUS
    <2>1. srv'.start = srv.start /\ srv'.index = srv.index /\ srv'.open = srv.open
      <3>1. CASE f.tag = "H"
        BY <1>3, <1>10, <3>1 DEF Answer
      <3>2. CASE f.tag # "H"
        <4>1. a \in Answers(srv, f)
          BY <1>3 DEF Joins
        <4>2. a.srv.open = srv.open
          BY <1>2, <1>5, <4>1, AnswersOpen
        <4>3. a.srv.start = t.start /\ a.srv.index = t.index
          BY <1>3, <3>2 DEF Within, Stays
        <4>4. QED
          BY <1>6, <1>10, <4>2, <4>3
      <3>3. QED
        BY <3>1, <3>2
    <2>2. srv.index = 0 => (srv.open <=> srv.start # "I")
      BY <1>2 DEF Counted
    <2>3. QED
      BY <2>1, <2>2
  <1>14. /\ Len(cycles') <= 1
         /\ cycles' # <<>> => d = cycles'[1] /\ (NewestOpen' <=> ~d.sealed)
         /\ f.tag = "H" => (NewestOpen' <=> NewestOpen)
    <2>1. CASE f.tag = "H"
      <3>1. cycles' = cycles /\ Len(cycles) <= 1
        BY <1>2, <1>4, <2>1 DEF InTurn
      <3>2. cycles \in Seq(Cycle)
        BY <1>2 DEF TypeOK
      <3>3. cycles # <<>> => Len(cycles) = 1
        BY <3>1, <3>2, Single
      <3>4. cycles' # <<>> => d = cycles[1] /\ (NewestOpen' <=> ~d.sealed)
        BY <3>1, <3>3 DEF NewestOpen, d
      <3>5. QED
        BY <3>1, <3>4 DEF NewestOpen, d
    <2>2. CASE f.tag # "H"
      <3>1. cycles' # <<>> /\ Len(cycles') = 1
        BY <1>2, <1>4, <2>2
      <3>2. cycles'[Len(cycles')] = d /\ Len(cycles') <= 1
        BY <3>1 DEF d
      <3>3. QED
        BY <2>2, <3>1, <3>2 DEF NewestOpen, d
    <2>3. QED
      BY <2>1, <2>2
  <1> HIDE DEF j
  <1>15. CASE f.tag \in {"S", "Q"}
    <2>1. Ends(t, a)
      BY <1>3, <1>15
    <2>2. /\ o # <<>> /\ o[Len(o)].frame.tag = "Z" /\ o[Len(o)].frame.status = srv'.start
          /\ srv'.index = 0 /\ srv'.tx = srv'.start /\ (srv'.open <=> srv'.start # "I")
          /\ \A i \in 1 .. Len(o) : o[i].frame.tag = "Z" => i = Len(o)
      BY <1>10, <2>1 DEF Ends, o
    <2>3. j # <<>> /\ j[Len(j)] = o[Len(o)]
      BY <1>11, <2>2
    <2>4. ReadyComing'
      BY <2>2, <2>3 DEF ReadyComing, j
    <2>5. \A k \in 1 .. Len(j) : j[k].frame.tag = "Z" => k = Len(j)
      <3> SUFFICES ASSUME NEW k \in 1 .. Len(j), j[k].frame.tag = "Z" PROVE k = Len(j)
        OBVIOUS
      <3>1. PICK i \in 1 .. Len(o) : k = Len(replies) + i /\ j[k] = o[i]
        BY <1>11, <1>12
      <3>2. i = Len(o)
        BY <2>2, <3>1
      <3>3. QED
        BY <1>11, <3>1, <3>2
    <2>6. InTurn'
      BY <1>9, <1>14, <1>15, <2>5 DEF InTurn, j
    <2>8. Executed' = d.executions /\ cycles' # <<>> /\ d.executions \in Nat
      <3>1. cycles' # <<>> /\ d \in Cycle
        BY <1>4, <1>15
      <3>2. QED
        BY <3>1 DEF Executed, d, Cycle
    <2>9. d.epoch_allocated <=> tx_state = "Idle" /\ d.executions > 0
      <3>1. CASE f.tag = "S"
        BY <1>4, <1>7, <3>1
      <3>2. CASE f.tag = "Q"
        <4>1. d.executions = c.executions + 1 /\ d.epoch_allocated = (c.epoch_allocated \/ tx_state = "Idle")
          BY <1>4, <3>2
        <4>2. d.executions > 0
          BY <1>7, <4>1
        <4>3. QED
          BY <1>7, <4>1, <4>2
      <3>3. QED
        BY <1>15, <3>1, <3>2
    <2>10. Counted'
      <3>1. srv'.start = j[Len(j)].frame.status
        BY <2>2, <2>3
      <3>2. tx_state' = tx_state
        BY <1>4
      <3>3. QED
        BY <2>2, <2>4, <2>8, <2>9, <3>1, <3>2 DEF Counted, j, d
    <2>11. QED
      BY <2>6, <2>10
  <1>16. CASE f.tag \in {"P", "B", "C", "E", "H"}
    <2>1. /\ srv'.start = t.start /\ srv'.index = t.index
          /\ \A i \in 1 .. Len(o) : o[i].frame.tag # "Z"
          /\ f.tag = "H" => srv' = srv /\ o = <<>>
      <3>1. CASE f.tag # "H"
        BY <1>3, <1>10, <1>16, <3>1 DEF Within, Stays, o
      <3>2. CASE f.tag = "H"
        <4>1. a = Answer(srv, <<>>)
          BY <1>3, <3>2
        <4>2. srv' = srv /\ o = <<>>
          BY <1>10, <4>1 DEF Answer, o
        <4>3. t.index = srv.index
          BY <1>6, <3>2
        <4>4. QED
          BY <1>6, <4>2, <4>3
      <3>3. QED
        BY <3>1, <3>2
    <2>2. \A k \in 1 .. Len(j) : j[k].frame.tag # "Z"
      BY <1>11, <1>12, <2>1
    <2>3. ~ReadyComing'
      <3>1. j # <<>> => Len(j) \in 1 .. Len(j)
        BY <1>11
      <3>2. QED
        BY <2>2, <3>1 DEF ReadyComing, j
    <2>4. cycles' = <<>> \/ NewestOpen'
      BY <1>2, <1>4, <1>14, <1>16
    <2>5. InTurn'
      BY <1>9, <1>14, <1>16, <2>2, <2>3, <2>4 DEF InTurn, j
    <2>6. srv'.index = 0 => (srv'.open <=> srv'.start # "I")
      <3>1. CASE f.tag = "E"
        <4>1. srv'.index = srv.index + 1 /\ srv.index \in Nat
          BY <1>6, <1>7, <2>1, <3>1
        <4>2. QED
          BY <4>1
      <3>2. CASE f.tag # "E"
        BY <1>13, <1>16, <3>2
      <3>3. QED
        BY <3>1, <3>2
    <2>7. srv'.index = Executed'
      <3>1. CASE f.tag = "H"
        <4>1. Executed' = Executed /\ srv' = srv /\ srv.index = Executed
          BY <1>2, <1>4, <2>1, <3>1 DEF Executed, Counted
        <4>2. QED
          BY <4>1
      <3>2. CASE f.tag # "H"
        <4>1. Executed' = d.executions
          BY <1>4, <1>14, <3>2 DEF Executed, d
        <4>2. d.executions = t.index
          BY <1>4, <1>6, <1>7, <1>16, <3>2
        <4>3. QED
          BY <2>1, <4>1, <4>2
      <3>3. QED
        BY <3>1, <3>2
    <2>8. cycles' = <<>> => srv'.tx = srv'.start
      <3> SUFFICES ASSUME cycles' = <<>> PROVE srv'.tx = srv'.start
        OBVIOUS
      <3>1. f.tag = "H"
        BY <1>2, <1>4
      <3>2. cycles = <<>> /\ srv' = srv
        BY <1>4, <2>1, <3>1
      <3>3. QED
        BY <1>2, <3>2 DEF Counted
    <2>9. cycles' # <<>> => (d.epoch_allocated <=> tx_state = "Idle" /\ Executed' > 0)
      <3> SUFFICES ASSUME cycles' # <<>>
                   PROVE  d.epoch_allocated <=> tx_state = "Idle" /\ Executed' > 0
        OBVIOUS
      <3>1. CASE f.tag = "H"
        <4>1. cycles' = cycles /\ Executed' = Executed
          BY <1>4, <3>1 DEF Executed
        <4>2. cycles # <<>> => (cycles[1].epoch_allocated <=> tx_state = "Idle" /\ Executed > 0)
          BY <1>2 DEF Counted
        <4>3. QED
          BY <4>1, <4>2 DEF d
      <3>2. CASE f.tag # "H"
        <4>1. Executed' = d.executions
          BY <1>4, <1>14, <3>2 DEF Executed, d
        <4>2. CASE f.tag = "E"
          <5>1. d.executions = c.executions + 1 /\ d.epoch_allocated = (c.epoch_allocated \/ tx_state = "Idle")
            BY <1>4, <4>2
          <5>2. d.executions > 0
            BY <1>7, <5>1
          <5>3. QED
            BY <1>7, <4>1, <5>1, <5>2
        <4>3. CASE f.tag # "E"
          BY <1>4, <1>7, <1>16, <3>2, <4>1, <4>3
        <4>4. QED
          BY <4>2, <4>3
      <3>3. QED
        BY <3>1, <3>2
    <2>10. Counted'
      <3>1. tx_state' = StatusName(srv'.start) /\ tx_state' = tx_state
        BY <1>4, <1>6, <1>7, <2>1
      <3>2. QED
        BY <2>3, <2>6, <2>7, <2>8, <2>9, <3>1 DEF Counted, j, d
    <2>11. QED
      BY <2>5, <2>10
  <1>17. QED
    BY <1>2, <1>15, <1>16

(***************************************************************************)
(* The server's half.                                                      *)
(***************************************************************************)
LEMMA Dequeued ==
    ASSUME NEW S, NEW q \in Seq(S), q # <<>>
    PROVE  LET t == Tail(q) IN
           /\ Head(q) = q[1] /\ q[1] \in S /\ 1 \in 1 .. Len(q) /\ t \in Seq(S)
           /\ \A k \in 1 .. Len(t) : k + 1 \in 1 .. Len(q) /\ t[k] = q[k + 1]
           /\ t = <<>> <=> Len(q) = 1
           /\ t # <<>> => t[Len(t)] = q[Len(q)]
           /\ Len(q) \in Nat /\ Len(q) = Len(t) + 1 /\ Len(t) \in Nat
  <1> DEFINE t == Tail(q)
  <1>1. /\ Head(q) = q[1] /\ q[1] \in S /\ t \in Seq(S) /\ Len(q) \in Nat /\ Len(q) # 0
        /\ Len(t) = Len(q) - 1 /\ Len(t) \in Nat
        /\ \A k \in 1 .. Len(t) : t[k] = q[k + 1]
    OBVIOUS
  <1> HIDE DEF t
  <1>2. t = <<>> <=> Len(t) = 0
    BY <1>1
  <1>3. /\ 1 \in 1 .. Len(q) /\ Len(q) = Len(t) + 1
        /\ \A k \in 1 .. Len(t) : k + 1 \in 1 .. Len(q)
        /\ Len(t) = 0 <=> Len(q) = 1
        /\ Len(t) # 0 => Len(t) \in 1 .. Len(t)
    BY <1>1
  <1>4. QED
    BY <1>1, <1>2, <1>3 DEF t

LEMMA ServerLock ==
    ASSUME Lockstep, LockInv, ServerStep
    PROVE  LockInv'
  <1> DEFINE r == Head(replies)
             f == r.frame
  <1>1. /\ conn = "open" /\ replies # <<>> /\ Backend(f)
        /\ reply' = r /\ replies' = Tail(replies)
        /\ UNCHANGED <<srv, sent, batch, flushed>>
        /\ awaited' = awaited - CountReady(to_client')
        /\ f.tag # "Z" => to_client' = <<>> \/ to_client' = <<f>>
    BY ServerReads
  <1>2. AlignedInv' /\ TypeOK /\ Connected /\ InTurn /\ Counted
    BY <1>1, ServerInStep DEF LockInv, AlignedInv
  <1> SUFFICES InTurn' /\ Counted'
    BY <1>2 DEF LockInv
  <1> DEFINE j == Tail(replies)
  <1>3. /\ r = replies[1] /\ r \in ServerReply /\ 1 \in 1 .. Len(replies) /\ j \in Seq(ServerReply)
        /\ \A k \in 1 .. Len(j) : k + 1 \in 1 .. Len(replies) /\ j[k] = replies[k + 1]
        /\ j = <<>> <=> Len(replies) = 1
        /\ j # <<>> => j[Len(j)] = replies[Len(replies)]
        /\ Len(replies) \in Nat /\ Len(replies) = Len(j) + 1 /\ Len(j) \in Nat
    BY <1>1, <1>2, Dequeued DEF Connected
  <1>4. f \in ServerFrames /\ cycles \in Seq(Cycle)
    BY <1>2, <1>3, ReplyFields DEF TypeOK
  <1> HIDE DEF r, j
  <1>5. CASE f.tag # "Z"
    <2>1. /\ cycles' \in Seq(Cycle) /\ Len(cycles') = Len(cycles)
          /\ \A i \in 1 .. Len(cycles) :
                cycles'[i] = IF i = 1 THEN Replied(f, cycles[1]) ELSE cycles[i]
          /\ tx_state' = tx_state /\ tx_epoch' = tx_epoch
      BY <1>1, <1>2, <1>4, <1>5, BackendWork
    <2>2. cycles' = <<>> <=> cycles = <<>>
      BY <1>4, <2>1
    <2>3. cycles # <<>> => /\ cycles'[1].sealed = cycles[1].sealed
                           /\ cycles'[1].executions = cycles[1].executions
                           /\ cycles'[1].epoch_allocated = cycles[1].epoch_allocated
                           /\ Len(cycles) = 1
      <3> SUFFICES ASSUME cycles # <<>>
                   PROVE  /\ cycles'[1].sealed = cycles[1].sealed
                          /\ cycles'[1].executions = cycles[1].executions
                          /\ cycles'[1].epoch_allocated = cycles[1].epoch_allocated
                          /\ Len(cycles) = 1
        OBVIOUS
      <3>1. Len(cycles) = 1 /\ cycles[1] \in Cycle
        BY <1>2, <1>4, Single DEF InTurn
      <3>2. cycles'[1] = Replied(f, cycles[1])
        BY <2>1, <3>1
      <3>3. QED
        BY <1>4, <3>1, <3>2, RepliedIs
    <2>4. (NewestOpen' <=> NewestOpen) /\ Executed' = Executed
      BY <2>1, <2>2, <2>3 DEF NewestOpen, Executed
    <2>5. ReadyComing' <=> ReadyComing
      <3>1. CASE j = <<>>
        BY <1>1, <1>3, <1>5, <3>1 DEF ReadyComing, j
      <3>2. CASE j # <<>>
        BY <1>1, <1>3, <3>2 DEF ReadyComing, j
      <3>3. QED
        BY <3>1, <3>2
    <2>6. awaited \in {0, 1} => awaited' = awaited
      <3>1. CountReady(to_client') = 0
        BY <1>1, <1>5, NoneReady
      <3>2. QED
        BY <1>1, <3>1
    <2>7. \A k \in 1 .. Len(j) : j[k].frame.tag = "Z" => k = Len(j)
      <3> SUFFICES ASSUME NEW k \in 1 .. Len(j), j[k].frame.tag = "Z" PROVE k = Len(j)
        OBVIOUS
      <3>1. k + 1 = Len(replies)
        BY <1>2, <1>3 DEF InTurn
      <3>2. QED
        BY <1>3, <3>1
    <2>8. InTurn'
      <3>1. /\ Len(cycles') <= 1 /\ (batch' => awaited' = 0)
            /\ ReadyComing' \/ (cycles' # <<>> /\ ~NewestOpen') => awaited' = 1
        BY <1>1, <1>2, <2>1, <2>2, <2>4, <2>5, <2>6 DEF InTurn
      <3>2. replies' = j
        BY <1>1 DEF j
      <3>3. QED
        BY <2>7, <3>1, <3>2 DEF InTurn
    <2>9. Counted'
      <3>1. replies' = j /\ srv' = srv
        BY <1>1 DEF j
      <3>3. ReadyComing => j[Len(j)] = replies[Len(replies)]
        BY <1>3, <1>5 DEF ReadyComing
      <3>4. /\ ReadyComing => srv.index = 0 /\ srv.start = replies[Len(replies)].frame.status
            /\ ~ReadyComing => tx_state = StatusName(srv.start) /\ srv.index = Executed
            /\ ReadyComing \/ cycles = <<>> => srv.tx = srv.start
            /\ cycles # <<>> => (cycles[1].epoch_allocated <=> tx_state = "Idle" /\ Executed > 0)
            /\ srv.index = 0 => (srv.open <=> srv.start # "I")
        BY <1>2 DEF Counted
      <3>5. cycles' # <<>> =>
               (cycles'[1].epoch_allocated <=> tx_state' = "Idle" /\ Executed' > 0)
        BY <2>1, <2>2, <2>3, <2>4, <3>4
      <3>6. QED
        BY <2>1, <2>2, <2>4, <2>5, <3>1, <3>3, <3>4, <3>5 DEF Counted
    <2>10. QED
      BY <2>8, <2>9
  <1>6. CASE f.tag = "Z"
    <2>1. Len(replies) = 1
      BY <1>2, <1>3, <1>6 DEF InTurn
    <2>2. ReadyComing /\ replies[Len(replies)] = r
      BY <1>1, <1>3, <1>6, <2>1 DEF ReadyComing
    <2>3. replies' = <<>>
      BY <1>1, <1>3, <2>1 DEF j
    <2>4. ~batch'
      BY <1>1, <1>2, <2>2 DEF InTurn
    <2>5. BackendReady(f) /\ cycles' = Rest(cycles) /\ tx_epoch' = tx_epoch
      BY <1>1, <1>2, <1>4, <1>6, BackendWork
    <2>6. cycles' = <<>>
      <3>1. CASE cycles = <<>>
        BY <2>5, <3>1 DEF Rest
      <3>2. CASE cycles # <<>>
        <4>1. Len(cycles) = 1
          BY <1>2, <1>4, <3>2, Single DEF InTurn
        <4>2. Tail(cycles) = <<>>
          BY <1>4, <3>2, <4>1, Dequeued
        <4>3. QED
          BY <2>5, <3>2, <4>2 DEF Rest
      <3>3. QED
        BY <3>1, <3>2
    <2>7. tx_state' = StatusName(srv.start)
      <3>1. tx_state' = StatusOf(f)
        BY <2>5 DEF BackendReady
      <3>2. f.status \in {"I", "T", "E"}
        BY <1>4, <1>6, BackendFields DEF ServerFrames
      <3>3. srv.start = f.status
        BY <1>2, <2>2 DEF Counted
      <3>4. QED
        BY <3>1, <3>2, <3>3 DEF StatusOf, StatusName
    <2>8. srv.index = 0 /\ srv.tx = srv.start /\ (srv.open <=> srv.start # "I")
      BY <1>2, <2>2 DEF Counted
    <2>9. ~ReadyComing' /\ Executed' = 0
      BY <2>3, <2>6 DEF ReadyComing, Executed
    <2>10. Len(replies') = 0 /\ Len(cycles') = 0
      BY <2>3, <2>6
    <2>11. InTurn'
      BY <2>4, <2>6, <2>9, <2>10 DEF InTurn
    <2>12. Counted'
      <3>1. \A k \in 1 .. Len(replies') : FALSE
        BY <2>10
      <3>2. srv' = srv
        BY <1>1
      <3>3. QED
        BY <2>6, <2>7, <2>8, <2>9, <3>1, <3>2 DEF Counted
    <2>13. QED
      BY <2>11, <2>12
  <1>7. QED
    BY <1>5, <1>6

LEMMA LockInit == SessionInit => LockInv
  <1> SUFFICES ASSUME SessionInit PROVE LockInv
    OBVIOUS
  <1>1. /\ srv = NewServer /\ replies \in Seq(ServerReply) /\ Len(replies) = 2
        /\ replies[1].frame.tag = "S" /\ replies[2].frame.tag = "Z"
        /\ replies[2].frame.status = "I" /\ replies[1].index = 0 /\ replies[2].index = 0
    <2> DEFINE q == Welcome(NewServer, Startup.application_name)
    <2>1. /\ q \in Seq(ServerReply) /\ Len(q) = 2
          /\ q[1].frame.tag = "S" /\ q[2].frame.tag = "Z" /\ q[2].frame.status = "I"
          /\ \A k \in 1 .. 2 : q[k].index = 0
      BY WelcomeIs
    <2>2. replies = q /\ srv = NewServer
      BY DEF SessionInit
    <2> HIDE DEF q
    <2>3. 1 \in 1 .. 2 /\ 2 \in 1 .. 2
      OBVIOUS
    <2>4. QED
      BY <2>1, <2>2, <2>3
  <1>2. srv.start = "I" /\ srv.tx = "I" /\ srv.index = 0 /\ ~srv.open
    BY <1>1 DEF NewServer
  <1>3. /\ cycles = <<>> /\ ~batch /\ awaited = 1 /\ tx_state = "Idle" /\ tx_epoch = 0
    BY DEF SessionInit, ProxyInit, Init
  <1>4. ReadyComing /\ Len(cycles) <= 1
    <2>1. replies # <<>>
      <3>1. Len(replies) # 0
        BY <1>1
      <3>2. QED
        BY <3>1
    <2>2. QED
      BY <1>1, <1>3, <2>1 DEF ReadyComing
  <1>5. \A k \in 1 .. Len(replies) : /\ replies[k].frame.tag = "Z" => k = Len(replies)
                                     /\ replies[k].index = 0
    <2> SUFFICES ASSUME NEW k \in 1 .. Len(replies)
                 PROVE  (replies[k].frame.tag = "Z" => k = Len(replies)) /\ replies[k].index = 0
      OBVIOUS
    <2>1. k = 1 \/ k = 2
      BY <1>1
    <2>2. QED
      BY <1>1, <2>1
  <1>6. InTurn
    BY <1>3, <1>4, <1>5 DEF InTurn
  <1>7. Counted
    BY <1>1, <1>2, <1>3, <1>4, <1>5 DEF Counted
  <1>8. QED
    BY <1>6, <1>7, AlignedInit DEF LockInv

LEMMA LockKept ==
    ASSUME Lockstep, LockInv, [SessionNext]_sessionVars
    PROVE  LockInv'
  <1>1. CASE UNCHANGED sessionVars
    <2>1. UNCHANGED stateVars /\ UNCHANGED <<conn, srv, replies, batch, awaited>>
      <3>1. UNCHANGED proxyVars /\ UNCHANGED <<srv, replies, batch, awaited>>
        BY <1>1 DEF sessionVars
      <3>2. UNCHANGED stateVars /\ UNCHANGED conn
        BY <3>1 DEF proxyVars, relayVars
      <3>3. QED
        BY <3>1, <3>2
    <2>2. UNCHANGED <<cycles, tx_state, tx_epoch>>
      BY <2>1 DEF stateVars
    <2>3. AlignedInv'
      BY AlignedStep DEF Lockstep, LockInv
    <2>4. (InTurn => InTurn') /\ (Counted => Counted')
      BY <2>1, <2>2 DEF InTurn, Counted, ReadyComing, Executed, NewestOpen
    <2>5. QED
      BY <2>1, <2>3, <2>4 DEF LockInv
  <1>2. ASSUME NEW f \in ClientFrames, ClientStep(f) PROVE LockInv'
    BY <1>2, ClientLock
  <1>3. CASE ServerStep
    BY <1>3, ServerLock
  <1>4. CASE Break
    <2>1. conn' # "open"
      BY <1>4 DEF Break, ClientEof, UpstreamEof, Failure, Return, Unrelayed
    <2>2. AlignedInv'
      BY AlignedStep DEF Lockstep, LockInv
    <2>3. QED
      BY <2>1, <2>2 DEF LockInv
  <1>5. QED
    BY <1>1, <1>2, <1>3, <1>4 DEF SessionNext, Finished

LEMMA LockInvariant ==
    ASSUME Lockstep
    PROVE  SessionSpec => []LockInv
  <1>1. LockInv /\ [SessionNext]_sessionVars => LockInv'
    BY LockKept
  <1>2. QED
    BY <1>1, LockInit, PTL DEF SessionSpec

(***************************************************************************)
(* The transaction_epoch never changes inside a transaction of the server, *)
(* and a transaction that begins with the first statement of its cycle has *)
(* an epoch of its own, for every client that waits for ReadyForQuery:     *)
(* tx_epoch, which the proxy counts from the client's frames and the       *)
(* status of the last ReadyForQuery (state 201-215), follows what the      *)
(* server begins and ends, of which the proxy sees only the replies.       *)
(***************************************************************************)
THEOREM EpochPerTransactionCorrect ==
    ASSUME Lockstep
    PROVE  SessionSpec => EpochPerTransaction
  <1> DEFINE A == /\ tx_epoch' # tx_epoch => tx_epoch' = tx_epoch + 1 /\ ~srv.open
                  /\ srv'.xact # srv.xact /\ ~srv.open /\ srv.index = 0 => tx_epoch' # tx_epoch
  <1>1. ASSUME LockInv, NEW f \in ClientFrames, ClientStep(f) PROVE A
    <2> DEFINE c == Only(f.tag # "Q")
    <2>1. /\ srv' = srv \/ \E a \in Answers(srv, f) : srv' = a.srv
          /\ srv \in ServerState /\ srv.copy = "no" /\ Frontend(f) /\ TypeOK
      <3>1. conn = "open" /\ Connected /\ Frontend(f) /\ TypeOK
        BY <1>1, ClientTurn DEF Lockstep, LockInv, AlignedInv
      <3>2. srv' = srv \/ \E a \in Answers(srv, f) : srv' = a.srv
        BY <1>1, ClientTurn DEF Lockstep, LockInv, Joins
      <3>3. QED
        BY <3>1, <3>2 DEF Lockstep, Connected, InStep
    <2>2. f.tag \notin {"Q", "E"} => srv'.xact = srv.xact
      BY <2>1, AnswersOpen
    <2>3. CASE f.tag \notin {"Q", "E"}
      <3>1. tx_epoch' = tx_epoch
        BY <2>1, <2>3, FrontendWork
      <3>2. QED
        BY <2>2, <2>3, <3>1
    <2> SUFFICES ASSUME f.tag \in {"Q", "E"} PROVE A
      BY <2>3
    <2>4. /\ InTurn /\ Counted /\ ~ReadyComing /\ (cycles = <<>> \/ NewestOpen)
          /\ f.tag = "Q" => cycles = <<>>
      BY <1>1, ClientQuiet
    <2>5. /\ c \in Cycle
          /\ cycles = <<>> => c.executions = 0 /\ ~c.epoch_allocated
          /\ tx_epoch' = IF tx_state = "Idle" /\ ~c.epoch_allocated THEN tx_epoch + 1
                         ELSE tx_epoch
      BY <2>1, <2>4, OnlyWork DEF InTurn
    <2>6. tx_epoch \in Nat /\ c.executions \in Nat
      BY <2>1, <2>5 DEF TypeOK, Cycle
    <2>7. c.epoch_allocated <=> tx_state = "Idle" /\ c.executions > 0
      <3>1. CASE cycles = <<>>
        BY <2>5, <3>1
      <3>2. CASE cycles # <<>>
        BY <2>4, <3>2 DEF Counted, Executed, Only
      <3>3. QED
        BY <3>1, <3>2
    <2>8. srv.index = c.executions
      <3>1. srv.index = Executed
        BY <2>4 DEF Counted
      <3>2. CASE cycles = <<>>
        BY <2>5, <3>1, <3>2 DEF Executed
      <3>3. CASE cycles # <<>>
        BY <3>1, <3>3 DEF Executed, Only
      <3>4. QED
        BY <3>2, <3>3
    <2>9. /\ tx_state = "Idle" <=> srv.start = "I"
          /\ srv.index = 0 => (srv.open <=> srv.start # "I")
      BY <2>1, <2>4, StatusIdle DEF Counted
    <2> HIDE DEF c
    <2>10. c.executions > 0 <=> c.executions # 0
      BY <2>6
    <2>11. QED
      BY <2>5, <2>6, <2>7, <2>8, <2>9, <2>10
  <1>2. ASSUME LockInv, ServerStep PROVE A
    <2>1. /\ conn = "open" /\ replies # <<>> /\ Backend(Head(replies).frame) /\ srv' = srv
      BY <1>2, ServerReads
    <2>2. TypeOK /\ replies \in Seq(ServerReply)
      BY <1>2, <2>1 DEF LockInv, AlignedInv, Connected
    <2>3. Head(replies).frame \in ServerFrames
      BY <2>1, <2>2, Dequeued, ReplyFields
    <2>4. tx_epoch' = tx_epoch
      BY <2>1, <2>2, <2>3, BackendWork
    <2>5. QED
      BY <2>1, <2>4
  <1>3. ASSUME Break PROVE A
    <2>1. tx_epoch' = tx_epoch /\ srv' = srv
      BY <1>3 DEF Break, ClientEof, UpstreamEof, Failure, Return, Unrelayed, stateVars
    <2>2. QED
      BY <2>1
  <1>4. ASSUME UNCHANGED sessionVars PROVE A
    <2>1. UNCHANGED stateVars /\ UNCHANGED srv
      BY <1>4 DEF sessionVars, proxyVars
    <2>2. tx_epoch' = tx_epoch /\ srv' = srv
      BY <2>1 DEF stateVars
    <2>3. QED
      BY <2>2
  <1> HIDE DEF A
  <1>5. LockInv /\ [SessionNext]_sessionVars => [A]_sessionVars
    BY <1>1, <1>2, <1>3, <1>4 DEF SessionNext, Finished
  <1>6. LockInv /\ [SessionNext]_sessionVars =>
          [/\ tx_epoch' # tx_epoch => tx_epoch' = tx_epoch + 1 /\ ~srv.open
           /\ srv'.xact # srv.xact /\ ~srv.open /\ srv.index = 0
                => tx_epoch' # tx_epoch]_sessionVars
    BY <1>5 DEF A
  <1>7. QED
    BY <1>6, LockInvariant, PTL DEF SessionSpec, EpochPerTransaction
-----------------------------------------------------------------------------
(***************************************************************************)
(* Part 6.  Prepared statements and portals.  The proxy applies a Parse,   *)
(* Bind or Close twice: to the speculative maps when the client sends it   *)
(* and to the confirmed ones when the server acknowledges it.  First what  *)
(* the server does to its own: running a text leaves statements alone, and *)
(* portals except that the end of a transaction takes all of them.  A      *)
(* Parse that is refused takes the unnamed statement with it, of which the *)
(* proxy does not learn: its maps cover the server's.                      *)
(***************************************************************************)
IsAck(r) == r.frame.tag \in {"1", "2", "3"}

Covers(v, s) == s \in {v, Set(v, Unnamed, NoSql)}

LEMMA CoversChain ==
    ASSUME NEW v, NEW s, NEW x, Covers(v, s), Covers(s, x)
    PROVE  Covers(v, x)
  <1>1. Set(Set(v, Unnamed, NoSql), Unnamed, NoSql) = Set(v, Unnamed, NoSql)
    BY DEF Set
  <1>2. QED
    BY <1>1 DEF Covers

LEMMA CoversIs ==
    ASSUME NEW v \in [Name -> Statement], NEW s, Covers(v, s)
    PROVE  /\ s \in [Name -> Statement]
           /\ \A n \in Name : s[n] \in {NoSql, v[n]}
           /\ \A n \in Name \ {Unnamed} : s[n] = v[n]
           /\ Set(s, Unnamed, NoSql) = Set(v, Unnamed, NoSql)
  <1>1. Unnamed \in Name /\ NoSql \in Statement
    BY NameAssumption DEF Statement
  <1>2. QED
    BY <1>1 DEF Covers, Set

LEMMA CoversSet ==
    ASSUME NEW v \in [Name -> Statement], NEW s, Covers(v, s), NEW n \in Name,
           NEW x \in Statement
    PROVE  Covers(Set(v, n, x), Set(s, n, x))
  <1> DEFINE d == Set(v, Unnamed, NoSql)
  <1>0. Unnamed \in Name /\ NoSql \in Statement
    BY NameAssumption DEF Statement
  <1>1. n = Unnamed => Set(d, n, x) = Set(v, n, x)
    BY <1>0 DEF Set
  <1>2. n # Unnamed => Set(d, n, x) = Set(Set(v, n, x), Unnamed, NoSql)
    BY <1>0 DEF Set
  <1> HIDE DEF d
  <1>3. s = v \/ s = d
    BY DEF Covers, d
  <1>4. QED
    BY <1>1, <1>2, <1>3 DEF Covers

Leaves(s, x) ==
    /\ Covers(s.stmts, x.stmts) /\ x.acks = s.acks
    /\ x.portals \in {s.portals, NoPortals}

LeavesOne(s, x) == Leaves(s, x) /\ (x.portals # s.portals => x.tx = "I")

ErrorLast(a) ==
    \A k \in 1 .. Len(a.out) :
        ~IsAck(a.out[k]) /\ (a.out[k].frame.tag = "E" => k = Len(a.out) /\ a.srv.skip)

AcksNothing(s, a) ==
    /\ IsAnswer(a) /\ ErrorLast(a) /\ Leaves(s, a.srv)
    /\ \A k \in 1 .. Len(a.out) : Leaves(s, a.out[k])

SilentOne(s, a) ==
    /\ AcksNothing(s, a) /\ LeavesOne(s, a.srv)
    /\ \A k \in 1 .. Len(a.out) : LeavesOne(s, a.out[k])

Refuses(s, a) ==
    /\ SilentOne(s, a) /\ a.srv.skip
    /\ a.srv.tx # "I" => s.tx # "I"
    /\ \A k \in 1 .. Len(a.out) : a.out[k].tx # "I" => s.tx # "I"

LEMMA LeavesReply ==
    ASSUME NEW s, NEW t \in ServerState, LeavesOne(s, t), NEW frame \in ServerFrames,
           NEW sql \in Statement
    PROVE  LET r == Reply(t, frame, sql) IN
           r \in ServerReply /\ LeavesOne(s, r) /\ r.frame = frame /\ r.tx = t.tx
  <1> DEFINE r == Reply(t, frame, sql)
  <1>1. /\ r \in ServerReply /\ r.frame = frame /\ r.acks = t.acks /\ r.tx = t.tx
        /\ r.stmts = t.stmts /\ r.portals = t.portals
    BY ReplyIs
  <1> HIDE DEF r
  <1>2. LeavesOne(s, r)
    BY <1>1 DEF LeavesOne, Leaves
  <1>3. QED
    BY <1>1, <1>2 DEF r

LEMMA OneSilent ==
    ASSUME NEW s, NEW t \in ServerState, LeavesOne(s, t),
           NEW r \in ServerReply, LeavesOne(s, r), ~IsAck(r), r.frame.tag = "E" => t.skip
    PROVE  SilentOne(s, Answer(t, <<r>>))
  <1> DEFINE a == Answer(t, <<r>>)
  <1>1. IsAnswer(a) /\ a.srv = t /\ Len(a.out) = 1 /\ a.out[1] = r
    BY OneReply
  <1> HIDE DEF a
  <1>2. \A k \in 1 .. Len(a.out) : k = 1
    BY <1>1
  <1>3. QED
    BY <1>1, <1>2 DEF SilentOne, AcksNothing, ErrorLast, LeavesOne, a

LEMMA FailRefuses ==
    ASSUME NEW s \in ServerState, NEW sql \in Statement
    PROVE  Refuses(s, Fail(s, sql))
  <1> DEFINE a == Fail(s, sql)
             t == a.srv
             r == Reply(t, Tagged("E"), sql)
  <1>1. /\ t \in ServerState /\ Kept(s, t) /\ t.skip
        /\ t.tx = IF s.tx = "I" THEN "I" ELSE "E"
        /\ t.portals = IF s.tx = "I" THEN NoPortals ELSE s.portals
        /\ a.out = <<r>>
    BY FailIs
  <1>2. a = Answer(t, <<r>>)
    BY <1>1 DEF Fail, Answer
  <1>3. LeavesOne(s, t)
    BY <1>1 DEF LeavesOne, Leaves, Kept, Covers
  <1>4. Tagged("E") \in ServerFrames /\ Tagged("E").tag = "E"
    BY FrameTypes
  <1>5. r \in ServerReply /\ LeavesOne(s, r) /\ r.frame = Tagged("E") /\ r.tx = t.tx
    BY <1>1, <1>3, <1>4, LeavesReply
  <1> HIDE DEF r, t, a
  <1>6. SilentOne(s, a)
    BY <1>1, <1>2, <1>3, <1>4, <1>5, OneSilent DEF IsAck
  <1>7. a.srv = t /\ \A k \in 1 .. Len(a.out) : a.out[k] = r
    BY <1>1 DEF t
  <1>8. QED
    BY <1>1, <1>5, <1>6, <1>7 DEF Refuses, a

LEMMA OutcomeSilent ==
    ASSUME NEW s \in ServerState, NEW text \in Statement, NEW sql \in Statement,
           NEW mode \in {"Q", "E"}, NEW a, Outcome(s, text, sql, mode, a)
    PROVE  SilentOne(s, a)
  <1>0. IsAnswer(a) /\ LeavesOne(s, s)
    BY OutcomeWithin DEF Within, LeavesOne, Leaves, Covers
  <1>1. CASE a = Fail(s, text)
    BY <1>1, FailRefuses DEF Refuses
  <1>2. ASSUME NEW frames, CompletesWith(s, sql, frames), a = Ran(s, text, sql, frames)
        PROVE  SilentOne(s, a)
    <2> DEFINE t == a.srv
    <2>0. /\ frames \in Seq(ServerFrames)
          /\ \A k \in 1 .. Len(frames) : frames[k].tag \in {"C", "T", "D"}
      BY <1>2 DEF CompletesWith
    <2>1. /\ t \in ServerState /\ Kept(s, t) /\ t.tx = TxAfter(s.tx, ClassOf(sql))
          /\ t.portals = IF ClassOf(sql) \in {"Commit", "Rollback"} THEN NoPortals ELSE s.portals
          /\ Len(a.out) = Len(frames)
          /\ \A k \in 1 .. Len(frames) :
                a.out[k] = Reply(IF frames[k].tag = "C" THEN t ELSE s, frames[k], text)
      BY <1>2, <2>0, RanIs
    <2>2. LeavesOne(s, t)
      BY <2>1 DEF LeavesOne, Leaves, Kept, Covers, TxAfter
    <2>3. ASSUME NEW k \in 1 .. Len(a.out)
          PROVE  LeavesOne(s, a.out[k]) /\ ~IsAck(a.out[k]) /\ a.out[k].frame.tag # "E"
      <3> DEFINE u == IF frames[k].tag = "C" THEN t ELSE s
      <3>1. k \in 1 .. Len(frames) /\ frames[k] \in ServerFrames
        BY <2>0, <2>1
      <3>2. u \in ServerState /\ LeavesOne(s, u) /\ a.out[k] = Reply(u, frames[k], text)
        BY <1>0, <2>1, <2>2, <3>1
      <3> HIDE DEF u
      <3>3. LeavesOne(s, a.out[k]) /\ a.out[k].frame = frames[k]
        BY <3>1, <3>2, LeavesReply
      <3>4. QED
        BY <2>0, <3>1, <3>3 DEF IsAck
    <2>4. QED
      BY <1>0, <2>2, <2>3 DEF SilentOne, AcksNothing, ErrorLast, LeavesOne
  <1>3. ASSUME NEW n \in Nat, a = Suspended(s, text, sql, n)
        PROVE  SilentOne(s, a)
    <2> DEFINE t == a.srv
    <2>1. /\ t \in ServerState /\ Kept(s, t) /\ t.portals = s.portals
          /\ Len(a.out) = n + 1
          /\ \A k \in 1 .. n : a.out[k] = Reply(s, Tagged("D"), text)
          /\ a.out[n + 1] = Reply(t, Tagged("s"), text)
      BY <1>3, SuspendedIs
    <2>2. LeavesOne(s, t)
      BY <2>1 DEF LeavesOne, Leaves, Kept, Covers
    <2>3. /\ Tagged("D") \in ServerFrames /\ Tagged("D").tag = "D"
          /\ Tagged("s") \in ServerFrames /\ Tagged("s").tag = "s"
      BY FrameTypes
    <2>4. /\ LeavesOne(s, Reply(s, Tagged("D"), text))
          /\ Reply(s, Tagged("D"), text).frame.tag = "D"
          /\ LeavesOne(s, Reply(t, Tagged("s"), text))
          /\ Reply(t, Tagged("s"), text).frame.tag = "s"
      BY <1>0, <2>1, <2>2, <2>3, LeavesReply
    <2>5. ASSUME NEW k \in 1 .. Len(a.out)
          PROVE  LeavesOne(s, a.out[k]) /\ ~IsAck(a.out[k]) /\ a.out[k].frame.tag # "E"
      <3>1. k \in 1 .. n \/ k = n + 1
        BY <2>1
      <3>2. QED
        BY <2>1, <2>4, <3>1 DEF IsAck
    <2>6. QED
      BY <1>0, <2>2, <2>5 DEF SilentOne, AcksNothing, ErrorLast, LeavesOne
  <1>4. CASE a = Copying(s, text, sql, mode)
    <2> DEFINE t == a.srv
               r == Reply(s, Tagged("N"), text)
    <2>1. t \in ServerState /\ Kept(s, t) /\ t.portals = s.portals /\ a.out = <<r>>
      BY <1>4, CopyingIs
    <2>2. LeavesOne(s, t)
      BY <2>1 DEF LeavesOne, Leaves, Kept, Covers
    <2>3. Tagged("N") \in ServerFrames /\ Tagged("N").tag = "N"
      BY FrameTypes
    <2>4. r \in ServerReply /\ LeavesOne(s, r) /\ r.frame.tag = "N"
      BY <1>0, <2>3, LeavesReply
    <2>5. a = Answer(t, <<r>>)
      BY <1>4, <2>1 DEF Copying, Answer
    <2> HIDE DEF t, r
    <2>6. QED
      BY <2>1, <2>2, <2>4, <2>5, OneSilent DEF IsAck, t
  <1>5. QED
    BY <1>1, <1>2, <1>3, <1>4 DEF Outcome

LEMMA JoinSilent ==
    ASSUME NEW s, NEW a, AcksNothing(s, a), ~a.srv.skip, NEW b, AcksNothing(a.srv, b)
    PROVE  AcksNothing(s, Answer(b.srv, a.out \o b.out))
  <1> DEFINE q == a.out
             w == b.out
             t == b.srv
             x == q \o w
             good(r, n, k) == ~IsAck(r) /\ Leaves(s, r) /\ (r.frame.tag = "E" => k = n /\ t.skip)
  <1>1. /\ q \in Seq(ServerReply) /\ w \in Seq(ServerReply) /\ t \in ServerState
        /\ Leaves(s, t)
        /\ \A k \in 1 .. Len(q) : ~IsAck(q[k]) /\ Leaves(s, q[k]) /\ q[k].frame.tag # "E"
        /\ \A k \in 1 .. Len(w) : good(w[k], Len(w), k)
    <2>1. \A y : Leaves(a.srv, y) => Leaves(s, y)
      BY CoversChain DEF AcksNothing, Leaves
    <2>2. QED
      BY <2>1 DEF AcksNothing, ErrorLast, IsAnswer
  <1> HIDE DEF q, w, t, x
  <1>2. /\ x \in Seq(ServerReply) /\ Len(x) = Len(q) + Len(w)
        /\ Len(q) \in Nat /\ Len(w) \in Nat
        /\ \A k \in 1 .. Len(x) :
              \/ k \in 1 .. Len(q) /\ x[k] = q[k]
              \/ \E i \in 1 .. Len(w) : k = Len(q) + i /\ x[k] = w[i]
    BY <1>1, Joined DEF x
  <1>3. \A k \in 1 .. Len(x) : good(x[k], Len(x), k)
    BY <1>1, <1>2
  <1>4. AcksNothing(s, Answer(t, x))
    BY <1>1, <1>2, <1>3 DEF AcksNothing, ErrorLast, IsAnswer, Answer
  <1>5. QED
    BY <1>4 DEF q, w, t, x

LEMMA RunSilent ==
    ASSUME NEW s \in ServerState, NEW text \in Statement, NEW sql \in Statement,
           NEW header \in {<<>>, <<Tagged("T")>>}, NEW b \in Run(Began(s), text, sql, header)
    PROVE  SilentOne(s, b)
  <1> DEFINE t == Began(s)
  <1>1. /\ t \in ServerState /\ t.stmts = s.stmts /\ t.acks = s.acks
        /\ t.portals = s.portals
    BY BeganIs DEF Kept
  <1> HIDE DEF t
  <1>2. b \in Run(t, text, sql, header)
    BY DEF t
  <1>3. SilentOne(t, b)
    BY <1>1, <1>2, RunOutcome, OutcomeSilent, HeaderMode
  <1>4. QED
    BY <1>1, <1>3 DEF SilentOne, AcksNothing, LeavesOne, Leaves

LEMMA RunTextSilent ==
    ASSUME NEW s \in ServerState, NEW text \in Sql,
           NEW header \in {<<>>, <<Tagged("T")>>}, NEW a \in RunText(s, text, header)
    PROVE  /\ AcksNothing(s, a)
           /\ Len(StatementsOf(text)) <= 1 => SilentOne(s, a)
  <1> DEFINE sqls == StatementsOf(text)
             n == Len(sqls)
  <1>0. LeavesOne(s, s) /\ Leaves(s, s)
    BY DEF LeavesOne, Leaves, Covers
  <1>1. CASE sqls = <<>>
    <2> DEFINE r == Reply(s, Tagged("N"), text)
    <2>1. a = Answer(s, <<r>>)
      BY <1>1, EmptyTextIs
    <2>2. Tagged("N") \in ServerFrames /\ Tagged("N").tag = "N" /\ text \in Statement
      BY FrameTypes DEF Statement
    <2>3. r \in ServerReply /\ LeavesOne(s, r) /\ r.frame.tag = "N"
      BY <1>0, <2>2, LeavesReply
    <2> HIDE DEF r
    <2>4. SilentOne(s, a)
      BY <1>0, <2>1, <2>3, OneSilent DEF IsAck
    <2>5. QED
      BY <2>4 DEF SilentOne
  <1>2. CASE sqls # <<>>
    <2>1. PICK f : /\ f = Progress(s, text, sqls, header, f)
                   /\ RunText(s, text, header) = f[n]
      BY <1>2, RunTextIs
    <2>2. sqls \in Seq(Statement) /\ n \in Nat /\ n # 0 /\ text \in Statement
      BY <1>2, StatementsType
    <2>3. \A k \in 0 .. n : f[k] = IF k = 0 THEN {Answer(s, <<>>)}
                                   ELSE NextAnswers(text, header, sqls[k], f[k - 1])
      BY <2>1 DEF Progress
    <2> DEFINE T == {m \in Nat : m <= n => \A x \in f[m] :
                        /\ AcksNothing(s, x)
                        /\ m = 0 => x = Answer(s, <<>>)
                        /\ m <= 1 => SilentOne(s, x)}
    <2> HIDE DEF sqls, n
    <2>4. 0 \in T
      <3>1. \A x \in f[0] : x = Answer(s, <<>>)
        BY <2>2, <2>3
      <3> DEFINE e == Answer(s, <<>>)
      <3>2. IsAnswer(e) /\ e.srv = s /\ Len(e.out) = 0
        BY NoReply
      <3> HIDE DEF e
      <3>3. \A k \in 1 .. Len(e.out) : FALSE
        BY <3>2
      <3>4. SilentOne(s, e)
        BY <1>0, <3>2, <3>3 DEF SilentOne, AcksNothing, ErrorLast
      <3>5. QED
        BY <3>1, <3>4 DEF SilentOne, e
    <2>5. ASSUME NEW m \in Nat, m \in T
          PROVE  m + 1 \in T
      <3> SUFFICES ASSUME m + 1 <= n, NEW x \in f[m + 1]
                   PROVE  AcksNothing(s, x) /\ (m = 0 => SilentOne(s, x))
        <4>1. m + 1 \in Nat /\ m + 1 # 0 /\ (m + 1 <= 1 => m = 0)
          OBVIOUS
        <4>2. QED
          BY <4>1
      <3>1. x \in NextAnswers(text, header, sqls[m + 1], f[m]) /\ m + 1 \in 1 .. n /\ m <= n
        BY <2>2, <2>3
      <3>2. sqls[m + 1] \in Statement
        BY <2>2, <3>1 DEF n
      <3>3. PICK y \in f[m] : \/ y.srv.skip /\ x = y
                              \/ /\ ~y.srv.skip
                                 /\ \E b \in Run(Began(y.srv), text, sqls[m + 1], header) :
                                       x = Answer(b.srv, y.out \o b.out)
        BY <3>1 DEF NextAnswers
      <3>4. /\ AcksNothing(s, y) /\ (m = 0 => y = Answer(s, <<>>) /\ SilentOne(s, y))
            /\ y.srv \in ServerState
        BY <2>5, <3>1 DEF AcksNothing, IsAnswer
      <3>5. ASSUME ~y.srv.skip, NEW b \in Run(Began(y.srv), text, sqls[m + 1], header),
                   x = Answer(b.srv, y.out \o b.out)
            PROVE  AcksNothing(s, x) /\ (m = 0 => SilentOne(s, x))
        <4>1. SilentOne(y.srv, b)
          BY <2>2, <3>2, <3>4, RunSilent
        <4>2. AcksNothing(y.srv, b) /\ b.out \in Seq(ServerReply) /\ b = Answer(b.srv, b.out)
          BY <4>1 DEF SilentOne, AcksNothing, IsAnswer
        <4>3. AcksNothing(s, x)
          BY <3>4, <3>5, <4>2, JoinSilent
        <4>4. ASSUME m = 0 PROVE SilentOne(s, x)
          <5>1. y.srv = s /\ y.out = <<>>
            BY <3>4, <4>4 DEF Answer
          <5> DEFINE w == b.out
          <5>2. <<>> \o w = w
            BY <4>2
          <5>3. x = b
            BY <3>5, <4>2, <5>1, <5>2
          <5>4. QED
            BY <4>1, <5>1, <5>3
        <4>5. QED
          BY <4>3, <4>4
      <3>6. QED
        BY <3>3, <3>4, <3>5
    <2>6. n \in T
      BY <2>2, <2>4, <2>5, InductionOverNat
    <2>7. AcksNothing(s, a) /\ (n <= 1 => SilentOne(s, a))
      BY <2>1, <2>2, <2>6
    <2>8. QED
      BY <2>7 DEF n, sqls
  <1>3. QED
    BY <1>1, <1>2

(***************************************************************************)
(* A ReadyForQuery that follows the answer c, to a server then idle or     *)
(* not.                                                                    *)
(***************************************************************************)
Closes(c, a) ==
    /\ IsAnswer(a) /\ a.srv.acks = 0 /\ ~a.srv.skip
    /\ Len(a.out) = Len(c.out) + 1
    /\ \A k \in 1 .. Len(c.out) : a.out[k] = c.out[k]
    /\ LET z == a.out[Len(a.out)] IN
       /\ z.frame.tag = "Z" /\ z.acks = c.srv.acks /\ z.stmts = c.srv.stmts
       /\ z.tx = c.srv.tx /\ a.srv.tx = z.tx
       /\ z.portals = IF z.tx = "I" THEN NoPortals ELSE c.srv.portals
       /\ a.srv.stmts = z.stmts /\ a.srv.portals = z.portals

LEMMA ReadyCloses ==
    ASSUME NEW c, IsAnswer(c)
    PROVE  Closes(c, Ready(c))
  <1> DEFINE s == c.srv
             out == c.out
             a == Ready(Answer(s, out))
             z == a.out[Len(out) + 1]
  <1>1. c = Answer(s, out) /\ s \in ServerState /\ out \in Seq(ServerReply) /\ Len(out) \in Nat
    BY DEF IsAnswer
  <1> HIDE DEF s, out
  <1>2. /\ a.srv \in ServerState /\ a.srv.tx = s.tx /\ ~a.srv.skip /\ a.srv.acks = 0
        /\ a.srv.stmts = s.stmts
        /\ a.srv.portals = IF s.tx = "I" THEN NoPortals ELSE s.portals
        /\ a.out \in Seq(ServerReply) /\ Len(a.out) = Len(out) + 1
        /\ \A k \in 1 .. Len(out) : a.out[k] = out[k]
    BY <1>1, ReadyIs
  <1>3. /\ z.frame.tag = "Z" /\ z.acks = s.acks /\ z.tx = s.tx
        /\ z.stmts = s.stmts /\ z.portals = a.srv.portals
    BY <1>1, ReadyIs
  <1>4. a = Answer(a.srv, a.out)
    BY DEF Ready, Answer
  <1> HIDE DEF a
  <1>5. z = a.out[Len(a.out)]
    BY <1>2
  <1> HIDE DEF z
  <1>6. Closes(c, a)
    BY <1>1, <1>2, <1>3, <1>4, <1>5 DEF Closes, IsAnswer, s, out
  <1>7. QED
    BY <1>1, <1>6 DEF a

(***************************************************************************)
(* The maps after a mutation, of the server or of a view of it.            *)
(***************************************************************************)
Effect(m, v) ==
    [stmts   |-> IF OnStatements(m) THEN Set(v.stmts, m.name, m.stmt) ELSE v.stmts,
     portals |-> IF OnStatements(m) THEN v.portals ELSE Set(v.portals, m.name, m.stmt)]

Moved(s, m, x) ==
    /\ x.stmts = Effect(m, s).stmts /\ x.portals = Effect(m, s).portals
    /\ x.tx = s.tx /\ x.acks = s.acks + 1

Grants(s, m, a) ==
    /\ IsAnswer(a) /\ Len(a.out) = 1 /\ ~a.srv.skip
    /\ IsAck(a.out[1]) /\ Acknowledges(a.out[1].frame.tag, m)
    /\ Moved(s, m, a.srv) /\ Moved(s, m, a.out[1])

LEMMA AcknowledgeGrants ==
    ASSUME NEW s, NEW m, NEW u \in ServerState, ~u.skip, u.tx = s.tx, u.acks = s.acks,
           u.stmts = Effect(m, s).stmts, u.portals = Effect(m, s).portals,
           NEW tag \in {"1", "2", "3"}, Acknowledges(tag, m)
    PROVE  Grants(s, m, Acknowledge(u, tag))
  <1> DEFINE a == Acknowledge(u, tag)
             t == a.srv
             r == Reply(t, Tagged(tag), NoSql)
  <1>1. /\ t \in ServerState /\ t.acks = u.acks + 1 /\ t.tx = u.tx /\ t.skip = u.skip
        /\ t.stmts = u.stmts /\ t.portals = u.portals
        /\ a = Answer(t, <<r>>) /\ r \in ServerReply
    BY AcknowledgeIs
  <1>2. Moved(s, m, t)
    BY <1>1 DEF Moved
  <1>3. /\ r.frame = Tagged(tag) /\ r.acks = t.acks /\ r.tx = t.tx
        /\ r.stmts = t.stmts /\ r.portals = t.portals
    <2>1. Tagged(tag) \in ServerFrames /\ NoSql \in Statement
      BY FrameTypes DEF Statement
    <2>2. QED
      BY <1>1, <2>1, ReplyIs
  <1>4. r.frame.tag = tag
    BY <1>3 DEF Tagged
  <1> HIDE DEF r, t
  <1>5. Moved(s, m, r)
    BY <1>2, <1>3 DEF Moved
  <1>6. IsAnswer(a) /\ a.srv = t /\ Len(a.out) = 1 /\ a.out[1] = r
    BY <1>1, OneReply
  <1> HIDE DEF a
  <1>7. QED
    BY <1>1, <1>2, <1>4, <1>5, <1>6 DEF Grants, IsAck, a

(***************************************************************************)
(* What a statement holds is a text of at most one statement: Parse        *)
(* refuses the others.                                                     *)
(***************************************************************************)
Plain(map) == \A n \in Name : Len(StatementsOf(map[n])) <= 1

LEMMA AnswersMaps ==
    ASSUME TypeOK, NEW s \in ServerState, s.copy = "no", CopyIn = {}, NEW f \in ClientFrames,
           NEW a \in Answers(s, f), ~s.skip => Covers(prepared, s.stmts), Plain(s.portals)
    PROVE  /\ f.tag = "S" => \E c : AcksNothing(s, c) /\ c.srv = s /\ c.out = <<>> /\ Closes(c, a)
           /\ f.tag \notin {"S", "Q"} /\ s.skip =>
                 /\ IsAnswer(a) /\ a.out = <<>> /\ a.srv.skip
                 /\ a.srv.stmts = s.stmts /\ a.srv.portals = s.portals
                 /\ a.srv.acks = s.acks /\ a.srv.tx = s.tx
           /\ f.tag \in {"P", "B", "C"} /\ ~s.skip =>
                 \/ Refuses(s, a)
                 \/ /\ Mutates(f) /\ Grants(s, MutationOf(f), a)
                    /\ f.tag = "P" => Len(StatementsOf(f.sql)) <= 1
                    /\ f.tag = "B" => MutationOf(f).stmt = s.stmts[f.stmt]
           /\ f.tag = "E" /\ ~s.skip =>
                 Refuses(s, a) \/ (SilentOne(s, a) /\ s.portals[f.portal] # NoSql)
           /\ f.tag = "Q" /\ ~s.skip =>
                 \E u, c : /\ u.stmts = Set(s.stmts, Unnamed, NoSql)
                           /\ u.portals = Set(s.portals, Unnamed, NoSql)
                           /\ u.acks = s.acks /\ AcksNothing(u, c) /\ Closes(c, a)
  <1> DEFINE t == Numbered(s, f)
  <1>0. /\ t \in ServerState /\ t.copy = "no" /\ t.skip = s.skip /\ t.tx = s.tx
        /\ t.acks = s.acks /\ t.stmts = s.stmts /\ t.portals = s.portals
        /\ f.tag \notin {"Q", "E"} => t = s
    BY NumberedIs DEF Numbered
  <1>1. a \in AnswersTo(t, f)
    BY DEF Answers
  <1> HIDE DEF t
  <1>2. NoSql \in Statement /\ Sql \subseteq Statement /\ prepared \in [Name -> Statement]
    BY DEF Statement, TypeOK
  <1>a. ASSUME NEW x, Refuses(t, x) PROVE Refuses(s, x)
    BY <1>0, <1>a DEF Refuses, SilentOne, AcksNothing, LeavesOne, Leaves
  <1>b. ASSUME NEW x, SilentOne(t, x) PROVE SilentOne(s, x)
    BY <1>0, <1>b DEF SilentOne, AcksNothing, LeavesOne, Leaves
  <1>3. CASE f.tag = "S"
    <2> DEFINE c == Answer(s, <<>>)
    <2>1. a = Ready(c)
      BY <1>0, <1>1, <1>3 DEF AnswersTo
    <2>2. IsAnswer(c) /\ c.srv = s /\ c.out = <<>> /\ Len(c.out) = 0
      BY NoReply
    <2> HIDE DEF c
    <2>3. \A k \in 1 .. Len(c.out) : FALSE
      BY <2>2
    <2>4. AcksNothing(s, c)
      BY <2>2, <2>3 DEF AcksNothing, ErrorLast, Leaves, Covers
    <2>5. Closes(c, a)
      BY <2>1, <2>2, ReadyCloses
    <2>6. QED
      BY <1>3, <2>2, <2>4, <2>5
  <1>4. CASE f.tag \notin {"S", "Q"} /\ s.skip
    <2>1. a = Answer(t, <<>>)
      BY <1>0, <1>1, <1>4 DEF AnswersTo
    <2>2. IsAnswer(a) /\ a.srv = t /\ a.out = <<>>
      BY <1>0, <2>1, NoReply
    <2>3. QED
      BY <1>0, <1>4, <2>2
  <1>5. CASE f.tag = "P" /\ ~s.skip
    <2>1. f.name \in Name /\ f.sql \in Statement /\ f.sql # NoSql
      BY <1>2, <1>5, ClientFields, SessionAssumption
    <2> DEFINE m == MutationOf(f)
    <2>2. a \in ParseAnswers(s, f)
      BY <1>0, <1>1, <1>5 DEF AnswersTo
    <2>3. PICK v, u :
             /\ v \in ServerState /\ SameButMaps(s, v) /\ v.portals = s.portals
             /\ v.stmts = Dropped(s.stmts, f.name)
             /\ u \in ServerState /\ SameButMaps(s, u) /\ u.portals = s.portals
             /\ u.stmts = Set(s.stmts, f.name, f.sql)
             /\ \/ a = Fail(v, f.sql)
                \/ a = Acknowledge(u, "1") /\ Len(StatementsOf(f.sql)) <= 1
      BY <1>5, <2>2, ParseIs
    <2>4. CASE a = Fail(v, f.sql)
      <3>1. Refuses(v, a)
        BY <2>1, <2>3, <2>4, FailRefuses
      <3>2. Covers(s.stmts, v.stmts) /\ v.acks = s.acks /\ v.tx = s.tx /\ v.portals = s.portals
        BY <2>3 DEF Covers, Dropped, SameButMaps
      <3>3. \A x : Leaves(v, x) => Leaves(s, x)
        BY <3>2, CoversChain DEF Leaves
      <3>4. Refuses(s, a)
        BY <3>1, <3>2, <3>3 DEF Refuses, SilentOne, AcksNothing, LeavesOne
      <3>5. QED
        BY <1>5, <3>4
    <2>5. CASE a = Acknowledge(u, "1") /\ Len(StatementsOf(f.sql)) <= 1
      <3>1. /\ m.op = "Parse" /\ m.name = f.name /\ m.stmt = f.sql
            /\ OnStatements(m) /\ Acknowledges("1", m) /\ Mutates(f)
        BY <1>5 DEF MutationOf, OnStatements, Acknowledges, Mutates
      <3> HIDE DEF m
      <3>2. u.stmts = Effect(m, s).stmts /\ u.portals = Effect(m, s).portals
        BY <2>3, <3>1 DEF Effect
      <3>3. ~u.skip /\ u.tx = s.tx /\ u.acks = s.acks
        BY <1>5, <2>3 DEF SameButMaps
      <3>4. Grants(s, m, a)
        BY <2>3, <2>5, <3>1, <3>2, <3>3, AcknowledgeGrants
      <3>5. QED
        BY <1>5, <2>5, <3>1, <3>4 DEF m
    <2>6. QED
      BY <2>3, <2>4, <2>5
  <1>6. CASE f.tag = "B" /\ ~s.skip
    <2> DEFINE sql == s.stmts[f.stmt]
               u == [s EXCEPT !.portals[f.portal] = sql]
               m == MutationOf(f)
    <2>1. f.portal \in Name /\ f.stmt \in Name /\ sql \in Statement
      BY <1>6, ClientFields, ServerFields
    <2>2. \/ a = Fail(s, sql)
          \/ a = Acknowledge(u, "2") /\ sql # NoSql
      BY <1>0, <1>1, <1>6 DEF AnswersTo, BindAnswers
    <2>3. CASE a = Fail(s, sql)
      BY <1>6, <2>1, <2>3, FailRefuses
    <2>4. CASE a = Acknowledge(u, "2") /\ sql # NoSql
      <3>1. /\ m.op = "Bind" /\ m.name = f.portal /\ m.stmt = sql
            /\ ~OnStatements(m) /\ Acknowledges("2", m) /\ Mutates(f)
        <4>1. prepared[f.stmt] = sql
          BY <1>2, <1>6, <2>1, <2>4, CoversIs
        <4> HIDE DEF sql
        <4>2. QED
          BY <1>6, <2>4, <4>1 DEF MutationOf, OnStatements, Acknowledges, Mutates
      <3> HIDE DEF sql
      <3>2. /\ u \in ServerState /\ SameButMaps(s, u)
            /\ u.portals = Set(s.portals, f.portal, sql) /\ u.stmts = s.stmts
        BY <2>1, StoreIs
      <3> HIDE DEF u, m
      <3>3. u.stmts = Effect(m, s).stmts /\ u.portals = Effect(m, s).portals
        BY <3>1, <3>2 DEF Effect
      <3>4. ~u.skip /\ u.tx = s.tx /\ u.acks = s.acks
        BY <1>6, <3>2 DEF SameButMaps
      <3>5. Grants(s, m, a)
        BY <2>4, <3>1, <3>2, <3>3, <3>4, AcknowledgeGrants
      <3>6. QED
        BY <1>6, <2>4, <3>1, <3>5 DEF m, sql
    <2>5. QED
      BY <2>2, <2>3, <2>4
  <1>7. CASE f.tag = "C" /\ ~s.skip
    <2> DEFINE v == [s EXCEPT !.stmts[f.name] = NoSql]
               w == [s EXCEPT !.portals[f.name] = NoSql]
               m == MutationOf(f)
    <2>1. f.name \in Name /\ f.kind \in {"S", "P"}
      BY <1>7, ClientFields
    <2>2. a = Acknowledge(IF f.kind = "S" THEN v ELSE w, "3")
      BY <1>0, <1>1, <1>7 DEF AnswersTo, CloseAnswers
    <2>3. /\ v \in ServerState /\ SameButMaps(s, v)
          /\ v.stmts = Set(s.stmts, f.name, NoSql) /\ v.portals = s.portals
          /\ w \in ServerState /\ SameButMaps(s, w)
          /\ w.portals = Set(s.portals, f.name, NoSql) /\ w.stmts = s.stmts
      BY <1>2, <2>1, StoreIs
    <2>4. /\ m.op = "Close" /\ m.name = f.name /\ m.stmt = NoSql
          /\ OnStatements(m) <=> f.kind = "S"
          /\ Acknowledges("3", m) /\ Mutates(f)
      BY <1>7 DEF MutationOf, OnStatements, Acknowledges, Mutates
    <2> DEFINE u == IF f.kind = "S" THEN v ELSE w
    <2> HIDE DEF v, w, m
    <2>5. /\ u \in ServerState /\ SameButMaps(s, u)
          /\ u.stmts = Effect(m, s).stmts /\ u.portals = Effect(m, s).portals
      BY <2>1, <2>3, <2>4 DEF Effect
    <2> HIDE DEF u
    <2>6. ~u.skip /\ u.tx = s.tx /\ u.acks = s.acks
      BY <1>7, <2>5 DEF SameButMaps
    <2>7. Grants(s, m, a)
      BY <2>2, <2>4, <2>5, <2>6, AcknowledgeGrants DEF u
    <2>8. QED
      BY <1>7, <2>4, <2>7 DEF m
  <1>8. CASE f.tag = "E" /\ ~s.skip
    <2> DEFINE sql == s.portals[f.portal]
    <2>1. f.portal \in Name /\ sql \in Statement
      BY <1>8, ClientFields, ServerFields
    <2>2. \/ a = Fail(t, sql)
          \/ sql # NoSql /\ a \in RunText(t, sql, <<>>)
      BY <1>0, <1>1, <1>8 DEF AnswersTo, ExecuteAnswers
    <2>3. CASE a = Fail(t, sql)
      BY <1>0, <1>8, <1>a, <2>1, <2>3, FailRefuses
    <2>4. CASE sql # NoSql /\ a \in RunText(t, sql, <<>>)
      <3>1. sql \in Sql /\ Len(StatementsOf(sql)) <= 1
        BY <2>1, <2>4 DEF Statement, Plain
      <3>2. SilentOne(t, a)
        BY <1>0, <2>4, <3>1, RunTextSilent
      <3>3. QED
        BY <1>8, <1>b, <2>4, <3>2
    <2>5. QED
      BY <2>2, <2>3, <2>4
  <1>9. CASE f.tag = "Q" /\ ~s.skip
    <2> DEFINE u == [t EXCEPT !.stmts[Unnamed] = NoSql, !.portals[Unnamed] = NoSql]
               h == <<Tagged("T")>>
    <2>1. PICK c \in RunText(u, f.sql, h) : a = IF c.srv.copy = "no" THEN Ready(c) ELSE c
      BY <1>0, <1>1, <1>9 DEF AnswersTo, QueryAnswers
    <2>2. /\ u \in ServerState /\ SameButMaps(t, u)
          /\ u.stmts = Set(t.stmts, Unnamed, NoSql)
          /\ u.portals = Set(t.portals, Unnamed, NoSql)
      BY <1>0, ClearedIs
    <2> HIDE DEF u
    <2>3. u.copy = "no" /\ u.acks = s.acks
      BY <1>0, <2>2 DEF SameButMaps
    <2>4. h \in {<<>>, <<Tagged("T")>>}
      OBVIOUS
    <2> HIDE DEF h
    <2>5. AcksNothing(u, c) /\ c.srv.copy = "no"
      BY <1>9, <2>1, <2>2, <2>3, <2>4, ClientFields, RunTextSilent, RunTextWithin
    <2>6. Closes(c, a)
      BY <2>1, <2>5, ReadyCloses DEF AcksNothing
    <2>7. QED
      BY <1>0, <1>9, <2>2, <2>3, <2>5, <2>6
  <1>10. QED
    BY <1>3, <1>4, <1>5, <1>6, <1>7, <1>8, <1>9

(***************************************************************************)
(* A view of the server's maps, and what it is to agree with one.  While a *)
(* transaction is open the portals are the same; outside of one the server *)
(* may have dropped portals that the proxy still has on record.  Only the  *)
(* unnamed portal is bound, so there is at most one.                       *)
(***************************************************************************)
View == [stmts   : [Name -> Statement],
         portals : {p \in [Name -> Statement] : \A n \in Name \ {Unnamed} : p[n] = NoSql}]

Agree(x, v) ==
    /\ Covers(v.stmts, x.stmts)
    /\ \A n \in Name : x.portals[n] \in {NoSql, v.portals[n]}
    /\ x.tx # "I" => x.portals = v.portals

LEMMA AgreeLeaves ==
    ASSUME NEW s, NEW x, NEW v, Agree(s, v), LeavesOne(s, x),
           x.tx # "I" => s.tx # "I" \/ s.portals = v.portals
    PROVE  Agree(x, v)
  <1>1. \A n \in Name : NoPortals[n] = NoSql
    BY DEF NoPortals
  <1>2. QED
    BY <1>1, CoversChain DEF Agree, LeavesOne, Leaves

LEMMA AgreeMoved ==
    ASSUME NEW s, s.stmts \in [Name -> Statement], s.portals \in [Name -> Statement],
           NEW v \in View, NEW m \in Mutation, NEW x, Agree(s, v), Moved(s, m, x)
    PROVE  Agree(x, Effect(m, v))
  <1>1. /\ v.stmts \in [Name -> Statement] /\ v.portals \in [Name -> Statement]
        /\ m.name \in Name /\ m.stmt \in Statement
    BY DEF View, Mutation
  <1>2. CASE OnStatements(m)
    <2>1. Covers(Set(v.stmts, m.name, m.stmt), Set(s.stmts, m.name, m.stmt))
      BY <1>1, CoversSet DEF Agree
    <2>2. QED
      BY <1>2, <2>1 DEF Agree, Moved, Effect
  <1>3. CASE ~OnStatements(m)
    <2>1. /\ x.stmts = s.stmts /\ x.portals = Set(s.portals, m.name, m.stmt) /\ x.tx = s.tx
          /\ Effect(m, v).stmts = v.stmts
          /\ Effect(m, v).portals = Set(v.portals, m.name, m.stmt)
      BY <1>3 DEF Moved, Effect
    <2>2. \A n \in Name : x.portals[n] \in {NoSql, Effect(m, v).portals[n]}
      BY <1>1, <2>1 DEF Agree, Set
    <2>3. QED
      BY <2>1, <2>2 DEF Agree
  <1>4. QED
    BY <1>2, <1>3

LEMMA EffectType ==
    ASSUME NEW v \in View, NEW m \in Mutation,
           OnStatements(m) \/ m.name = Unnamed \/ m.stmt = NoSql
    PROVE  Effect(m, v) \in View
  <1>1. /\ v.stmts \in [Name -> Statement] /\ v.portals \in [Name -> Statement]
        /\ \A n \in Name \ {Unnamed} : v.portals[n] = NoSql
        /\ m.name \in Name /\ m.stmt \in Statement
    BY DEF View, Mutation
  <1>2. /\ Set(v.stmts, m.name, m.stmt) \in [Name -> Statement]
        /\ Set(v.portals, m.name, m.stmt) \in [Name -> Statement]
    BY <1>1, SetType
  <1>3. ~OnStatements(m) =>
           \A n \in Name \ {Unnamed} : Set(v.portals, m.name, m.stmt)[n] = NoSql
    BY <1>1 DEF Set
  <1>4. QED
    BY <1>1, <1>2, <1>3 DEF Effect, View

(***************************************************************************)
(* The replies under way, numbered by the mutations acknowledged in their  *)
(* cycle: b of them have been read, ms is what waits for an answer and V   *)
(* the view of the server's maps after each acknowledgement.               *)
(***************************************************************************)
Before(q, k, b) == IF k = 1 THEN b ELSE q[k - 1].acks

Until(q, b) == IF q = <<>> THEN b ELSE q[Len(q)].acks

Acked(q, ms, b, V) ==
    \A k \in 1 .. Len(q) :
        /\ q[k].acks \in b .. b + Len(ms)
        /\ q[k].acks = Before(q, k, b) + (IF IsAck(q[k]) THEN 1 ELSE 0)
        /\ Agree(q[k], V[q[k].acks])
        /\ IsAck(q[k]) => Acknowledges(q[k].frame.tag, ms[q[k].acks - b])
        /\ \A i \in 1 .. k : q[i].acks <= q[k].acks

LEMMA AckedUntil ==
    ASSUME NEW q \in Seq(ServerReply), NEW ms \in Seq(Mutation), NEW b \in Nat, NEW V,
           Acked(q, ms, b, V)
    PROVE  /\ Until(q, b) \in b .. b + Len(ms)
           /\ \A k \in 1 .. Len(q) : q[k].acks <= Until(q, b)
  <1>1. Len(q) \in Nat /\ Len(ms) \in Nat /\ (q = <<>> <=> Len(q) = 0)
    OBVIOUS
  <1>2. CASE q = <<>>
    BY <1>1, <1>2 DEF Until
  <1>3. CASE q # <<>>
    <2>1. Len(q) \in 1 .. Len(q) /\ Until(q, b) = q[Len(q)].acks
      BY <1>1, <1>3 DEF Until
    <2>2. QED
      BY <2>1 DEF Acked
  <1>4. QED
    BY <1>2, <1>3

Carries(W, V, b, ms, ns) ==
    /\ \A j \in b .. b + Len(ms) : W[j] = V[j]
    /\ \A j \in 1 .. Len(ns) : W[b + j] = Effect(ns[j], W[b + (j - 1)])
    /\ Len(ms) <= Len(ns) /\ ns \in Seq(Mutation)
    /\ \A k \in 1 .. Len(ms) : ns[k] = ms[k]

Adds(o, u, e, ns, b, W) ==
    \A k \in 1 .. Len(o) :
        /\ o[k].acks = e /\ Agree(o[k], W[e])
        /\ IsAck(o[k]) => k = 1 /\ Acknowledges(o[k].frame.tag, ns[e - b])
        /\ k = 1 => e = u + (IF IsAck(o[1]) THEN 1 ELSE 0)

LEMMA AckedJoin ==
    ASSUME NEW q \in Seq(ServerReply), NEW o \in Seq(ServerReply),
           NEW ms \in Seq(Mutation), NEW ns \in Seq(Mutation), NEW b \in Nat, NEW V, NEW W,
           NEW e \in Nat, Acked(q, ms, b, V), Carries(W, V, b, ms, ns),
           e <= b + Len(ns), Adds(o, Until(q, b), e, ns, b, W)
    PROVE  /\ Acked(q \o o, ns, b, W)
           /\ o # <<>> => Until(q \o o, b) = e
           /\ o = <<>> => Until(q \o o, b) = Until(q, b)
  <1> USE DEF Carries, Adds
  <1> DEFINE j == q \o o
             u == Until(q, b)
  <1>1. /\ j \in Seq(ServerReply) /\ Len(j) = Len(q) + Len(o)
        /\ Len(q) \in Nat /\ Len(o) \in Nat
        /\ o # <<>> => /\ j # <<>> /\ Len(j) # 0 /\ j[Len(j)] = o[Len(o)]
                       /\ Len(o) \in 1 .. Len(o)
        /\ o = <<>> => j = q
    BY Joined
  <1>2. /\ \A k \in 1 .. Len(q) : j[k] = q[k]
        /\ \A k \in 1 .. Len(o) : j[Len(q) + k] = o[k]
    OBVIOUS
  <1>3. u \in b .. b + Len(ms) /\ u \in Nat /\ \A k \in 1 .. Len(q) : q[k].acks <= u
    BY AckedUntil
  <1>4. Len(ms) \in Nat /\ Len(ns) \in Nat
    OBVIOUS
  <1>5. \A k \in 1 .. Len(q) : q[k].acks \in Nat
    BY <1>4 DEF Acked
  <1>6. q # <<>> => u = q[Len(q)].acks /\ Len(q) # 0
    BY DEF Until
  <1>7. q = <<>> => u = b /\ Len(q) = 0
    BY DEF Until
  <1> HIDE DEF j, u
  <1>8. ASSUME NEW k \in 1 .. Len(q)
        PROVE  /\ j[k].acks \in b .. b + Len(ns)
               /\ j[k].acks = Before(j, k, b) + (IF IsAck(j[k]) THEN 1 ELSE 0)
               /\ Agree(j[k], W[j[k].acks])
               /\ IsAck(j[k]) => Acknowledges(j[k].frame.tag, ns[j[k].acks - b])
               /\ \A i \in 1 .. k : j[i].acks <= j[k].acks
    <2> DEFINE r == q[k]
    <2>1. /\ r.acks \in b .. b + Len(ms)
          /\ r.acks = Before(q, k, b) + (IF IsAck(r) THEN 1 ELSE 0)
          /\ Agree(r, V[r.acks])
          /\ IsAck(r) => Acknowledges(r.frame.tag, ms[r.acks - b])
          /\ \A i \in 1 .. k : q[i].acks <= r.acks
      BY DEF Acked
    <2>2. j[k] = r
      BY <1>2
    <2>3. Before(j, k, b) = Before(q, k, b)
      <3>1. CASE k = 1
        BY <3>1 DEF Before
      <3>2. CASE k # 1
        <4>1. k - 1 \in 1 .. Len(q)
          BY <1>1, <3>2
        <4>2. QED
          BY <1>2, <3>2, <4>1 DEF Before
      <3>3. QED
        BY <3>1, <3>2
    <2>4. \A i \in 1 .. k : j[i] = q[i]
      <3>1. \A i \in 1 .. k : i \in 1 .. Len(q)
        BY <1>1
      <3>2. QED
        BY <1>2, <3>1
    <2>5. IsAck(r) => r.acks - b \in 1 .. Len(ms)
      <3> SUFFICES ASSUME IsAck(r) PROVE r.acks - b \in 1 .. Len(ms)
        OBVIOUS
      <3>1. r.acks = Before(q, k, b) + 1
        BY <2>1
      <3>2. Before(q, k, b) \in Nat /\ Before(q, k, b) >= b
        <4>1. CASE k = 1
          BY <4>1 DEF Before
        <4>2. CASE k # 1
          <5>1. k - 1 \in 1 .. Len(q)
            BY <1>1, <4>2
          <5>2. q[k - 1].acks \in b .. b + Len(ms)
            BY <5>1 DEF Acked
          <5>3. QED
            BY <1>4, <4>2, <5>2 DEF Before
        <4>3. QED
          BY <4>1, <4>2
      <3>3. r.acks \in b .. b + Len(ms)
        BY <2>1
      <3> HIDE DEF r
      <3>4. QED
        BY <1>4, <3>1, <3>2, <3>3
    <2> HIDE DEF r
    <2>6. r.acks \in b .. b + Len(ns)
      BY <1>4, <2>1
    <2>7. Agree(r, W[r.acks])
      BY <2>1
    <2>8. IsAck(r) => Acknowledges(r.frame.tag, ns[r.acks - b])
      BY <2>1, <2>5
    <2>9. QED
      BY <2>1, <2>2, <2>3, <2>4, <2>6, <2>7, <2>8
  <1>9. ASSUME NEW h \in 1 .. Len(o), NEW k \in Nat, k = Len(q) + h
        PROVE  /\ j[k].acks \in b .. b + Len(ns)
               /\ j[k].acks = Before(j, k, b) + (IF IsAck(j[k]) THEN 1 ELSE 0)
               /\ Agree(j[k], W[j[k].acks])
               /\ IsAck(j[k]) => Acknowledges(j[k].frame.tag, ns[j[k].acks - b])
               /\ \A i \in 1 .. k : j[i].acks <= j[k].acks
    <2> DEFINE r == o[h]
    <2>1. /\ r.acks = e /\ Agree(r, W[e]) /\ j[k] = r
          /\ IsAck(r) => h = 1 /\ Acknowledges(r.frame.tag, ns[e - b])
      BY <1>2, <1>9
    <2>2. 1 \in 1 .. Len(o) /\ e = u + (IF IsAck(o[1]) THEN 1 ELSE 0)
      <3>1. 1 \in 1 .. Len(o)
        BY <1>1
      <3>2. QED
        BY <3>1 DEF u
    <2>3. e >= u /\ e \in b .. b + Len(ns)
      BY <1>3, <1>4, <2>2
    <2>4. e = Before(j, k, b) + (IF IsAck(r) THEN 1 ELSE 0)
      <3>1. CASE h = 1
        <4>1. r = o[1]
          BY <3>1
        <4>2. Before(j, k, b) = u
          <5>1. CASE q = <<>>
            <6>1. k = 1
              BY <1>7, <1>9, <3>1, <5>1
            <6>2. QED
              BY <1>7, <5>1, <6>1 DEF Before
          <5>2. CASE q # <<>>
            <6>1. k # 1 /\ k - 1 = Len(q) /\ Len(q) \in 1 .. Len(q)
              BY <1>1, <1>6, <1>9, <3>1, <5>2
            <6>2. QED
              BY <1>2, <1>6, <5>2, <6>1 DEF Before
          <5>3. QED
            BY <5>1, <5>2
        <4>3. QED
          BY <2>2, <4>1, <4>2
      <3>2. CASE h # 1
        <4>1. k # 1 /\ k - 1 = Len(q) + (h - 1) /\ h - 1 \in 1 .. Len(o)
          BY <1>1, <1>9, <3>2
        <4>2. Before(j, k, b) = e
          <5>1. j[k - 1] = o[h - 1] /\ o[h - 1].acks = e
            BY <1>2, <4>1
          <5>2. QED
            BY <4>1, <5>1 DEF Before
        <4>3. ~IsAck(r)
          BY <2>1, <3>2
        <4>4. QED
          BY <4>2, <4>3
      <3>3. QED
        BY <3>1, <3>2
    <2>5. ASSUME NEW i \in 1 .. k PROVE j[i].acks <= e
      <3>1. CASE i <= Len(q)
        <4>1. i \in 1 .. Len(q) /\ j[i] = q[i]
          BY <1>1, <1>2, <3>1
        <4>2. q[i].acks <= u /\ q[i].acks \in Nat
          BY <1>3, <1>5, <4>1
        <4>3. QED
          BY <1>3, <2>3, <4>1, <4>2
      <3>2. CASE ~(i <= Len(q))
        <4> DEFINE g == i - Len(q)
        <4>1. g \in 1 .. Len(o) /\ i = Len(q) + g
          BY <1>1, <1>9, <3>2
        <4> HIDE DEF g
        <4>2. j[i] = o[g] /\ o[g].acks = e
          BY <1>2, <4>1
        <4>3. QED
          BY <4>2
      <3>3. QED
        BY <3>1, <3>2
    <2> HIDE DEF r
    <2>6. QED
      BY <2>1, <2>3, <2>4, <2>5
  <1>10. Acked(j, ns, b, W)
    <2> SUFFICES ASSUME NEW k \in 1 .. Len(j)
                 PROVE  /\ j[k].acks \in b .. b + Len(ns)
                        /\ j[k].acks = Before(j, k, b) + (IF IsAck(j[k]) THEN 1 ELSE 0)
                        /\ Agree(j[k], W[j[k].acks])
                        /\ IsAck(j[k]) => Acknowledges(j[k].frame.tag, ns[j[k].acks - b])
                        /\ \A i \in 1 .. k : j[i].acks <= j[k].acks
      BY DEF Acked
    <2>1. CASE k <= Len(q)
      <3>1. k \in 1 .. Len(q)
        BY <1>1, <2>1
      <3>2. QED
        BY <1>8, <3>1
    <2>2. CASE ~(k <= Len(q))
      <3> DEFINE h == k - Len(q)
      <3>1. h \in 1 .. Len(o) /\ k \in Nat /\ k = Len(q) + h
        BY <1>1, <2>2
      <3> HIDE DEF h
      <3>2. QED
        BY <1>9, <3>1
    <2>3. QED
      BY <2>1, <2>2
  <1>11. o # <<>> => Until(j, b) = e
    BY <1>1 DEF Until
  <1>12. o = <<>> => Until(j, b) = u
    BY <1>1 DEF u
  <1>13. QED
    BY <1>10, <1>11, <1>12 DEF j, u

(***************************************************************************)
(* The oldest reply is read: an acknowledgement confirms the oldest        *)
(* mutation, and whatever the reply is, its number becomes b.              *)
(***************************************************************************)
LEMMA AckedFront ==
    ASSUME NEW q \in Seq(ServerReply), q # <<>>, NEW ms \in Seq(Mutation), NEW b \in Nat, NEW V,
           Acked(q, ms, b, V)
    PROVE  /\ Agree(q[1], V[q[1].acks])
           /\ ~IsAck(q[1]) => q[1].acks = b
           /\ IsAck(q[1]) => /\ q[1].acks = b + 1 /\ ms # <<>> /\ Len(ms) >= 1
                             /\ Acknowledges(q[1].frame.tag, ms[1])
  <1>1. 1 \in 1 .. Len(q) /\ Len(ms) \in Nat
    OBVIOUS
  <1>2. /\ q[1].acks \in b .. b + Len(ms)
        /\ q[1].acks = b + (IF IsAck(q[1]) THEN 1 ELSE 0)
        /\ Agree(q[1], V[q[1].acks])
        /\ IsAck(q[1]) => Acknowledges(q[1].frame.tag, ms[q[1].acks - b])
    BY <1>1 DEF Acked, Before
  <1>3. IsAck(q[1]) => q[1].acks - b = 1 /\ Len(ms) >= 1
    BY <1>1, <1>2
  <1>4. Len(ms) >= 1 => ms # <<>>
    OBVIOUS
  <1>5. QED
    BY <1>2, <1>3, <1>4

Passes(r, ms, b, ns, c) ==
    \/ ~IsAck(r) /\ c = b /\ ns = ms
    \/ IsAck(r) /\ c = b + 1 /\ ns = Tail(ms)

LEMMA AckedTail ==
    ASSUME NEW q \in Seq(ServerReply), q # <<>>, NEW ms \in Seq(Mutation), NEW b \in Nat, NEW V,
           Acked(q, ms, b, V), NEW ns \in Seq(Mutation), NEW c \in Nat,
           Passes(q[1], ms, b, ns, c)
    PROVE  Acked(Tail(q), ns, c, V) /\ Until(Tail(q), c) = Until(q, b)
  <1> USE DEF Passes
  <1> DEFINE t == Tail(q)
  <1>1. /\ t \in Seq(ServerReply) /\ Len(q) \in Nat /\ Len(q) = Len(t) + 1 /\ Len(t) \in Nat
        /\ \A k \in 1 .. Len(t) : k + 1 \in 1 .. Len(q) /\ t[k] = q[k + 1]
        /\ t = <<>> <=> Len(q) = 1
        /\ t # <<>> => t[Len(t)] = q[Len(q)]
        /\ 1 \in 1 .. Len(q)
    BY Dequeued
  <1>2. /\ ~IsAck(q[1]) => q[1].acks = b
        /\ IsAck(q[1]) => q[1].acks = b + 1 /\ ms # <<>> /\ Len(ms) >= 1
    BY AckedFront
  <1>3. q[1].acks = c
    BY <1>2
  <1>4. /\ Len(ms) \in Nat /\ Len(ns) \in Nat /\ c + Len(ns) = b + Len(ms)
        /\ \A k \in 1 .. Len(ms) : k - (c - b) \in 1 .. Len(ns) => ns[k - (c - b)] = ms[k]
    <2>1. CASE ~IsAck(q[1]) /\ c = b /\ ns = ms
      BY <2>1
    <2>2. CASE IsAck(q[1]) /\ c = b + 1 /\ ns = Tail(ms)
      <3>1. /\ Len(ms) \in Nat /\ Len(ns) \in Nat /\ Len(ms) = Len(ns) + 1
            /\ \A k \in 1 .. Len(ns) : ns[k] = ms[k + 1]
        BY <1>2, <2>2, Dequeued
      <3> HIDE <2>2
      <3>2. c = b + 1
        BY <2>2
      <3>3. \A k \in 1 .. Len(ms) : k - (c - b) \in 1 .. Len(ns) => ns[k - (c - b)] = ms[k]
        <4> SUFFICES ASSUME NEW k \in 1 .. Len(ms), k - (c - b) \in 1 .. Len(ns)
                     PROVE  ns[k - (c - b)] = ms[k]
          OBVIOUS
        <4>1. (k - (c - b)) + 1 = k
          BY <3>2
        <4>2. QED
          BY <3>1, <4>1
      <3>4. QED
        BY <3>1, <3>2, <3>3
    <2>3. QED
      BY <2>1, <2>2
  <1> HIDE DEF t
  <1>5. ASSUME NEW k \in 1 .. Len(t)
        PROVE  /\ t[k].acks \in c .. c + Len(ns)
               /\ t[k].acks = Before(t, k, c) + (IF IsAck(t[k]) THEN 1 ELSE 0)
               /\ Agree(t[k], V[t[k].acks])
               /\ IsAck(t[k]) => Acknowledges(t[k].frame.tag, ns[t[k].acks - c])
               /\ \A i \in 1 .. k : t[i].acks <= t[k].acks
    <2> DEFINE h == k + 1
               r == q[h]
    <2>1. h \in 1 .. Len(q) /\ t[k] = r
      BY <1>1
    <2>2. /\ r.acks \in b .. b + Len(ms)
          /\ r.acks = Before(q, h, b) + (IF IsAck(r) THEN 1 ELSE 0)
          /\ Agree(r, V[r.acks])
          /\ IsAck(r) => Acknowledges(r.frame.tag, ms[r.acks - b])
          /\ \A i \in 1 .. h : q[i].acks <= r.acks
      BY <2>1 DEF Acked
    <2>3. Before(t, k, c) = Before(q, h, b)
      <3>1. h # 1 /\ h - 1 = k
        OBVIOUS
      <3>2. Before(q, h, b) = q[k].acks
        BY <3>1 DEF Before
      <3>3. CASE k = 1
        BY <1>3, <3>2, <3>3 DEF Before
      <3>4. CASE k # 1
        <4>1. k - 1 \in 1 .. Len(t) /\ (k - 1) + 1 = k
          BY <1>1, <3>4
        <4>2. t[k - 1] = q[k]
          BY <1>1, <4>1
        <4>3. QED
          BY <3>2, <3>4, <4>2 DEF Before
      <3>5. QED
        BY <3>3, <3>4
    <2>4. \A i \in 1 .. k : t[i].acks <= r.acks
      <3> SUFFICES ASSUME NEW i \in 1 .. k PROVE t[i].acks <= r.acks
        OBVIOUS
      <3>1. i \in 1 .. Len(t) /\ i + 1 \in 1 .. h
        BY <1>1
      <3>2. QED
        BY <1>1, <2>2, <3>1
    <2>5. r.acks >= c
      <3>1. 1 \in 1 .. h
        OBVIOUS
      <3>2. q[1].acks <= r.acks
        BY <2>2, <3>1
      <3>3. QED
        BY <1>3, <1>4, <2>2, <3>2
    <2>6. r.acks \in c .. c + Len(ns) /\ r.acks \in Nat
      BY <1>4, <2>2, <2>5
    <2>7. IsAck(r) => Acknowledges(r.frame.tag, ns[r.acks - c])
      <3> SUFFICES ASSUME IsAck(r) PROVE Acknowledges(r.frame.tag, ns[r.acks - c])
        OBVIOUS
      <3>1. Before(q, h, b) >= c /\ Before(q, h, b) \in Nat
        <4>1. h - 1 = k /\ h # 1 /\ k \in 1 .. Len(q) /\ 1 \in 1 .. k
          BY <1>1
        <4>2. q[k].acks \in b .. b + Len(ms) /\ q[1].acks <= q[k].acks
          BY <4>1 DEF Acked
        <4>3. QED
          BY <1>3, <1>4, <4>1, <4>2 DEF Before
      <3>2. r.acks = Before(q, h, b) + 1
        BY <2>2
      <3> HIDE DEF r
      <3>3. r.acks - c \in 1 .. Len(ns) /\ r.acks - b \in 1 .. Len(ms)
            /\ (r.acks - b) - (c - b) = r.acks - c
        <4>1. c = b \/ c = b + 1
          OBVIOUS
        <4>2. \A x, y, m, n \in Nat : x \in c .. c + n /\ c + n = b + m /\ y >= c /\ x = y + 1
                 => x - c \in 1 .. n /\ x - b \in 1 .. m /\ (x - b) - (c - b) = x - c
          BY <4>1
        <4>3. QED
          BY <1>4, <2>6, <3>1, <3>2, <4>2
      <3>4. ns[r.acks - c] = ms[r.acks - b]
        BY <1>4, <3>3
      <3>5. QED
        BY <2>2, <3>4
    <2> HIDE DEF r
    <2>8. QED
      BY <2>1, <2>2, <2>3, <2>4, <2>6, <2>7
  <1>6. Acked(t, ns, c, V)
    BY <1>5 DEF Acked
  <1>7. Until(t, c) = Until(q, b)
    <2>1. CASE t = <<>>
      <3>1. Len(q) = 1
        BY <1>1, <2>1
      <3>2. QED
        BY <1>3, <2>1, <3>1 DEF Until
    <2>2. CASE t # <<>>
      BY <1>1, <2>2 DEF Until
    <2>3. QED
      BY <2>1, <2>2
  <1>8. QED
    BY <1>6, <1>7 DEF t

(***************************************************************************)
(* The invariant.  Viewed: the confirmed maps are the view the replies     *)
(* under way start from, each unacknowledged mutation leads to the next    *)
(* view, and the server has carried out all of them unless it skips.       *)
(* Settled: what holds of the maps whatever the views.                     *)
(***************************************************************************)
UnnamedPortals == \A f \in ClientFrames : f.tag = "B" => f.portal = Unnamed

Pending == IF cycles = <<>> THEN <<>> ELSE cycles[1].mutations

Confirmed == [stmts |-> confirmed_prepared, portals |-> confirmed_portals]

Viewed(b, V) ==
    /\ b \in Nat /\ V \in [Nat -> View] /\ V[b] = Confirmed
    /\ \A j \in 1 .. Len(Pending) : V[b + j] = Effect(Pending[j], V[b + (j - 1)])
    /\ Acked(replies, Pending, b, V)
    /\ ~ReadyComing => srv.acks = Until(replies, b) /\ Agree(srv, V[srv.acks])
    /\ ~ReadyComing /\ ~srv.skip => srv.acks = b + Len(Pending)

Failing ==
    \A k \in 1 .. Len(replies) : replies[k].frame.tag = "E" =>
        /\ ReadyComing \/ srv.skip
        /\ \A i \in 1 .. Len(replies) : i > k => replies[i].frame.tag = "Z"

Settled ==
    /\ reliable /\ Failing /\ Plain(srv.stmts) /\ Plain(srv.portals)
    /\ ~ReadyComing /\ ~srv.skip => Covers(prepared, srv.stmts)
    /\ ReadyComing => LET z == replies[Len(replies)] IN
                      /\ srv.acks = 0 /\ ~srv.skip /\ srv.tx = z.tx
                      /\ srv.stmts = z.stmts /\ srv.portals = z.portals
    /\ (ReadyComing \/ cycles = <<>>) /\ srv.tx = "I" => srv.portals = NoPortals
    /\ cycles = <<>> => portals = confirmed_portals
    /\ cycles = <<>> /\ ~ReadyComing /\ tx_state = "Idle" => confirmed_portals = NoPortals

MapInv == LockInv /\ (conn = "open" => Settled /\ \E b, V : Viewed(b, V))

LEMMA FrontendMaps ==
    ASSUME NEW f \in ClientFrames, Frontend(f)
    PROVE  /\ f.tag # "Q" => UNCHANGED <<confirmed_prepared, confirmed_portals>>
           /\ f.tag = "Q" =>
                 /\ confirmed_prepared' = Set(confirmed_prepared, Unnamed, NoSql)
                 /\ confirmed_portals' = Set(confirmed_portals, Unnamed, NoSql)
           /\ f.tag \in {"P", "B", "C"} /\ Mutates(f) =>
                 prepared' = LET m == MutationOf(f) IN
                             IF OnStatements(m) THEN Set(prepared, m.name, m.stmt) ELSE prepared
           /\ f.tag \in {"B", "E", "S", "H"} => prepared' = prepared
           /\ f.tag = "H" => portals' = portals
  <1>1. CASE f.tag = "P"
    <2>1. FrontendParse(f) /\ f.sql # NoSql
      BY <1>1, SessionAssumption DEF Frontend, FrontendParse, FrontendBind, FrontendClose,
            FrontendQuery, FrontendExecute, FrontendSync, FrontendOther
    <2>2. MutationOf(f).op = "Parse" /\ MutationOf(f).name = f.name /\ MutationOf(f).stmt = f.sql
      BY <1>1 DEF MutationOf
    <2>3. QED
      BY <1>1, <2>1, <2>2 DEF FrontendParse, OnStatements
  <1>2. CASE f.tag = "B"
    <2>1. FrontendBind(f)
      BY <1>2 DEF Frontend, FrontendParse, FrontendBind, FrontendClose,
            FrontendQuery, FrontendExecute, FrontendSync, FrontendOther
    <2>2. MutationOf(f).op = "Bind"
      BY <1>2 DEF MutationOf
    <2>3. QED
      BY <1>2, <2>1, <2>2 DEF FrontendBind, OnStatements
  <1>3. CASE f.tag = "C"
    <2>1. FrontendClose(f)
      BY <1>3, SessionAssumption DEF Frontend, FrontendParse, FrontendBind, FrontendClose,
            FrontendQuery, FrontendExecute, FrontendSync, FrontendOther
    <2>2. MutationOf(f).op = "Close" /\ MutationOf(f).name = f.name
          /\ MutationOf(f).stmt = NoSql /\ MutationOf(f).kind = f.kind
      BY <1>3 DEF MutationOf
    <2>3. QED
      BY <1>3, <2>1, <2>2 DEF FrontendClose, OnStatements
  <1>4. CASE f.tag = "Q"
    BY <1>4 DEF Frontend, FrontendParse, FrontendBind, FrontendClose,
          FrontendQuery, FrontendExecute, FrontendSync, FrontendOther
  <1>5. CASE f.tag = "E"
    BY <1>5 DEF Frontend, FrontendParse, FrontendBind, FrontendClose,
          FrontendQuery, FrontendExecute, FrontendSync, FrontendOther
  <1>6. CASE f.tag = "S"
    BY <1>6 DEF Frontend, FrontendParse, FrontendBind, FrontendClose,
          FrontendQuery, FrontendExecute, FrontendSync, FrontendOther
  <1>7. CASE f.tag \in {"D", "H", "c", "X"}
    BY <1>7 DEF Frontend, FrontendParse, FrontendBind, FrontendClose,
          FrontendQuery, FrontendExecute, FrontendSync, FrontendOther
  <1>8. QED
    BY <1>1, <1>2, <1>3, <1>4, <1>5, <1>6, <1>7, ClientFields

(***************************************************************************)
(* The only cycle's mutations.                                             *)
(***************************************************************************)
LEMMA PendingType ==
    ASSUME TypeOK PROVE Pending \in Seq(Mutation) /\ Len(Pending) \in Nat
  <1>1. CASE cycles = <<>>
    BY <1>1 DEF Pending
  <1>2. CASE cycles # <<>>
    <2>1. cycles[1] \in Cycle
      BY <1>2 DEF TypeOK
    <2>2. cycles[1].mutations \in Seq(Mutation)
      BY <2>1 DEF Cycle
    <2>3. QED
      BY <1>2, <2>2 DEF Pending
  <1>3. QED
    BY <1>1, <1>2

LEMMA NothingLeft ==
    ASSUME LockInv, conn = "open", cycles = <<>>, ~ReadyComing
    PROVE  replies = <<>>
  <1>1. Connected /\ TypeOK
    BY DEF LockInv, AlignedInv
  <1> SUFFICES ASSUME replies # <<>> PROVE FALSE
    OBVIOUS
  <1>2. replies \in Seq(ServerReply) /\ next_cycle \in Nat /\ InStep
    BY <1>1 DEF Connected, TypeOK
  <1>3. 1 \in 1 .. Len(replies) /\ Len(replies) \in 1 .. Len(replies)
    BY <1>2
  <1>4. replies[1].cycle \in Nat /\ replies[1].cycle <= next_cycle
    BY <1>2, <1>3, ReplyFields DEF InStep, Chained
  <1>5. Answering = replies[1].cycle /\ Len(cycles) = 0
    BY DEF Answering
  <1>6. CASE Answering > 0
    BY <1>2, <1>4, <1>5, <1>6 DEF InStep
  <1>7. CASE ~(Answering > 0)
    <2>1. Answering = 0
      BY <1>4, <1>5, <1>7
    <2>2. srv = NewServer /\ next_cycle = 0
      BY <1>2, <2>1 DEF InStep
    <2> DEFINE z == replies[Len(replies)]
    <2>3. z \in ServerReply /\ z.cycle <= next_cycle /\ NextCycle(z) = srv.cycle
      BY <1>2, <1>3 DEF InStep, Chained
    <2>4. z.cycle = 0 /\ srv.cycle = 1
      <3>1. srv.cycle = 1
        BY <2>2 DEF NewServer
      <3>2. z.cycle \in Nat
        BY <2>3, ReplyFields
      <3>3. QED
        BY <2>2, <2>3, <3>1, <3>2
    <2>5. z.frame.tag = "Z"
      BY <2>3, <2>4 DEF NextCycle
    <2>6. QED
      BY <2>5 DEF ReadyComing
  <1>8. QED
    BY <1>6, <1>7

LEMMA ClientPending ==
    ASSUME Lockstep, LockInv, NEW f \in ClientFrames, ClientStep(f), conn' = "open"
    PROVE  LET pushes == f.tag \in {"P", "B", "C"} /\ Mutates(f) IN
           /\ pushes => /\ MutationOf(f) \in Mutation
                        /\ Pending' = Append(Pending, MutationOf(f))
           /\ ~pushes => Pending' = Pending
           /\ f.tag # "H" => cycles' # <<>>
           /\ f.tag = "H" => cycles' = cycles
           /\ UNCHANGED <<tx_state, reliable>>
  <1> DEFINE pushes == f.tag \in {"P", "B", "C"} /\ Mutates(f)
             x == f.tag # "Q"
             c == Only(x)
             d == cycles'[1]
  <1>1. /\ TypeOK /\ Frontend(f) /\ InTurn /\ (cycles = <<>> \/ NewestOpen)
        /\ f.tag \in {"P", "B", "C", "E", "S", "Q", "H"}
        /\ f.tag = "Q" => cycles = <<>>
    BY ClientAlone
  <1>2. /\ cycles = <<>> => c.mutations = <<>>
        /\ f.tag # "H" => cycles' # <<>>
        /\ pushes => MutationOf(f) \in Mutation /\ d.mutations = Append(c.mutations, MutationOf(f))
        /\ ~pushes /\ f.tag # "H" => d.mutations = c.mutations
        /\ f.tag = "H" => UNCHANGED <<cycles, next_cycle>>
        /\ UNCHANGED <<startup, tx_state, reliable>>
    BY <1>1, OnlyWork DEF InTurn, Mutates
  <1>3. c.mutations = Pending
    BY <1>2 DEF Only, Pending
  <1>4. f.tag # "H" => Pending' = d.mutations
    BY <1>2 DEF Pending
  <1>5. f.tag = "H" => Pending' = Pending /\ ~pushes
    BY <1>2 DEF Pending
  <1> HIDE DEF c, d
  <1>6. QED
    BY <1>2, <1>3, <1>4, <1>5

Continues(W, V, b, ms, m, ns) ==
    /\ \A j \in b .. b + Len(ms) : W[j] = V[j]
    /\ \A j \in 1 .. Len(ns) : W[b + j] = Effect(ns[j], W[b + (j - 1)])
    /\ Len(ns) = Len(ms) + 1 /\ ns \in Seq(Mutation)
    /\ \A k \in 1 .. Len(ms) : ns[k] = ms[k]
    /\ ns[Len(ms) + 1] = m
    /\ W[b + (Len(ms) + 1)] = Effect(m, V[b + Len(ms)])

LEMMA NextView ==
    ASSUME NEW b \in Nat, NEW V \in [Nat -> View], NEW ms \in Seq(Mutation),
           \A j \in 1 .. Len(ms) : V[b + j] = Effect(ms[j], V[b + (j - 1)]),
           NEW m \in Mutation, OnStatements(m) \/ m.name = Unnamed \/ m.stmt = NoSql,
           NEW ns, ns = Append(ms, m)
    PROVE  \E W \in [Nat -> View] : Continues(W, V, b, ms, m, ns)
  <1> DEFINE n == Len(ms)
             e == Effect(m, V[b + n])
             W == [V EXCEPT ![b + (n + 1)] = e]
  <1>1. /\ n \in Nat /\ Len(ns) = n + 1 /\ ns \in Seq(Mutation)
        /\ \A k \in 1 .. n : ns[k] = ms[k]
        /\ ns[n + 1] = m
    OBVIOUS
  <1>2. \A j \in 1 .. n : V[b + j] = Effect(ms[j], V[b + (j - 1)])
    OBVIOUS
  <1> HIDE DEF n
  <1>3. e \in View
    <2>1. V[b + n] \in View
      BY <1>1
    <2>2. QED
      BY <2>1, EffectType
  <1>4. V[b + n] = V[b + n] /\ e = Effect(m, V[b + n])
    OBVIOUS
  <1> HIDE DEF e
  <1>5. /\ W \in [Nat -> View] /\ W[b + (n + 1)] = e
        /\ \A j \in b .. b + n : W[j] = V[j]
    BY <1>1, <1>3
  <1> HIDE DEF W
  <1>6. ASSUME NEW j \in 1 .. n + 1
        PROVE  W[b + j] = Effect(ns[j], W[b + (j - 1)])
    <2>1. b + (j - 1) \in b .. b + n
      BY <1>1
    <2>2. W[b + (j - 1)] = V[b + (j - 1)]
      BY <1>5, <2>1
    <2>3. CASE j = n + 1
      <3>1. j - 1 = n
        BY <1>1, <2>3
      <3>2. QED
        BY <1>1, <1>4, <1>5, <2>2, <2>3, <3>1
    <2>4. CASE j # n + 1
      <3>1. j \in 1 .. n /\ b + j \in b .. b + n
        BY <1>1, <2>4
      <3>2. QED
        BY <1>1, <1>2, <1>5, <2>2, <3>1
    <2>5. QED
      BY <2>3, <2>4
  <1>7. Continues(W, V, b, ms, m, ns)
    BY <1>1, <1>4, <1>5, <1>6 DEF n, Continues
  <1>8. QED
    BY <1>5, <1>7

(***************************************************************************)
(* An answer that leaves the reply queue numbered as it was.               *)
(***************************************************************************)
Suits(a, ns, b, W) ==
    /\ IsAnswer(a) /\ a.srv.acks \in b .. b + Len(ns) /\ Agree(a.srv, W[a.srv.acks])
    /\ a.out = <<>> => a.srv.acks = srv.acks
    /\ ~a.srv.skip => a.srv.acks = b + Len(ns)
    /\ \A k \in 1 .. Len(a.out) :
          /\ a.out[k].acks = a.srv.acks /\ Agree(a.out[k], W[a.srv.acks])
          /\ IsAck(a.out[k]) => k = 1 /\ Acknowledges(a.out[k].frame.tag, ns[a.srv.acks - b])
          /\ k = 1 => a.srv.acks = srv.acks + (IF IsAck(a.out[1]) THEN 1 ELSE 0)
          /\ a.out[k].frame.tag = "E" => k = Len(a.out) /\ a.srv.skip

LEMMA SilentSuits ==
    ASSUME NEW ns \in Seq(Mutation), NEW b \in Nat, NEW V, NEW W, srv \in ServerState,
           srv.acks \in b .. b + Len(ns), W[srv.acks] = V[srv.acks],
           Agree(srv, V[srv.acks]), NEW a, SilentOne(srv, a),
           Refuses(srv, a) \/ srv.portals = V[srv.acks].portals,
           a.srv.skip \/ srv.acks = b + Len(ns)
    PROVE  Suits(a, ns, b, W)
  <1> DEFINE v == V[srv.acks]
  <1>1. a.srv.acks = srv.acks /\ \A k \in 1 .. Len(a.out) : a.out[k].acks = srv.acks
    BY DEF SilentOne, LeavesOne, Leaves
  <1>2. Agree(a.srv, v)
    <2>1. LeavesOne(srv, a.srv) /\ (a.srv.tx # "I" => srv.tx # "I" \/ srv.portals = v.portals)
      BY DEF SilentOne, Refuses
    <2> HIDE DEF v
    <2>2. QED
      BY <2>1, AgreeLeaves DEF v
  <1>3. ASSUME NEW k \in 1 .. Len(a.out) PROVE Agree(a.out[k], v)
    <2>1. /\ LeavesOne(srv, a.out[k])
          /\ a.out[k].tx # "I" => srv.tx # "I" \/ srv.portals = v.portals
      BY DEF SilentOne, Refuses
    <2> HIDE DEF v
    <2>2. QED
      BY <2>1, AgreeLeaves DEF v
  <1>4. \A k \in 1 .. Len(a.out) :
           ~IsAck(a.out[k]) /\ (a.out[k].frame.tag = "E" => k = Len(a.out) /\ a.srv.skip)
    BY DEF SilentOne, AcksNothing, ErrorLast
  <1>5. IsAnswer(a) /\ srv.acks \in Nat
    BY ServerFields DEF SilentOne, AcksNothing
  <1>6. ASSUME NEW k \in 1 .. Len(a.out), k = 1
        PROVE  srv.acks = srv.acks + (IF IsAck(a.out[1]) THEN 1 ELSE 0)
    <2>1. ~IsAck(a.out[1])
      BY <1>4, <1>6
    <2>2. QED
      BY <1>5, <2>1
  <1> HIDE DEF v
  <1>7. v = W[srv.acks]
    BY DEF v
  <1>8. QED
    BY <1>1, <1>2, <1>3, <1>4, <1>5, <1>6, <1>7 DEF Suits

LEMMA GrantSuits ==
    ASSUME NEW ms \in Seq(Mutation), NEW ns \in Seq(Mutation), NEW b \in Nat, NEW V, NEW W,
           NEW m \in Mutation, srv \in ServerState, Agree(srv, V[b + Len(ms)]),
           V[b + Len(ms)] \in View,
           srv.acks = b + Len(ms), Len(ns) = Len(ms) + 1, ns[Len(ms) + 1] = m,
           W[b + (Len(ms) + 1)] = Effect(m, V[b + Len(ms)]), NEW a, Grants(srv, m, a)
    PROVE  Suits(a, ns, b, W)
  <1> DEFINE n == Len(ms)
             v == V[b + n]
             e == a.srv.acks
             r == a.out[1]
  <1>1. n \in Nat
    OBVIOUS
  <1>2. /\ IsAnswer(a) /\ Len(a.out) = 1 /\ ~a.srv.skip
        /\ IsAck(r) /\ Acknowledges(r.frame.tag, m)
        /\ Moved(srv, m, a.srv) /\ Moved(srv, m, r)
    BY DEF Grants
  <1>3. e = srv.acks + 1 /\ r.acks = srv.acks + 1
    BY <1>2 DEF Moved
  <1>4. /\ e = b + (n + 1) /\ e - b = n + 1 /\ e = b + Len(ns) /\ Len(ns) \in Nat
        /\ e \in b .. b + Len(ns)
    BY <1>1, <1>3
  <1>5. srv.stmts \in [Name -> Statement] /\ srv.portals \in [Name -> Statement]
    BY ServerFields
  <1>6. Agree(a.srv, Effect(m, v)) /\ Agree(r, Effect(m, v))
    <2>1. v \in View /\ Agree(srv, v)
      OBVIOUS
    <2> HIDE DEF v, r
    <2>2. QED
      BY <1>2, <1>5, <2>1, AgreeMoved
  <1>7. W[e] = Effect(m, v)
    BY <1>4
  <1>8. a.out # <<>>
    BY <1>2
  <1>9. r.frame.tag # "E"
    BY <1>2 DEF IsAck
  <1>10. ns[e - b] = m
    BY <1>4
  <1> HIDE DEF v, n
  <1>11. \A k \in 1 .. Len(a.out) : k = 1
    BY <1>2
  <1>12. QED
    BY <1>2, <1>3, <1>4, <1>6, <1>7, <1>8, <1>9, <1>10, <1>11 DEF Suits

LEMMA PlainSet ==
    /\ Len(StatementsOf(NoSql)) <= 1 /\ Plain(NoPortals)
    /\ \A map \in [Name -> Statement], n \in Name, x \in Statement :
          Plain(map) /\ Len(StatementsOf(x)) <= 1 => Plain(Set(map, n, x))
    /\ \A s, x : Plain(s.portals) /\ Leaves(s, x) => Plain(x.portals)
  <1>1. StatementsOf(NoSql) = <<NoSql>>
    BY ScriptAssumption, SqlAssumption DEF StatementsOf
  <1>2. Len(StatementsOf(NoSql)) <= 1
    BY <1>1
  <1>3. Plain(NoPortals)
    BY <1>2 DEF Plain, NoPortals
  <1>4. \A map \in [Name -> Statement], n \in Name, x \in Statement :
          Plain(map) /\ Len(StatementsOf(x)) <= 1 => Plain(Set(map, n, x))
    BY DEF Plain, Set
  <1>5. QED
    BY <1>2, <1>3, <1>4 DEF Leaves

LEMMA PlainCovers ==
    ASSUME NEW v \in [Name -> Statement], NEW s, Plain(v), Covers(v, s)
    PROVE  Plain(s)
  <1>1. \A n \in Name : s[n] \in {NoSql, v[n]}
    BY CoversIs
  <1>2. QED
    BY <1>1, PlainSet DEF Plain

LEMMA WorkSettles ==
    ASSUME Lockstep, LockInv, Settled, NEW f \in ClientFrames, ClientStep(f), conn' = "open",
           f.tag \in {"P", "B", "C", "E"}, ~srv.skip, NEW a \in Answers(srv, f)
    PROVE  /\ Plain(a.srv.stmts) /\ Plain(a.srv.portals)
           /\ ~a.srv.skip => Covers(prepared', a.srv.stmts)
  <1>1. TypeOK /\ Connected /\ ~ReadyComing /\ srv.copy = "no" /\ Frontend(f)
    BY ClientAlone
  <1>2. /\ srv \in ServerState /\ Plain(srv.stmts) /\ Plain(srv.portals)
        /\ Covers(prepared, srv.stmts) /\ CopyIn = {} /\ prepared \in [Name -> Statement]
    BY <1>1 DEF Connected, Settled, Lockstep, TypeOK
  <1>3. srv.stmts \in [Name -> Statement] /\ srv.portals \in [Name -> Statement]
    BY <1>2, ServerFields
  <1>4. /\ f.tag \in {"P", "B", "C"} =>
              \/ Refuses(srv, a)
              \/ /\ Mutates(f) /\ Grants(srv, MutationOf(f), a)
                 /\ f.tag = "P" => Len(StatementsOf(f.sql)) <= 1
                 /\ f.tag = "B" => MutationOf(f).stmt = srv.stmts[f.stmt]
        /\ f.tag = "E" => Refuses(srv, a) \/ SilentOne(srv, a)
    BY <1>1, <1>2, AnswersMaps
  <1>5. CASE Refuses(srv, a)
    <2>1. Leaves(srv, a.srv) /\ a.srv.skip
      BY <1>5 DEF Refuses, SilentOne, AcksNothing
    <2>2. Plain(a.srv.stmts)
      BY <1>2, <1>3, <2>1, PlainCovers DEF Leaves
    <2>3. QED
      BY <1>2, <2>1, <2>2, PlainSet
  <1>6. CASE f.tag = "E" /\ SilentOne(srv, a)
    <2>1. Leaves(srv, a.srv)
      BY <1>6 DEF SilentOne, AcksNothing
    <2>2. Plain(a.srv.stmts) /\ Covers(prepared, a.srv.stmts)
      BY <1>2, <1>3, <2>1, PlainCovers, CoversChain DEF Leaves
    <2>3. prepared' = prepared
      BY <1>1, <1>6, FrontendMaps
    <2>4. QED
      BY <1>2, <2>1, <2>2, <2>3, PlainSet
  <1>7. CASE /\ f.tag \in {"P", "B", "C"} /\ Mutates(f) /\ Grants(srv, MutationOf(f), a)
             /\ f.tag = "P" => Len(StatementsOf(f.sql)) <= 1
             /\ f.tag = "B" => MutationOf(f).stmt = srv.stmts[f.stmt]
    <2> DEFINE m == MutationOf(f)
    <2>1. a.srv.stmts = Effect(m, srv).stmts /\ a.srv.portals = Effect(m, srv).portals
      BY <1>7 DEF Grants, Moved
    <2>2. prepared' = IF OnStatements(m) THEN Set(prepared, m.name, m.stmt) ELSE prepared
      BY <1>1, <1>7, FrontendMaps
    <2>3. m \in Mutation
      BY <1>7, ClientPending
    <2>4. Len(StatementsOf(m.stmt)) <= 1
      <3>1. CASE f.tag = "P"
        <4>1. m.stmt = f.sql
          BY <3>1 DEF MutationOf
        <4>2. QED
          BY <1>7, <3>1, <4>1
      <3>2. CASE f.tag = "B"
        <4>1. m.stmt = srv.stmts[f.stmt] /\ f.stmt \in Name
          BY <1>7, <3>2, ClientFields
        <4>2. QED
          BY <1>2, <4>1 DEF Plain
      <3>3. CASE f.tag = "C"
        <4>1. m.stmt = NoSql
          BY <3>3 DEF MutationOf
        <4>2. QED
          BY <4>1, PlainSet
      <3>4. QED
        BY <1>7, <3>1, <3>2, <3>3
    <2> HIDE DEF m
    <2>5. m.name \in Name /\ m.stmt \in Statement
      BY <2>3 DEF Mutation
    <2>6. Plain(Set(srv.stmts, m.name, m.stmt)) /\ Plain(Set(srv.portals, m.name, m.stmt))
      BY <1>2, <1>3, <2>4, <2>5, PlainSet
    <2>7. Covers(Set(prepared, m.name, m.stmt), Set(srv.stmts, m.name, m.stmt))
      BY <1>2, <2>5, CoversSet
    <2>8. QED
      BY <1>2, <2>1, <2>2, <2>6, <2>7 DEF Effect
  <1>8. QED
    BY <1>4, <1>5, <1>6, <1>7

(***************************************************************************)
(* A frame of the extended protocol other than Sync.                       *)
(***************************************************************************)
LEMMA WorkSuits ==
    ASSUME Lockstep, UnnamedPortals, LockInv, Settled,
           NEW f \in ClientFrames, ClientStep(f), conn' = "open",
           f.tag \in {"P", "B", "C", "E", "H"}, NEW a \in Answers(srv, f),
           NEW b, NEW V, Viewed(b, V), NEW ms, ms = Pending, NEW ns, ns = Pending'
    PROVE  \E W \in [Nat -> View] : Carries(W, V, b, ms, ns) /\ Suits(a, ns, b, W)
  <1> DEFINE n == Len(ms)
             m == MutationOf(f)
             pushes == f.tag \in {"P", "B", "C"} /\ Mutates(f)
  <1>1. TypeOK /\ Connected /\ ~ReadyComing /\ srv.copy = "no"
    BY ClientAlone
  <1>2. srv \in ServerState /\ replies \in Seq(ServerReply) /\ ms \in Seq(Mutation) /\ n \in Nat
    BY <1>1, PendingType DEF Connected
  <1>3. /\ b \in Nat /\ V \in [Nat -> View] /\ Acked(replies, ms, b, V)
        /\ \A j \in 1 .. n : V[b + j] = Effect(ms[j], V[b + (j - 1)])
        /\ srv.acks = Until(replies, b) /\ Agree(srv, V[srv.acks])
        /\ ~srv.skip => srv.acks = b + n
    BY <1>1 DEF Viewed
  <1>4. srv.acks \in b .. b + n
    BY <1>2, <1>3, AckedUntil
  <1>5. /\ pushes => m \in Mutation /\ ns = Append(ms, m)
        /\ ~pushes => ns = ms
    BY ClientPending
  <1>6. ~srv.skip => Covers(prepared, srv.stmts)
    BY <1>1 DEF Settled
  <1>7. /\ f.tag \notin {"S", "Q"} /\ srv.skip =>
              /\ IsAnswer(a) /\ a.out = <<>> /\ a.srv.skip
              /\ a.srv.stmts = srv.stmts /\ a.srv.portals = srv.portals
              /\ a.srv.acks = srv.acks /\ a.srv.tx = srv.tx
        /\ f.tag \in {"P", "B", "C"} /\ ~srv.skip =>
              Refuses(srv, a) \/ (Mutates(f) /\ Grants(srv, m, a))
        /\ f.tag = "E" /\ ~srv.skip =>
              Refuses(srv, a) \/ (SilentOne(srv, a) /\ srv.portals[f.portal] # NoSql)
    BY <1>1, <1>2, <1>6, AnswersMaps DEF Settled, Lockstep
  <1>8. f.tag = "H" => IsAnswer(a) /\ a.srv = srv /\ a.out = <<>>
    BY <1>1, <1>2, AnswersCycle, NoReply
  <1>9. PICK W \in [Nat -> View] :
           /\ \A j \in b .. b + n : W[j] = V[j]
           /\ \A j \in 1 .. Len(ns) : W[b + j] = Effect(ns[j], W[b + (j - 1)])
           /\ ns \in Seq(Mutation) /\ Len(ns) \in Nat
           /\ n <= Len(ns)
           /\ \A k \in 1 .. n : ns[k] = ms[k]
           /\ pushes => /\ Len(ns) = n + 1 /\ ns[n + 1] = m
                        /\ W[b + (n + 1)] = Effect(m, V[b + n])
    <2>1. CASE pushes
      <3>1. OnStatements(m) \/ m.name = Unnamed \/ m.stmt = NoSql
        BY <2>1 DEF MutationOf, OnStatements, UnnamedPortals
      <3>2. m \in Mutation /\ ns = Append(ms, m)
        BY <1>5, <2>1
      <3> HIDE DEF m
      <3>3. PICK W \in [Nat -> View] : Continues(W, V, b, ms, m, ns)
        <4>1. \A j \in 1 .. Len(ms) : V[b + j] = Effect(ms[j], V[b + (j - 1)])
          BY <1>3
        <4>2. b \in Nat /\ V \in [Nat -> View] /\ ms \in Seq(Mutation)
          BY <1>2, <1>3
        <4>3. QED
          BY ONLY <3>1, <3>2, <4>1, <4>2, NextView
      <3>4. n <= Len(ns) /\ Len(ns) \in Nat
        BY <1>2, <3>3 DEF Continues
      <3>5. QED
        BY <3>3, <3>4 DEF Continues
    <2>2. CASE ~pushes
      <3>1. ns = ms
        BY <1>5, <2>2
      <3> HIDE DEF pushes
      <3>2. n <= n
        BY <1>2
      <3>3. QED
        BY <1>2, <1>3, <2>2, <3>1, <3>2
    <2>3. QED
      BY <2>1, <2>2
  <1> SUFFICES Suits(a, ns, b, W)
    BY <1>9 DEF Carries
  <1> HIDE DEF pushes, m
  <1>10. W[srv.acks] = V[srv.acks] /\ srv.acks \in b .. b + Len(ns)
    BY <1>2, <1>3, <1>4, <1>9
  <1>11. ASSUME a.out = <<>>, IsAnswer(a), a.srv.stmts = srv.stmts, a.srv.portals = srv.portals,
                a.srv.acks = srv.acks, a.srv.tx = srv.tx, a.srv.skip \/ srv.acks = b + Len(ns)
         PROVE  Suits(a, ns, b, W)
    <2>1. Agree(a.srv, W[srv.acks])
      BY <1>3, <1>10, <1>11 DEF Agree
    <2>2. \A k \in 1 .. Len(a.out) : FALSE
      BY <1>11
    <2>3. QED
      BY <1>10, <1>11, <2>1, <2>2 DEF Suits
  <1>12. CASE srv.skip
    BY <1>7, <1>11, <1>12
  <1>13. CASE f.tag = "H" /\ ~srv.skip
    <2>1. ns = ms
      BY <1>5, <1>13 DEF pushes
    <2>2. QED
      BY <1>3, <1>8, <1>11, <1>13, <2>1
  <1>14. CASE Refuses(srv, a)
    <2>1. SilentOne(srv, a) /\ a.srv.skip
      BY <1>14 DEF Refuses
    <2>2. QED
      BY <1>2, <1>3, <1>9, <1>10, <1>14, <2>1, SilentSuits
  <1>15. CASE f.tag = "E" /\ ~srv.skip /\ SilentOne(srv, a) /\ srv.portals[f.portal] # NoSql
    <2> DEFINE v == V[srv.acks]
    <2>1. ns = ms
      BY <1>5, <1>15 DEF pushes
    <2>2. /\ v \in View /\ Agree(srv, v) /\ f.portal \in Name /\ Unnamed \in Name
          /\ srv.portals \in [Name -> Statement]
      BY <1>2, <1>3, <1>15, ClientFields, ServerFields, NameAssumption
    <2> HIDE DEF v
    <2>3. srv.portals = v.portals
      <3>1. /\ v.portals \in [Name -> Statement]
            /\ \A k \in Name \ {Unnamed} : v.portals[k] = NoSql
        BY <2>2 DEF View
      <3>2. \A k \in Name : srv.portals[k] \in {NoSql, v.portals[k]}
        BY <2>2 DEF Agree
      <3>3. f.portal = Unnamed
        BY <1>15, <2>2, <3>1, <3>2
      <3>4. \A k \in Name : srv.portals[k] = v.portals[k]
        BY <1>15, <3>1, <3>2, <3>3
      <3>5. QED
        BY <2>2, <3>1, <3>4
    <2>4. srv.acks = b + Len(ns)
      BY <1>3, <1>15, <2>1
    <2>5. QED
      BY <1>2, <1>3, <1>9, <1>10, <1>15, <2>3, <2>4, SilentSuits DEF v
  <1>16. CASE f.tag \in {"P", "B", "C"} /\ ~srv.skip /\ Mutates(f) /\ Grants(srv, m, a)
    <2>1. pushes /\ m \in Mutation
      BY <1>5, <1>16 DEF pushes
    <2>2. srv.acks = b + n /\ V[b + n] \in View
      BY <1>2, <1>3, <1>16
    <2>3. QED
      BY <1>2, <1>3, <1>9, <1>16, <2>1, <2>2, GrantSuits
  <1>17. QED
    BY <1>7, <1>12, <1>13, <1>14, <1>15, <1>16

LEMMA QuietJoin ==
    ASSUME replies \in Seq(ServerReply), InTurn, ~ReadyComing, Failing, NEW a, IsAnswer(a),
           replies' = replies \o a.out, srv' = a.srv, srv.skip => a.out = <<>> /\ a.srv.skip,
           \A k \in 1 .. Len(a.out) :
               /\ a.out[k].frame.tag # "Z"
               /\ a.out[k].frame.tag = "E" => k = Len(a.out) /\ a.srv.skip
    PROVE  ~ReadyComing' /\ Failing'
  <1> DEFINE q == replies
             o == a.out
             j == replies'
  <1>1. o \in Seq(ServerReply) /\ q \in Seq(ServerReply) /\ j = q \o o
    BY DEF IsAnswer
  <1>2. /\ j \in Seq(ServerReply) /\ Len(j) = Len(q) + Len(o) /\ Len(q) \in Nat /\ Len(o) \in Nat
        /\ \A k \in 1 .. Len(j) :
              \/ k \in 1 .. Len(q) /\ j[k] = q[k]
              \/ \E i \in 1 .. Len(o) : k = Len(q) + i /\ j[k] = o[i]
        /\ o # <<>> => /\ j # <<>> /\ Len(j) # 0 /\ j[Len(j)] = o[Len(o)]
                       /\ Len(o) \in 1 .. Len(o)
        /\ o = <<>> => j = q
    <2> DEFINE p == q \o o
    <2>1. /\ p \in Seq(ServerReply) /\ Len(p) = Len(q) + Len(o) /\ Len(q) \in Nat /\ Len(o) \in Nat
          /\ \A k \in 1 .. Len(p) :
                \/ k \in 1 .. Len(q) /\ p[k] = q[k]
                \/ \E i \in 1 .. Len(o) : k = Len(q) + i /\ p[k] = o[i]
          /\ o # <<>> => /\ p # <<>> /\ Len(p) # 0 /\ p[Len(p)] = o[Len(o)]
                         /\ Len(o) \in 1 .. Len(o)
          /\ o = <<>> => p = q
      BY <1>1, Joined
    <2>2. j = p
      BY <1>1
    <2> HIDE DEF p, j, q, o
    <2>3. QED
      BY <2>1, <2>2
  <1>3. \A k \in 1 .. Len(o) : /\ o[k].frame.tag # "Z"
                               /\ o[k].frame.tag = "E" => k = Len(o) /\ srv'.skip
    OBVIOUS
  <1>4. ~ReadyComing'
    <2>1. CASE o = <<>>
      <3>1. j = q
        BY <1>2, <2>1
      <3>2. QED
        BY <3>1 DEF ReadyComing
    <2>2. CASE o # <<>>
      <3>1. Len(o) \in 1 .. Len(o) /\ j[Len(j)] = o[Len(o)]
        BY <1>2, <2>2
      <3>2. j[Len(j)].frame.tag # "Z"
        BY <1>3, <3>1
      <3>3. QED
        BY <3>2 DEF ReadyComing
    <2>3. QED
      BY <2>1, <2>2
  <1>5. \A k \in 1 .. Len(q) : q[k].frame.tag = "E" =>
           srv.skip /\ \A i \in 1 .. Len(q) : i > k => q[i].frame.tag = "Z"
    BY DEF Failing
  <1>6. srv.skip => o = <<>> /\ srv'.skip
    OBVIOUS
  <1>7. ASSUME NEW k \in 1 .. Len(j), j[k].frame.tag = "E"
        PROVE  srv'.skip /\ \A i \in 1 .. Len(j) : i > k => j[i].frame.tag = "Z"
    <2> HIDE DEF j, q, o
    <2>1. CASE k \in 1 .. Len(q) /\ j[k] = q[k]
      <3>1. srv.skip
        BY <1>5, <1>7, <2>1
      <3>2. j = q
        BY <1>2, <1>6, <3>1
      <3>3. QED
        BY <1>5, <1>6, <1>7, <3>1, <3>2
    <2>2. CASE \E i \in 1 .. Len(o) : k = Len(q) + i /\ j[k] = o[i]
      <3>1. PICK i \in 1 .. Len(o) : k = Len(q) + i /\ j[k] = o[i]
        BY <2>2
      <3>2. i = Len(o) /\ srv'.skip
        BY <1>3, <1>7, <3>1
      <3>3. k = Len(j)
        BY <1>2, <3>1, <3>2
      <3>4. \A h \in 1 .. Len(j) : ~(h > k)
        BY <1>2, <3>3
      <3>5. QED
        BY <3>2, <3>4
    <2>3. QED
      BY <1>2, <2>1, <2>2
  <1>8. QED
    BY <1>4, <1>7 DEF Failing

LEMMA WorkMapped ==
    ASSUME Lockstep, UnnamedPortals, LockInv, Settled,
           NEW f \in ClientFrames, ClientStep(f), conn' = "open",
           f.tag \in {"P", "B", "C", "E", "H"}, NEW b, NEW V, Viewed(b, V)
    PROVE  Settled' /\ \E W : Viewed(b, W)'
  <1>1. /\ TypeOK /\ Connected /\ InTurn /\ Frontend(f) /\ ~ReadyComing /\ srv.copy = "no"
    BY ClientAlone
  <1>2. PICK a : /\ Joins(f, a)
                 /\ f.tag \in {"P", "B", "C", "E"} => Within(Numbered(srv, f), a)
                 /\ f.tag = "H" => a = Answer(srv, <<>>)
    BY ClientAlone
  <1>3. /\ a \in Answers(srv, f) /\ IsAnswer(a) /\ srv' = a.srv /\ replies' = replies \o a.out
        /\ srv \in ServerState /\ replies \in Seq(ServerReply)
        /\ a.out \in Seq(ServerReply) /\ a.srv \in ServerState
    BY <1>1, <1>2 DEF Joins, Turn, Connected, IsAnswer
  <1>4. f.tag = "H" => a.srv = srv /\ a.out = <<>>
    BY <1>2, <1>3, NoReply
  <1>5. PICK ms : ms = Pending
    OBVIOUS
  <1>6. PICK ns : ns = Pending'
    OBVIOUS
  <1>7. PICK W \in [Nat -> View] : Carries(W, V, b, ms, ns) /\ Suits(a, ns, b, W)
    BY <1>3, <1>5, <1>6, WorkSuits
  <1>8. /\ ms \in Seq(Mutation) /\ Len(ms) \in Nat /\ b \in Nat /\ V \in [Nat -> View]
        /\ V[b] = Confirmed /\ Acked(replies, ms, b, V) /\ srv.acks = Until(replies, b)
    BY <1>1, <1>5, PendingType DEF Viewed
  <1> DEFINE e == a.srv.acks
             o == a.out
  <1>9. /\ e \in b .. b + Len(ns) /\ Agree(a.srv, W[e])
        /\ o = <<>> => e = srv.acks
        /\ ~a.srv.skip => e = b + Len(ns)
        /\ \A k \in 1 .. Len(o) :
              /\ o[k].acks = e /\ Agree(o[k], W[e])
              /\ IsAck(o[k]) => k = 1 /\ Acknowledges(o[k].frame.tag, ns[e - b])
              /\ k = 1 => e = srv.acks + (IF IsAck(o[1]) THEN 1 ELSE 0)
              /\ o[k].frame.tag = "E" => k = Len(o) /\ a.srv.skip
    BY <1>7 DEF Suits
  <1>10. /\ e \in Nat /\ e <= b + Len(ns) /\ o \in Seq(ServerReply)
         /\ ns \in Seq(Mutation) /\ Len(ns) \in Nat
    <2>1. ns \in Seq(Mutation)
      BY <1>7 DEF Carries
    <2>2. QED
      BY <1>3, <1>8, <1>9, <2>1
  <1> HIDE DEF e, o
  <1>11. Acked(replies \o o, ns, b, W) /\ Until(replies \o o, b) = e
    <2>1. Adds(o, Until(replies, b), e, ns, b, W)
      BY <1>8, <1>9 DEF Adds
    <2>2. /\ Acked(replies \o o, ns, b, W)
          /\ o # <<>> => Until(replies \o o, b) = e
          /\ o = <<>> => Until(replies \o o, b) = Until(replies, b)
      BY ONLY <1>3, <1>7, <1>8, <1>10, <2>1, AckedJoin
    <2>3. QED
      BY <1>8, <1>9, <2>2
  <1>12. f.tag # "H" /\ srv.skip =>
            o = <<>> /\ a.srv.skip /\ a.srv.stmts = srv.stmts /\ a.srv.portals = srv.portals
    <2>1. CopyIn = {} /\ Plain(srv.portals) /\ (~srv.skip => Covers(prepared, srv.stmts))
      BY <1>1 DEF Lockstep, Settled
    <2>2. srv \in ServerState /\ a \in Answers(srv, f) /\ TypeOK /\ srv.copy = "no"
      BY <1>1, <1>3
    <2>3. f.tag \notin {"S", "Q"} /\ srv.skip =>
             /\ IsAnswer(a) /\ a.out = <<>> /\ a.srv.skip
             /\ a.srv.stmts = srv.stmts /\ a.srv.portals = srv.portals
             /\ a.srv.acks = srv.acks /\ a.srv.tx = srv.tx
      BY <2>1, <2>2, AnswersMaps
    <2>4. QED
      BY <2>3 DEF o
  <1>13. ~ReadyComing' /\ Failing'
    <2>1. srv.skip => o = <<>> /\ a.srv.skip
      BY <1>4, <1>12 DEF o
    <2>2. \A k \in 1 .. Len(o) : o[k].frame.tag # "Z"
      <3>1. CASE f.tag = "H"
        <4>1. Len(o) = 0
          BY <1>4, <3>1 DEF o
        <4>2. QED
          BY <4>1
      <3>2. CASE f.tag # "H"
        BY <1>2, <3>2 DEF Within, o
      <3>3. QED
        BY <3>1, <3>2
    <2>3. \A k \in 1 .. Len(o) : /\ o[k].frame.tag # "Z"
                                 /\ o[k].frame.tag = "E" => k = Len(o) /\ a.srv.skip
      BY <1>9, <2>2
    <2>4. QED
      BY <1>1, <1>3, <2>1, <2>3, QuietJoin DEF o, Settled
  <1>14. Viewed(b, W)'
    <2>1. Confirmed' = Confirmed
      BY <1>1, FrontendMaps DEF Confirmed
    <2>2. b \in b .. b + Len(ms)
      BY <1>8
    <2>3. W[b] = Confirmed'
      BY <1>7, <1>8, <2>1, <2>2 DEF Carries
    <2>4. srv'.acks = e /\ replies' = replies \o o /\ srv' = a.srv
      BY <1>3 DEF e, o
    <2>5. Acked(replies', ns, b, W) /\ srv'.acks = Until(replies', b) /\ Agree(srv', W[srv'.acks])
      BY <1>9, <1>11, <2>4
    <2>6. ~srv'.skip => srv'.acks = b + Len(ns)
      BY <1>9, <2>4
    <2>7. QED
      BY <1>6, <1>7, <1>8, <2>3, <2>5, <2>6 DEF Viewed, Carries
  <1>15. Settled'
    <2>1. /\ reliable' /\ tx_state' = tx_state
          /\ cycles' = <<>> => f.tag = "H" /\ cycles = <<>>
      BY ClientPending DEF Settled
    <2>2. Plain(srv.stmts) /\ Plain(srv.portals) /\ (~srv.skip => Covers(prepared, srv.stmts))
      BY <1>1 DEF Settled
    <2>3. /\ Plain(a.srv.stmts) /\ Plain(a.srv.portals)
          /\ ~a.srv.skip => Covers(prepared', a.srv.stmts)
      <3>1. CASE f.tag = "H"
        <4>1. prepared' = prepared
          BY <1>1, <3>1, FrontendMaps
        <4>2. QED
          BY <1>4, <2>2, <3>1, <4>1
      <3>2. CASE f.tag # "H" /\ srv.skip
        BY <1>12, <2>2, <3>2
      <3>3. CASE f.tag # "H" /\ ~srv.skip
        BY <1>3, <3>3, WorkSettles
      <3>4. QED
        BY <3>1, <3>2, <3>3
    <2>4. cycles' = <<>> =>
             /\ srv' = srv /\ portals' = portals /\ confirmed_portals' = confirmed_portals
             /\ srv.tx = "I" => srv.portals = NoPortals
             /\ portals = confirmed_portals
             /\ tx_state = "Idle" => confirmed_portals = NoPortals
      BY <1>1, <1>3, <1>4, <2>1, FrontendMaps DEF Settled
    <2>5. QED
      BY <1>3, <1>13, <2>1, <2>3, <2>4 DEF Settled
  <1>16. QED
    BY <1>14, <1>15

(***************************************************************************)
(* Sync, and a simple query: the answer ends with ReadyForQuery.           *)
(***************************************************************************)
LEMMA CloseJoins ==
    ASSUME replies \in Seq(ServerReply), Failing, NEW c, NEW a, IsAnswer(c), Closes(c, a),
           ErrorLast(c), replies' = replies \o a.out, srv' = a.srv,
           c.out # <<>> => replies = <<>>
    PROVE  /\ ReadyComing' /\ Failing'
           /\ replies'[Len(replies')] = a.out[Len(a.out)]
  <1> DEFINE q == replies
             o == a.out
             w == c.out
             j == replies'
  <1>1. o \in Seq(ServerReply) /\ q \in Seq(ServerReply) /\ j = q \o o /\ w \in Seq(ServerReply)
    BY DEF IsAnswer, Closes
  <1>2. /\ j \in Seq(ServerReply) /\ Len(j) = Len(q) + Len(o) /\ Len(q) \in Nat /\ Len(o) \in Nat
        /\ \A k \in 1 .. Len(j) :
              \/ k \in 1 .. Len(q) /\ j[k] = q[k]
              \/ \E i \in 1 .. Len(o) : k = Len(q) + i /\ j[k] = o[i]
        /\ o # <<>> => j # <<>> /\ j[Len(j)] = o[Len(o)]
    <2> DEFINE p == q \o o
    <2>1. /\ p \in Seq(ServerReply) /\ Len(p) = Len(q) + Len(o) /\ Len(q) \in Nat /\ Len(o) \in Nat
          /\ \A k \in 1 .. Len(p) :
                \/ k \in 1 .. Len(q) /\ p[k] = q[k]
                \/ \E i \in 1 .. Len(o) : k = Len(q) + i /\ p[k] = o[i]
          /\ o # <<>> => p # <<>> /\ p[Len(p)] = o[Len(o)]
      BY <1>1, Joined
    <2>2. j = p
      BY <1>1
    <2> HIDE DEF p, j, q, o
    <2>3. QED
      BY <2>1, <2>2
  <1>3. /\ Len(o) = Len(w) + 1 /\ o[Len(o)].frame.tag = "Z"
        /\ \A k \in 1 .. Len(w) : o[k] = w[k]
        /\ \A k \in 1 .. Len(w) : w[k].frame.tag = "E" => k = Len(w)
    BY DEF Closes, ErrorLast
  <1>4. Len(w) \in Nat /\ o # <<>> /\ (q # <<>> => Len(w) = 0)
    <2>1. Len(w) \in Nat
      BY <1>1
    <2>2. Len(o) # 0
      BY <1>3, <2>1
    <2>3. QED
      BY <2>1, <2>2
  <1>5. \A k \in 1 .. Len(q) : q[k].frame.tag = "E" =>
           \A i \in 1 .. Len(q) : i > k => q[i].frame.tag = "Z"
    BY DEF Failing
  <1>6. 1 \in 1 .. Len(q) => q # <<>>
    BY <1>1
  <1> HIDE DEF q, o, w
  <1>7. ReadyComing'
    BY <1>2, <1>3, <1>4 DEF ReadyComing
  <1>8. ASSUME NEW k \in 1 .. Len(j), j[k].frame.tag = "E", NEW i \in 1 .. Len(j), i > k
        PROVE  j[i].frame.tag = "Z"
    <2> HIDE DEF j
    <2>1. CASE k \in 1 .. Len(q) /\ j[k] = q[k]
      <3>1. Len(o) = 1
        BY <1>2, <1>3, <1>4, <1>6, <2>1
      <3>2. CASE i \in 1 .. Len(q) /\ j[i] = q[i]
        BY <1>5, <1>8, <2>1, <3>2
      <3>3. CASE \E h \in 1 .. Len(o) : i = Len(q) + h /\ j[i] = o[h]
        <4>1. \A h \in 1 .. Len(o) : h = Len(o)
          BY <3>1
        <4>2. QED
          BY <1>3, <3>3, <4>1
      <3>4. QED
        BY <1>2, <3>2, <3>3
    <2>2. CASE \E h \in 1 .. Len(o) : k = Len(q) + h /\ j[k] = o[h]
      <3>1. PICK h \in 1 .. Len(o) : k = Len(q) + h /\ j[k] = o[h]
        BY <2>2
      <3>2. o[h].frame.tag = "E" /\ h # Len(o)
        BY <1>3, <1>8, <3>1
      <3>3. h \in 1 .. Len(w)
        BY <1>3, <1>4, <3>2
      <3>4. h = Len(w)
        BY <1>3, <3>2, <3>3
      <3>5. i = Len(j) /\ Len(o) # 0
        BY <1>2, <1>3, <1>4, <1>8, <3>1, <3>4
      <3>6. QED
        BY <1>2, <1>3, <1>4, <3>5
    <2>3. QED
      BY <1>2, <2>1, <2>2
  <1>9. Failing'
    BY <1>7, <1>8 DEF Failing
  <1>10. QED
    BY <1>2, <1>4, <1>7, <1>9 DEF o

LEMMA SyncMapped ==
    ASSUME Lockstep, LockInv, Settled,
           NEW f \in ClientFrames, ClientStep(f), conn' = "open",
           f.tag = "S", NEW b, NEW V, Viewed(b, V)
    PROVE  Settled' /\ Viewed(b, V)'
  <1>1. TypeOK /\ Connected /\ InTurn /\ Frontend(f) /\ ~ReadyComing /\ srv.copy = "no"
    BY ClientAlone
  <1>2. PICK a : Joins(f, a)
    BY ClientAlone
  <1>3. /\ a \in Answers(srv, f) /\ IsAnswer(a) /\ srv' = a.srv /\ replies' = replies \o a.out
        /\ srv \in ServerState /\ replies \in Seq(ServerReply)
        /\ a.out \in Seq(ServerReply) /\ a.srv \in ServerState
    BY <1>1, <1>2 DEF Joins, Turn, Connected, IsAnswer
  <1>4. /\ Plain(srv.stmts) /\ Plain(srv.portals) /\ (~srv.skip => Covers(prepared, srv.stmts))
        /\ Failing /\ CopyIn = {}
    BY <1>1 DEF Settled, Lockstep
  <1>5. PICK c : AcksNothing(srv, c) /\ c.srv = srv /\ c.out = <<>> /\ Closes(c, a)
    <2>1. srv \in ServerState /\ a \in Answers(srv, f)
      BY <1>3
    <2>2. QED
      BY <1>1, <1>4, <2>1, AnswersMaps
  <1>6. ReadyComing' /\ Failing' /\ replies'[Len(replies')] = a.out[Len(a.out)]
    BY <1>3, <1>4, <1>5, CloseJoins DEF AcksNothing
  <1> DEFINE z == a.out[1]
             o == a.out
             e == srv.acks
  <1>7. Len(o) = 1 /\ Len(c.out) = 0 /\ z = a.out[Len(a.out)]
    BY <1>5 DEF Closes
  <1>8. /\ z.frame.tag = "Z" /\ z.acks = e /\ z.stmts = srv.stmts
        /\ z.tx = srv.tx /\ a.srv.tx = z.tx
        /\ z.portals = IF z.tx = "I" THEN NoPortals ELSE srv.portals
        /\ a.srv.stmts = z.stmts /\ a.srv.portals = z.portals
        /\ a.srv.acks = 0 /\ ~a.srv.skip
    BY <1>5, <1>7 DEF Closes
  <1>9. PICK ms : ms = Pending /\ ms = Pending'
    BY ClientPending
  <1>10. /\ b \in Nat /\ V \in [Nat -> View] /\ V[b] = Confirmed /\ ms \in Seq(Mutation)
         /\ \A j \in 1 .. Len(ms) : V[b + j] = Effect(ms[j], V[b + (j - 1)])
         /\ Acked(replies, ms, b, V) /\ e = Until(replies, b) /\ Agree(srv, V[e])
    BY <1>1, <1>9, PendingType DEF Viewed
  <1>11. e \in Nat /\ e <= b + Len(ms) /\ Len(ms) \in Nat
    <2>1. Len(ms) \in Nat
      BY <1>10
    <2>2. e \in b .. b + Len(ms)
      BY <1>3, <1>10, AckedUntil
    <2>3. QED
      BY <1>10, <2>1, <2>2
  <1> HIDE DEF z, e, o
  <1>12. Agree(z, V[e])
    <2>1. \A n \in Name : NoPortals[n] = NoSql
      BY DEF NoPortals
    <2>2. QED
      BY <1>8, <1>10, <2>1 DEF Agree
  <1>13. Acked(replies \o o, ms, b, V)
    <2>1. \A k \in 1 .. Len(o) : k = 1 /\ o[k] = z
      BY <1>7 DEF z, o
    <2>2. ~IsAck(z)
      BY <1>8 DEF IsAck
    <2>3. e = Until(replies, b) + 0
      BY <1>10, <1>11
    <2>4. Adds(o, Until(replies, b), e, ms, b, V)
      BY <1>8, <1>12, <2>1, <2>2, <2>3 DEF Adds
    <2>5. Carries(V, V, b, ms, ms)
      BY <1>10, <1>11 DEF Carries
    <2>6. o \in Seq(ServerReply)
      BY <1>3 DEF o
    <2>7. QED
      BY ONLY <1>3, <1>10, <1>11, <2>4, <2>5, <2>6, AckedJoin
  <1>14. Viewed(b, V)'
    <2>1. Confirmed' = Confirmed
      BY <1>1, FrontendMaps DEF Confirmed
    <2>2. Acked(replies', ms, b, V)
      BY <1>3, <1>13 DEF o
    <2>3. QED
      BY <1>6, <1>9, <1>10, <2>1, <2>2 DEF Viewed
  <1>15. Settled'
    <2>1. reliable' /\ cycles' # <<>>
      BY ClientPending DEF Settled
    <2>2. Plain(srv'.stmts) /\ Plain(srv'.portals)
      BY <1>3, <1>4, <1>8, PlainSet
    <2>3. replies'[Len(replies')] = z
      BY <1>6, <1>7
    <2>4. QED
      BY <1>3, <1>6, <1>8, <2>1, <2>2, <2>3 DEF Settled
  <1>16. QED
    BY <1>14, <1>15

LEMMA QueryMapped ==
    ASSUME Lockstep, LockInv, Settled,
           NEW f \in ClientFrames, ClientStep(f), conn' = "open",
           f.tag = "Q", NEW b, NEW V, Viewed(b, V)
    PROVE  Settled' /\ \E W : Viewed(b, W)'
  <1>1. /\ TypeOK /\ Connected /\ InTurn /\ Frontend(f) /\ ~ReadyComing /\ srv.copy = "no"
        /\ cycles = <<>> /\ ~srv.skip
    BY ClientAlone
  <1>2. PICK a : Joins(f, a)
    BY ClientAlone
  <1>3. /\ a \in Answers(srv, f) /\ IsAnswer(a) /\ srv' = a.srv /\ replies' = replies \o a.out
        /\ srv \in ServerState /\ replies \in Seq(ServerReply)
        /\ a.out \in Seq(ServerReply) /\ a.srv \in ServerState
    BY <1>1, <1>2 DEF Joins, Turn, Connected, IsAnswer
  <1>4. /\ Plain(srv.stmts) /\ Plain(srv.portals) /\ (~srv.skip => Covers(prepared, srv.stmts))
        /\ Failing /\ CopyIn = {}
    BY <1>1 DEF Settled, Lockstep
  <1>5. replies = <<>>
    <2>1. conn = "open"
      BY ClientTurn DEF Lockstep, LockInv
    <2>2. QED
      BY <1>1, <2>1, NothingLeft
  <1>6. PICK u, c : /\ u.stmts = Set(srv.stmts, Unnamed, NoSql)
                    /\ u.portals = Set(srv.portals, Unnamed, NoSql)
                    /\ u.acks = srv.acks /\ AcksNothing(u, c) /\ Closes(c, a)
    <2>1. srv \in ServerState /\ a \in Answers(srv, f)
      BY <1>3
    <2>2. QED
      BY <1>1, <1>4, <2>1, AnswersMaps
  <1>7. ReadyComing' /\ Failing' /\ replies'[Len(replies')] = a.out[Len(a.out)]
    BY <1>3, <1>4, <1>5, <1>6, CloseJoins DEF AcksNothing
  <1>8. Pending = <<>> /\ Pending' = <<>>
    BY <1>1, ClientPending DEF Pending
  <1>9. /\ b \in Nat /\ V \in [Nat -> View] /\ V[b] = Confirmed /\ V[b] \in View
        /\ srv.acks = b /\ Agree(srv, V[b])
    BY <1>1, <1>5 DEF Viewed, Until
  <1> DEFINE v == V[b]
             x == Set(v.stmts, Unnamed, NoSql)
             w == [stmts |-> x, portals |-> NoPortals]
             W == [V EXCEPT ![b] = w]
             o == a.out
             z == a.out[Len(a.out)]
             s == a.srv
  <1>10. /\ v.stmts \in [Name -> Statement] /\ v.portals \in [Name -> Statement]
         /\ \A n \in Name \ {Unnamed} : v.portals[n] = NoSql
         /\ Unnamed \in Name /\ NoSql \in Statement
    BY <1>9, NameAssumption DEF View, Statement
  <1>11. /\ Covers(v.stmts, srv.stmts) /\ srv.portals \in [Name -> Statement]
         /\ srv.stmts \in [Name -> Statement]
         /\ \A n \in Name : srv.portals[n] \in {NoSql, v.portals[n]}
    BY <1>3, <1>9, ServerFields DEF Agree
  <1> HIDE DEF v
  <1>12. /\ u.stmts = x /\ x \in [Name -> Statement]
         /\ Set(v.portals, Unnamed, NoSql) = NoPortals /\ u.portals = NoPortals
    <2>1. x \in [Name -> Statement]
      BY <1>10, SetType
    <2>2. Set(v.portals, Unnamed, NoSql) = NoPortals
      BY <1>10 DEF Set, NoPortals
    <2>3. Set(srv.portals, Unnamed, NoSql) = NoPortals
      BY <1>10, <1>11 DEF Set, NoPortals
    <2>4. Set(srv.stmts, Unnamed, NoSql) = x
      BY <1>10, <1>11, CoversIs
    <2>5. QED
      BY <1>6, <2>1, <2>2, <2>3, <2>4
  <1>13. Confirmed' = w
    <2>1. v.stmts = confirmed_prepared /\ v.portals = confirmed_portals
      BY <1>9 DEF v, Confirmed
    <2>2. /\ confirmed_prepared' = Set(v.stmts, Unnamed, NoSql)
          /\ confirmed_portals' = Set(v.portals, Unnamed, NoSql)
      BY <1>1, <2>1, FrontendMaps
    <2>3. QED
      BY <1>12, <2>2 DEF Confirmed
  <1> HIDE DEF x
  <1>14. w \in View /\ w.stmts = x /\ w.portals = NoPortals
    BY <1>10, <1>12 DEF View, NoPortals
  <1> HIDE DEF w
  <1>15. W \in [Nat -> View] /\ W[b] = w
    BY <1>9, <1>14
  <1> HIDE DEF W, o, z, s
  <1>16. ASSUME NEW r, r.stmts = x, r.portals = NoPortals
         PROVE  Agree(r, w)
    <2>1. \A n \in Name : NoPortals[n] = NoSql
      BY DEF NoPortals
    <2>2. QED
      BY <1>14, <1>16, <2>1 DEF Agree, Covers
  <1>17. /\ c.srv.stmts = x /\ c.srv.portals = NoPortals /\ c.srv.acks = b
         /\ \A k \in 1 .. Len(c.out) : /\ c.out[k].stmts = x /\ c.out[k].portals = NoPortals
                                       /\ c.out[k].acks = b /\ ~IsAck(c.out[k])
         /\ c.out \in Seq(ServerReply) /\ Len(c.out) \in Nat
    <2>1. \A y : Covers(x, y) => y = x
      <3>1. Set(x, Unnamed, NoSql) = x
        BY <1>10 DEF x, Set
      <3>2. QED
        BY <3>1 DEF Covers
    <2>2. QED
      BY <1>6, <1>9, <1>12, <2>1 DEF AcksNothing, Leaves, ErrorLast, IsAnswer
  <1>18. /\ Len(o) = Len(c.out) + 1 /\ \A k \in 1 .. Len(c.out) : o[k] = c.out[k]
         /\ z = o[Len(o)] /\ z.frame.tag = "Z" /\ z.acks = b /\ z.stmts = x
         /\ s.tx = z.tx /\ z.portals = NoPortals /\ s.stmts = z.stmts /\ s.portals = z.portals
         /\ s.acks = 0 /\ ~s.skip
    BY <1>6, <1>17 DEF Closes, o, z, s
  <1>19. ASSUME NEW k \in 1 .. Len(o)
         PROVE  o[k].acks = b /\ Agree(o[k], w) /\ ~IsAck(o[k])
    <2>1. k \in 1 .. Len(c.out) \/ k = Len(o)
      BY <1>17, <1>18
    <2>2. CASE k \in 1 .. Len(c.out)
      BY <1>16, <1>17, <1>18, <2>2
    <2>3. CASE k = Len(o)
      BY <1>16, <1>18, <2>3 DEF IsAck
    <2>4. QED
      BY <2>1, <2>2, <2>3
  <1>20. Acked(replies', <<>>, b, W)
    <2> DEFINE ms == <<>>
               q == replies
    <2>1. Acked(q, ms, b, W) /\ Until(q, b) = b /\ q \in Seq(ServerReply)
      BY <1>3, <1>5 DEF Acked, Until
    <2>2. Carries(W, W, b, ms, ms) /\ ms \in Seq(Mutation) /\ Len(ms) = 0
      BY DEF Carries
    <2>3. b = b + 0 /\ b <= b + 0
      BY <1>9
    <2>4. Adds(o, Until(q, b), b, ms, b, W)
      BY <1>15, <1>19, <2>1, <2>3 DEF Adds
    <2>5. o \in Seq(ServerReply) /\ replies' = q \o o
      BY <1>3 DEF o
    <2> HIDE DEF ms, q
    <2>6. Acked(q \o o, ms, b, W)
      BY ONLY <1>9, <2>1, <2>2, <2>3, <2>4, <2>5, AckedJoin
    <2>7. QED
      BY <2>5, <2>6 DEF ms
  <1>21. Viewed(b, W)'
    <2>1. \A j \in 1 .. Len(Pending') : FALSE
      BY <1>8
    <2>2. QED
      BY <1>7, <1>8, <1>9, <1>13, <1>15, <1>20, <2>1 DEF Viewed
  <1>22. Settled'
    <2>1. reliable' /\ cycles' # <<>>
      BY ClientPending DEF Settled
    <2>2. Plain(s.stmts) /\ Plain(s.portals)
      <3>1. Plain(x)
        <4>1. Plain(Set(srv.stmts, Unnamed, NoSql))
          BY <1>4, <1>10, <1>11, PlainSet
        <4>2. QED
          BY <1>6, <1>12, <4>1
      <3>2. QED
        BY <1>18, <3>1, PlainSet
    <2>3. replies'[Len(replies')] = z /\ srv' = s
      BY <1>3, <1>7 DEF z, s
    <2>4. QED
      BY <1>7, <1>18, <2>1, <2>2, <2>3 DEF Settled
  <1>23. QED
    BY <1>21, <1>22

(***************************************************************************)
(* What a reply does to the proxy's maps.                                  *)
(***************************************************************************)
LEMMA BackendMaps ==
    ASSUME TypeOK, Len(cycles) <= 1, NEW f \in ServerFrames, Backend(f)
    PROVE  /\ f.tag \notin {"1", "2", "3", "E", "Z"} =>
                 /\ UNCHANGED <<prepared, portals, confirmed_prepared, confirmed_portals, reliable>>
                 /\ Pending' = Pending
           /\ f.tag \in {"1", "2", "3"} /\ Pending # <<>> /\ Acknowledges(f.tag, Pending[1]) =>
                 /\ UNCHANGED <<prepared, portals, reliable>>
                 /\ Confirmed' = Effect(Pending[1], Confirmed) /\ Pending' = Tail(Pending)
           /\ f.tag = "E" =>
                 /\ prepared' = confirmed_prepared /\ portals' = confirmed_portals
                 /\ UNCHANGED <<confirmed_prepared, confirmed_portals, reliable>>
                 /\ Pending' = <<>>
           /\ f.tag # "Z" => (cycles' = <<>> <=> cycles = <<>>) /\ tx_state' = tx_state
           /\ f.tag = "Z" =>
                 /\ cycles' = <<>> /\ Pending' = <<>> /\ tx_state' = StatusOf(f) /\ reliable'
                 /\ prepared' = confirmed_prepared /\ confirmed_prepared' = confirmed_prepared
                 /\ confirmed_portals' = IF StatusOf(f) = "Idle" THEN NoPortals
                                         ELSE confirmed_portals
                 /\ portals' = confirmed_portals'
  <1>0. cycles \in Seq(Cycle) /\ (cycles # <<>> => Len(cycles) = 1 /\ cycles[1] \in Cycle
                                                  /\ Head(cycles) = cycles[1])
    BY Single DEF TypeOK
  <1>1. ASSUME f.tag # "Z"
        PROVE  /\ (cycles' = <<>> <=> cycles = <<>>) /\ tx_state' = tx_state
               /\ Pending' = CASE f.tag \in {"1", "2", "3"} -> Rest(Pending)
                               [] f.tag = "E" -> <<>>
                               [] OTHER -> Pending
    <2>1. /\ cycles' \in Seq(Cycle) /\ Len(cycles') = Len(cycles)
          /\ \A i \in 1 .. Len(cycles) :
                cycles'[i] = IF i = 1 THEN Replied(f, cycles[1]) ELSE cycles[i]
          /\ tx_state' = tx_state
      BY <1>1, BackendWork
    <2>2. cycles' = <<>> <=> cycles = <<>>
      BY <1>0, <2>1
    <2>3. CASE cycles = <<>>
      <3>1. Pending = <<>> /\ Pending' = <<>>
        BY <2>2, <2>3 DEF Pending
      <3>2. QED
        BY <2>1, <2>2, <3>1 DEF Rest
    <2>4. CASE cycles # <<>>
      <3> DEFINE c == cycles[1]
                 d == cycles'[1]
      <3>1. c \in Cycle /\ d = Replied(f, c)
        BY <1>0, <2>1, <2>4
      <3>2. d.mutations = CASE f.tag \in {"1", "2", "3"} -> Rest(c.mutations)
                            [] f.tag = "E" -> <<>>
                            [] OTHER -> c.mutations
        BY <3>1, RepliedIs
      <3>3. Pending = c.mutations /\ Pending' = d.mutations
        BY <2>2, <2>4 DEF Pending
      <3> HIDE DEF c, d
      <3>4. QED
        BY <2>1, <2>2, <3>2, <3>3
    <2>5. QED
      BY <2>3, <2>4
  <1>2. CASE f.tag \notin {"1", "2", "3", "E", "Z"}
    <2>1. UNCHANGED <<prepared, portals, confirmed_prepared, confirmed_portals, reliable>>
      BY <1>2 DEF Backend, BackendParameterStatus, BackendAcknowledge,
           BackendRowDescription, BackendDataRow, BackendCommandComplete,
           BackendPortalSuspended, BackendError, BackendReady, BackendOther
    <2>2. QED
      BY <1>1, <1>2, <2>1
  <1>3. CASE f.tag \in {"1", "2", "3"}
    <2> SUFFICES ASSUME Pending # <<>>, Acknowledges(f.tag, Pending[1])
                 PROVE  /\ UNCHANGED <<prepared, portals, reliable>>
                        /\ Confirmed' = Effect(Pending[1], Confirmed) /\ Pending' = Tail(Pending)
      BY <1>1, <1>3
    <2>1. BackendAcknowledge(f)
      BY <1>3 DEF Backend, BackendParameterStatus, BackendAcknowledge,
           BackendRowDescription, BackendDataRow, BackendCommandComplete,
           BackendPortalSuspended, BackendError, BackendReady, BackendOther
    <2>2. Unacknowledged = Pending
      BY <1>0 DEF Unacknowledged, Pending
    <2> DEFINE m == Head(Pending)
    <2>3. m = Pending[1]
      BY PendingType
    <2>4. /\ reliable' = (reliable /\ Acknowledges(f.tag, m))
          /\ confirmed_prepared' = IF Acknowledges(f.tag, m) /\ OnStatements(m)
                                   THEN Set(confirmed_prepared, m.name, m.stmt)
                                   ELSE confirmed_prepared
          /\ confirmed_portals' = IF Acknowledges(f.tag, m) /\ ~OnStatements(m)
                                  THEN Set(confirmed_portals, m.name, m.stmt)
                                  ELSE confirmed_portals
          /\ UNCHANGED <<prepared, portals>>
      BY <2>1, <2>2 DEF BackendAcknowledge
    <2> HIDE DEF m
    <2>5. /\ confirmed_prepared' = Effect(m, Confirmed).stmts
          /\ confirmed_portals' = Effect(m, Confirmed).portals
      BY <2>3, <2>4 DEF Effect, Confirmed
    <2>6. Confirmed' = Effect(m, Confirmed)
      BY <2>5 DEF Effect, Confirmed
    <2>7. reliable' = reliable
      <3>1. reliable \in BOOLEAN
        BY DEF TypeOK
      <3>2. QED
        BY <2>3, <2>4, <3>1
    <2>8. Pending' = Tail(Pending)
      BY <1>1, <1>3 DEF Rest
    <2>9. QED
      BY <2>3, <2>4, <2>6, <2>7, <2>8
  <1>4. CASE f.tag = "E"
    <2>1. BackendError(f)
      BY <1>4 DEF Backend, BackendParameterStatus, BackendAcknowledge,
           BackendRowDescription, BackendDataRow, BackendCommandComplete,
           BackendPortalSuspended, BackendError, BackendReady, BackendOther
    <2>2. QED
      BY <1>1, <1>4, <2>1 DEF BackendError
  <1>5. CASE f.tag = "Z"
    <2>1. BackendReady(f) /\ cycles' = Rest(cycles)
      BY <1>5, BackendWork
    <2>2. Rest(cycles) = <<>>
      <3>1. CASE cycles = <<>>
        BY <3>1 DEF Rest
      <3>2. CASE cycles # <<>>
        BY <1>0, <3>2, Dequeued DEF Rest
      <3>3. QED
        BY <3>1, <3>2
    <2>3. NoStatements = NoPortals
      BY DEF NoStatements, NoPortals
    <2>4. QED
      BY <1>5, <2>1, <2>2, <2>3 DEF BackendReady, Trust, Speculation, Pending
  <1>6. QED
    BY <1>1, <1>2, <1>3, <1>4, <1>5

LEMMA ServerMapped ==
    ASSUME Lockstep, LockInv, Settled, ServerStep, NEW b, NEW V, Viewed(b, V)
    PROVE  Settled' /\ \E c, W : Viewed(c, W)'
  <1> DEFINE r == replies[1]
             f == r.frame
             j == Tail(replies)
  <1>1. /\ conn = "open" /\ replies # <<>> /\ Backend(Head(replies).frame)
        /\ replies' = j /\ srv' = srv
    BY ServerReads
  <1>2. TypeOK /\ Connected /\ InTurn /\ Counted
    BY <1>1 DEF LockInv, AlignedInv
  <1>3. /\ Head(replies) = r /\ r \in ServerReply /\ 1 \in 1 .. Len(replies) /\ j \in Seq(ServerReply)
        /\ \A k \in 1 .. Len(j) : k + 1 \in 1 .. Len(replies) /\ j[k] = replies[k + 1]
        /\ j = <<>> <=> Len(replies) = 1
        /\ j # <<>> => j[Len(j)] = replies[Len(replies)]
        /\ Len(replies) \in Nat /\ Len(replies) = Len(j) + 1 /\ Len(j) \in Nat
        /\ replies \in Seq(ServerReply) /\ srv \in ServerState
    BY <1>1, <1>2, Dequeued DEF Connected
  <1>4. f \in ServerFrames /\ Backend(f) /\ Len(cycles) <= 1
    BY <1>1, <1>2, <1>3, ReplyFields DEF InTurn
  <1>5. PICK ms : ms = Pending
    OBVIOUS
  <1>6. /\ b \in Nat /\ V \in [Nat -> View] /\ V[b] = Confirmed
        /\ ms \in Seq(Mutation) /\ Len(ms) \in Nat
        /\ \A i \in 1 .. Len(ms) : V[b + i] = Effect(ms[i], V[b + (i - 1)])
        /\ Acked(replies, ms, b, V)
        /\ ~ReadyComing => srv.acks = Until(replies, b) /\ Agree(srv, V[srv.acks])
        /\ ~ReadyComing /\ ~srv.skip => srv.acks = b + Len(ms)
    BY <1>2, <1>5, PendingType DEF Viewed
  <1>7. /\ Agree(r, V[r.acks])
        /\ ~IsAck(r) => r.acks = b
        /\ IsAck(r) => ms # <<>> /\ Len(ms) >= 1 /\ Acknowledges(f.tag, ms[1])
    BY <1>1, <1>3, <1>6, AckedFront
  <1>8. ASSUME f.tag # "Z"
        PROVE  /\ ReadyComing' <=> ReadyComing
               /\ ReadyComing => j[Len(j)] = replies[Len(replies)]
    <2>1. CASE j = <<>>
      BY <1>1, <1>3, <1>8, <2>1 DEF ReadyComing
    <2>2. CASE j # <<>>
      BY <1>1, <1>3, <2>2 DEF ReadyComing
    <2>3. QED
      BY <2>1, <2>2
  <1>9. ASSUME f.tag # "Z" PROVE Failing'
    <2> SUFFICES ASSUME NEW k \in 1 .. Len(j), j[k].frame.tag = "E"
                 PROVE  /\ ReadyComing' \/ srv'.skip
                        /\ \A i \in 1 .. Len(j) : i > k => j[i].frame.tag = "Z"
      BY <1>1 DEF Failing
    <2>1. k + 1 \in 1 .. Len(replies) /\ replies[k + 1].frame.tag = "E"
      BY <1>3
    <2>2. /\ ReadyComing \/ srv.skip
          /\ \A i \in 1 .. Len(replies) : i > k + 1 => replies[i].frame.tag = "Z"
      BY <2>1 DEF Failing, Settled
    <2>3. ASSUME NEW i \in 1 .. Len(j), i > k PROVE j[i].frame.tag = "Z"
      <3>1. i + 1 \in 1 .. Len(replies) /\ j[i] = replies[i + 1] /\ i + 1 > k + 1
        BY <1>3, <2>3
      <3>2. QED
        BY <2>2, <3>1
    <2>4. QED
      BY <1>1, <1>8, <1>9, <2>2, <2>3
  <1>10. /\ reliable /\ Plain(srv.stmts) /\ Plain(srv.portals)
         /\ ~ReadyComing /\ ~srv.skip => Covers(prepared, srv.stmts)
         /\ ReadyComing => LET z == replies[Len(replies)] IN
                           /\ srv.acks = 0 /\ ~srv.skip /\ srv.tx = z.tx
                           /\ srv.stmts = z.stmts /\ srv.portals = z.portals
         /\ (ReadyComing \/ cycles = <<>>) /\ srv.tx = "I" => srv.portals = NoPortals
         /\ cycles = <<>> => portals = confirmed_portals
         /\ cycles = <<>> /\ ~ReadyComing /\ tx_state = "Idle" => confirmed_portals = NoPortals
    BY DEF Settled
  <1>11. CASE f.tag \notin {"1", "2", "3", "E", "Z"}
    <2>1. /\ UNCHANGED <<prepared, portals, confirmed_prepared, confirmed_portals, reliable>>
          /\ Pending' = ms /\ (cycles' = <<>> <=> cycles = <<>>) /\ tx_state' = tx_state
      BY <1>2, <1>4, <1>5, <1>11, BackendMaps
    <2>2. Acked(j, ms, b, V) /\ Until(j, b) = Until(replies, b)
      BY <1>1, <1>3, <1>6, <1>11, AckedTail DEF IsAck, Passes
    <2>3. Confirmed' = Confirmed
      BY <2>1 DEF Confirmed
    <2> HIDE DEF j
    <2>4. Viewed(b, V)'
      BY <1>1, <1>6, <1>8, <1>11, <2>1, <2>2, <2>3 DEF Viewed
    <2>5. Settled'
      BY <1>1, <1>8, <1>9, <1>10, <1>11, <2>1 DEF Settled
    <2>6. QED
      BY <2>4, <2>5
  <1>12. CASE f.tag \in {"1", "2", "3"}
    <2>0. IsAck(r) /\ ms # <<>> /\ Len(ms) >= 1 /\ Acknowledges(f.tag, ms[1])
      BY <1>7, <1>12 DEF IsAck
    <2>1. /\ UNCHANGED <<prepared, portals, reliable>>
          /\ Confirmed' = Effect(ms[1], Confirmed) /\ Pending' = Tail(ms)
          /\ (cycles' = <<>> <=> cycles = <<>>) /\ tx_state' = tx_state
      BY <1>2, <1>4, <1>5, <1>12, <2>0, BackendMaps
    <2>2. cycles # <<>>
      BY <1>5, <2>0 DEF Pending
    <2>3. PICK ns : ns = Tail(ms)
      OBVIOUS
    <2>4. /\ ns \in Seq(Mutation) /\ Len(ns) \in Nat /\ Len(ms) = Len(ns) + 1
          /\ \A i \in 1 .. Len(ns) : i + 1 \in 1 .. Len(ms) /\ ns[i] = ms[i + 1]
          /\ 1 \in 1 .. Len(ms)
      <3> DEFINE t == Tail(ms)
      <3>1. /\ t \in Seq(Mutation) /\ Len(t) \in Nat /\ Len(ms) = Len(t) + 1
            /\ \A i \in 1 .. Len(t) : i + 1 \in 1 .. Len(ms) /\ t[i] = ms[i + 1]
            /\ 1 \in 1 .. Len(ms)
        BY <1>6, <2>0, Dequeued
      <3>2. ns = t
        BY <2>3
      <3> HIDE DEF t
      <3>3. QED
        BY <3>1, <3>2
    <2>5. V[b + 1] = Confirmed'
      <3>1. V[b + 1] = Effect(ms[1], V[b + (1 - 1)])
        BY <1>6, <2>4
      <3>2. b + (1 - 1) = b
        BY <1>6
      <3>3. QED
        BY <1>6, <2>1, <3>1, <3>2
    <2>6. \A i \in 1 .. Len(ns) : V[(b + 1) + i] = Effect(ns[i], V[(b + 1) + (i - 1)])
      <3> SUFFICES ASSUME NEW i \in 1 .. Len(ns)
                   PROVE  V[(b + 1) + i] = Effect(ns[i], V[(b + 1) + (i - 1)])
        OBVIOUS
      <3>1. V[b + (i + 1)] = Effect(ms[i + 1], V[b + ((i + 1) - 1)]) /\ ns[i] = ms[i + 1]
        BY <1>6, <2>4
      <3>2. \A x \in Nat, y \in Int : x + (y + 1) = (x + 1) + y /\ x + ((y + 1) - 1) = (x + 1) + (y - 1)
        OBVIOUS
      <3>3. QED
        BY <1>6, <3>1, <3>2
    <2>7. Acked(j, ns, b + 1, V) /\ Until(j, b + 1) = Until(replies, b)
      <3>1. PICK n \in Nat : n = b + 1
        BY <1>6
      <3>2. replies # <<>> /\ IsAck(replies[1])
        BY <1>1, <2>0
      <3>3. PICK q : q = replies
        OBVIOUS
      <3>4. q \in Seq(ServerReply) /\ q # <<>> /\ IsAck(q[1]) /\ Acked(q, ms, b, V)
        BY <1>3, <1>6, <3>2, <3>3
      <3>5. ms \in Seq(Mutation) /\ ns \in Seq(Mutation) /\ b \in Nat
        BY <1>6, <2>4
      <3>6. Passes(q[1], ms, b, ns, n)
        BY <2>3, <3>1, <3>4 DEF Passes
      <3>7. Acked(Tail(q), ns, n, V) /\ Until(Tail(q), n) = Until(q, b)
        BY ONLY <3>1, <3>4, <3>5, <3>6, AckedTail
      <3>8. QED
        BY <3>1, <3>3, <3>7
    <2>8. b + Len(ms) = (b + 1) + Len(ns) /\ b + 1 \in Nat
      BY <1>6, <2>4
    <2> HIDE DEF j
    <2>9. Pending' = ns
      BY <2>1, <2>3
    <2>10. Viewed(b + 1, V)'
      BY <1>1, <1>6, <1>8, <1>12, <2>5, <2>6, <2>7, <2>8, <2>9 DEF Viewed
    <2>11. Settled'
      BY <1>1, <1>8, <1>9, <1>10, <1>12, <2>1, <2>2 DEF Settled
    <2>12. QED
      BY <2>10, <2>11
  <1>13. CASE f.tag = "E"
    <2>1. /\ prepared' = confirmed_prepared /\ portals' = confirmed_portals
          /\ UNCHANGED <<confirmed_prepared, confirmed_portals, reliable>>
          /\ Pending' = <<>> /\ (cycles' = <<>> <=> cycles = <<>>) /\ tx_state' = tx_state
      BY <1>2, <1>4, <1>13, BackendMaps
    <2>2. ReadyComing \/ srv.skip
      BY <1>3, <1>13 DEF Failing, Settled
    <2>3. \A k \in 1 .. Len(j) : k = 1 /\ Len(j) = 1 /\ j[k].frame.tag = "Z"
      <3> SUFFICES ASSUME NEW k \in 1 .. Len(j)
                   PROVE  k = 1 /\ Len(j) = 1 /\ j[k].frame.tag = "Z"
        OBVIOUS
      <3>1. \A i \in 1 .. Len(replies) : i > 1 => replies[i].frame.tag = "Z" /\ i = Len(replies)
        BY <1>2, <1>3, <1>13 DEF Failing, Settled, InTurn
      <3>2. /\ k + 1 \in 1 .. Len(replies) /\ k + 1 > 1 /\ j[k] = replies[k + 1]
            /\ 2 \in 1 .. Len(replies) /\ 2 > 1
        BY <1>3
      <3>3. k + 1 = Len(replies) /\ 2 = Len(replies) /\ j[k].frame.tag = "Z"
        BY <3>1, <3>2
      <3> HIDE DEF j
      <3>4. k = 1 /\ Len(j) = 1
        BY <1>3, <3>3
      <3>5. QED
        BY <3>3, <3>4
    <2>4. ~IsAck(r) /\ r.acks = b
      BY <1>7, <1>13 DEF IsAck
    <2>5. Acked(j, ms, b, V) /\ Until(j, b) = Until(replies, b)
      BY <1>1, <1>3, <1>6, <2>4, AckedTail DEF Passes
    <2>6. \A k \in 1 .. Len(j) : j[k].acks = b /\ Agree(j[k], V[b]) /\ ~IsAck(j[k])
      <3> SUFFICES ASSUME NEW k \in 1 .. Len(j)
                   PROVE  j[k].acks = b /\ Agree(j[k], V[b]) /\ ~IsAck(j[k])
        OBVIOUS
      <3>1. k = 1 /\ ~IsAck(j[k])
        BY <2>3 DEF IsAck
      <3>2. j # <<>>
        BY <1>3
      <3>3. QED
        BY <1>3, <1>6, <2>5, <3>1, <3>2, AckedFront
    <2>7. \A k \in 1 .. Len(j) : k = 1
      BY <2>3
    <2>8. ReadyComing' <=> ReadyComing
      BY <1>8, <1>13
    <2>9. ~ReadyComing => j = <<>> /\ srv.acks = b
      <3> SUFFICES ASSUME ~ReadyComing PROVE j = <<>> /\ srv.acks = b
        OBVIOUS
      <3>1. j = <<>>
        <4> SUFFICES ASSUME j # <<>> PROVE FALSE
          OBVIOUS
        <4>1. Len(j) \in 1 .. Len(j)
          BY <1>3
        <4>2. QED
          BY <1>1, <1>3, <2>3, <4>1 DEF ReadyComing
      <3>2. QED
        BY <1>6, <2>5, <3>1 DEF Until
    <2>10. Acked(j, <<>>, b, V)
      <3> DEFINE ns == <<>>
      <3>1. ns \in Seq(Mutation) /\ Len(ns) = 0 /\ b \in b .. b + 0 /\ b = b + 0
        BY <1>6
      <3> HIDE DEF ns, j
      <3>2. Acked(j, ns, b, V)
        BY <1>6, <2>6, <2>7, <3>1 DEF Acked, Before
      <3>3. QED
        BY <3>2 DEF ns
    <2>11. Confirmed' = Confirmed
      BY <2>1 DEF Confirmed
    <2> HIDE DEF j
    <2>12. Viewed(b, V)'
      <3>1. \A i \in 1 .. Len(Pending') : FALSE
        BY <2>1
      <3>2. ~ReadyComing => srv.acks = Until(j, b) /\ Agree(srv, V[srv.acks])
        BY <1>6, <2>9 DEF Until
      <3>3. QED
        BY <1>1, <1>6, <2>1, <2>2, <2>8, <2>10, <2>11, <3>1, <3>2 DEF Viewed
    <2>13. Settled'
      BY <1>1, <1>8, <1>9, <1>10, <1>13, <2>1, <2>2 DEF Settled
    <2>14. QED
      BY <2>12, <2>13
  <1>14. CASE f.tag = "Z"
    <2>1. Len(replies) = 1
      BY <1>2, <1>3, <1>14 DEF InTurn
    <2>2. ReadyComing /\ replies[Len(replies)] = r
      BY <1>1, <1>14, <2>1 DEF ReadyComing
    <2>3. replies' = <<>>
      BY <1>1, <1>3, <2>1
    <2>4. /\ cycles' = <<>> /\ Pending' = <<>> /\ tx_state' = StatusOf(f) /\ reliable'
          /\ prepared' = confirmed_prepared /\ confirmed_prepared' = confirmed_prepared
          /\ confirmed_portals' = IF StatusOf(f) = "Idle" THEN NoPortals ELSE confirmed_portals
          /\ portals' = confirmed_portals'
      BY <1>2, <1>4, <1>14, BackendMaps
    <2>5. /\ srv.acks = 0 /\ ~srv.skip /\ srv.tx = r.tx
          /\ srv.stmts = r.stmts /\ srv.portals = r.portals
          /\ srv.tx = "I" => srv.portals = NoPortals
      BY <1>10, <2>2
    <2>6. r.acks = b /\ Agree(r, V[b]) /\ V[b] \in View
      BY <1>6, <1>7, <1>14 DEF IsAck
    <2>7. StatusOf(f) = "Idle" <=> srv.tx = "I"
      <3>1. f.status \in {"I", "T", "E"}
        BY <1>4, <1>14, BackendFields DEF ServerFrames
      <3>2. srv.tx = f.status
        BY <1>2, <2>2 DEF Counted
      <3>3. QED
        BY <3>1, <3>2 DEF StatusOf
    <2>8. Covers(confirmed_prepared', srv.stmts) /\ srv.portals = confirmed_portals'
      <3>1. V[b].stmts = confirmed_prepared /\ V[b].portals = confirmed_portals
        BY <1>6 DEF Confirmed
      <3>2. Covers(confirmed_prepared, srv.stmts)
        BY <2>5, <2>6, <3>1 DEF Agree
      <3>3. CASE srv.tx = "I"
        BY <2>4, <2>5, <2>7, <3>2, <3>3
      <3>4. CASE srv.tx # "I"
        BY <2>4, <2>5, <2>6, <2>7, <3>1, <3>2, <3>4 DEF Agree
      <3>5. QED
        BY <3>3, <3>4
    <2> DEFINE v == Confirmed'
    <2>9. Covers(v.stmts, srv.stmts) /\ v.portals = srv.portals /\ v \in View
      <3>1. v.stmts = confirmed_prepared' /\ v.portals = confirmed_portals'
        BY DEF Confirmed
      <3>2. V[b].stmts = confirmed_prepared /\ V[b].portals = confirmed_portals
        BY <1>6 DEF Confirmed
      <3>3. /\ confirmed_prepared' \in [Name -> Statement]
            /\ confirmed_portals' \in [Name -> Statement]
            /\ \A n \in Name \ {Unnamed} : confirmed_portals'[n] = NoSql
        BY <2>4, <2>6, <3>2 DEF View, NoPortals, Statement
      <3>4. v = [stmts |-> confirmed_prepared', portals |-> confirmed_portals']
        BY DEF Confirmed
      <3> HIDE DEF v
      <3>5. v \in View
        BY <3>3, <3>4 DEF View
      <3>6. QED
        BY <2>8, <3>1, <3>5
    <2>10. PICK W \in [Nat -> View] : W[0] = v
      <3> HIDE DEF v
      <3>1. [V EXCEPT ![0] = v] \in [Nat -> View] /\ [V EXCEPT ![0] = v][0] = v
        BY <1>6, <2>9
      <3>2. QED
        BY <3>1
    <2>11. Agree(srv, W[0])
      <3>1. \A n \in Name : srv.portals[n] \in {NoSql, v.portals[n]}
        BY <2>9
      <3>2. QED
        BY <2>9, <2>10, <3>1 DEF Agree
    <2>12. Acked(replies', <<>>, 0, W) /\ Until(replies', 0) = 0 /\ ~ReadyComing'
      BY <2>3 DEF Acked, Until, ReadyComing
    <2>13. Viewed(0, W)'
      <3>1. \A i \in 1 .. Len(Pending') : FALSE
        BY <2>4
      <3>2. Len(Pending') = 0 /\ 0 = 0 + 0
        BY <2>4
      <3>3. srv'.acks = Until(replies', 0) /\ Agree(srv', W[srv'.acks])
        BY <1>1, <2>5, <2>11, <2>12
      <3>4. srv'.acks = 0 + Len(Pending')
        BY <1>1, <2>5, <3>2
      <3>5. 0 \in Nat /\ W[0] = Confirmed'
        BY <2>10
      <3>6. /\ \A i \in 1 .. Len(Pending') : W[0 + i] = Effect(Pending'[i], W[0 + (i - 1)])
            /\ Acked(replies', Pending', 0, W)
        BY <2>4, <2>12, <3>1
      <3>7. QED
        BY <2>10, <3>3, <3>4, <3>5, <3>6 DEF Viewed
    <2>14. Failing'
      BY <2>3 DEF Failing
    <2>15. Settled'
      BY <1>1, <1>10, <2>4, <2>5, <2>7, <2>8, <2>12, <2>14 DEF Settled
    <2>16. QED
      BY <2>13, <2>15
  <1>15. QED
    BY <1>11, <1>12, <1>13, <1>14

LEMMA MapInit == SessionInit => MapInv
  <1> SUFFICES ASSUME SessionInit PROVE MapInv
    OBVIOUS
  <1> DEFINE q == Welcome(NewServer, Startup.application_name)
             v == [stmts |-> NoPortals, portals |-> NoPortals]
             V == [n \in Nat |-> v]
  <1>1. /\ q \in Seq(ServerReply) /\ Len(q) = 2
        /\ q[1].frame.tag = "S" /\ q[2].frame.tag = "Z"
        /\ \A k \in 1 .. 2 : /\ q[k].tx = "I" /\ q[k].acks = 0
                             /\ q[k].stmts = NewServer.stmts /\ q[k].portals = NewServer.portals
    BY WelcomeIs
  <1>2. replies = q /\ srv = NewServer
    BY DEF SessionInit
  <1> HIDE DEF q
  <1>3. NewServer.stmts = NoPortals /\ NewServer.portals = NoPortals
    BY DEF NewServer, NoPortals
  <1>4. NewServer.tx = "I" /\ NewServer.acks = 0 /\ NewServer.skip = FALSE
    BY DEF NewServer
  <1>5. /\ cycles = <<>> /\ tx_state = "Idle" /\ reliable
        /\ portals = NoPortals /\ confirmed_prepared = NoPortals /\ confirmed_portals = NoPortals
    BY DEF SessionInit, ProxyInit, Init, NoStatements, NoPortals
  <1>6. Confirmed = v /\ Pending = <<>>
    BY <1>5 DEF Confirmed, Pending
  <1>7. v \in View /\ v.stmts = NoPortals /\ v.portals = NoPortals
    BY DEF View, NoPortals, Statement
  <1> HIDE DEF v
  <1>8. V \in [Nat -> View] /\ V[0] = v
    BY <1>7
  <1> HIDE DEF V
  <1>9. ASSUME NEW k \in 1 .. Len(q)
        PROVE  /\ q[k].acks = 0 /\ q[k].tx = "I" /\ q[k].stmts = NoPortals
               /\ q[k].portals = NoPortals /\ q[k].frame.tag \in {"S", "Z"}
    <2>1. k \in 1 .. 2 /\ (k = 1 \/ k = 2)
      BY <1>1
    <2>2. QED
      BY <1>1, <1>3, <2>1
  <1>10. Acked(q, <<>>, 0, V)
    <2> SUFFICES ASSUME NEW k \in 1 .. Len(q)
                 PROVE  /\ q[k].acks \in 0 .. 0 + Len(<<>>)
                        /\ q[k].acks = Before(q, k, 0) + (IF IsAck(q[k]) THEN 1 ELSE 0)
                        /\ Agree(q[k], V[q[k].acks])
                        /\ ~IsAck(q[k])
                        /\ \A i \in 1 .. k : q[i].acks <= q[k].acks
      BY DEF Acked
    <2>1. ~IsAck(q[k]) /\ q[k].acks = 0
      BY <1>9 DEF IsAck
    <2>2. Agree(q[k], V[0])
      BY <1>7, <1>8, <1>9 DEF Agree, Covers
    <2>3. Before(q, k, 0) = 0
      <3>1. k # 1 => k - 1 \in 1 .. Len(q)
        BY <1>1
      <3>2. QED
        BY <1>9, <3>1 DEF Before
    <2>4. \A i \in 1 .. k : q[i].acks = 0
      <3>1. \A i \in 1 .. k : i \in 1 .. Len(q)
        BY <1>1
      <3>2. QED
        BY <1>9, <3>1
    <2>5. QED
      BY <2>1, <2>2, <2>3, <2>4
  <1>11. ReadyComing /\ replies[Len(replies)] = q[2]
    <2>1. Len(q) # 0
      BY <1>1
    <2>2. q # <<>>
      BY <2>1
    <2>3. QED
      BY <1>1, <1>2, <2>2 DEF ReadyComing
  <1>12. Viewed(0, V)
    <2>1. \A j \in 1 .. Len(Pending) : FALSE
      BY <1>6
    <2>2. Acked(replies, Pending, 0, V) /\ V[0] = Confirmed
      BY <1>2, <1>6, <1>8, <1>10
    <2>3. QED
      BY <1>8, <1>11, <2>1, <2>2 DEF Viewed
  <1>13. Failing
    BY <1>2, <1>9 DEF Failing
  <1>14. /\ q[2].tx = "I" /\ q[2].stmts = NoPortals /\ q[2].portals = NoPortals
    <2>1. 2 \in 1 .. Len(q)
      BY <1>1
    <2>2. QED
      BY <1>9, <2>1
  <1>15. Settled
    BY <1>2, <1>3, <1>4, <1>5, <1>11, <1>13, <1>14, PlainSet DEF Settled
  <1>16. QED
    BY <1>12, <1>15, LockInit DEF MapInv

LEMMA MapKept ==
    ASSUME Lockstep, UnnamedPortals, MapInv, [SessionNext]_sessionVars
    PROVE  MapInv'
  <1>1. LockInv /\ LockInv'
    BY LockKept DEF MapInv
  <1>2. CASE UNCHANGED sessionVars
    <2>1. UNCHANGED proxyVars /\ UNCHANGED <<srv, replies>>
      BY <1>2 DEF sessionVars
    <2>2. UNCHANGED stateVars /\ UNCHANGED conn
      BY <2>1 DEF proxyVars, relayVars
    <2>3. UNCHANGED <<cycles, tx_state, prepared, portals, confirmed_prepared,
                      confirmed_portals, reliable>>
      BY <2>2 DEF stateVars
    <2>4. (ReadyComing' <=> ReadyComing) /\ Pending' = Pending /\ Confirmed' = Confirmed
          /\ (Failing => Failing')
      BY <2>1, <2>3 DEF ReadyComing, Pending, Confirmed, Failing
    <2>5. Settled => Settled'
      BY <2>1, <2>3, <2>4 DEF Settled
    <2>6. \A b, V : Viewed(b, V) => Viewed(b, V)'
      BY <2>1, <2>3, <2>4 DEF Viewed
    <2>7. QED
      BY <1>1, <2>2, <2>5, <2>6 DEF MapInv
  <1>3. ASSUME NEW f \in ClientFrames, ClientStep(f) PROVE MapInv'
    <2> SUFFICES ASSUME conn' = "open" PROVE Settled' /\ \E b, V : Viewed(b, V)'
      BY <1>1 DEF MapInv
    <2>1. conn = "open"
      BY <1>1, <1>3, ClientTurn DEF Lockstep, LockInv
    <2>2. PICK b, V : Settled /\ Viewed(b, V)
      BY <2>1 DEF MapInv
    <2>3. f.tag \in {"P", "B", "C", "E", "S", "Q", "H"}
      BY <1>1, <1>3, ClientAlone
    <2>4. QED
      BY <1>1, <1>3, <2>2, <2>3, WorkMapped, SyncMapped, QueryMapped
  <1>4. CASE ServerStep
    <2>1. conn = "open"
      BY <1>4, ServerReads
    <2>2. PICK b, V : Settled /\ Viewed(b, V)
      BY <2>1 DEF MapInv
    <2>3. Settled' /\ \E c, W : Viewed(c, W)'
      BY <1>1, <1>4, <2>2, ServerMapped
    <2>4. QED
      BY <1>1, <2>3 DEF MapInv
  <1>5. CASE Break
    <2>1. conn' # "open"
      BY <1>5 DEF Break, ClientEof, UpstreamEof, Failure, Return, Unrelayed
    <2>2. QED
      BY <1>1, <2>1 DEF MapInv
  <1>6. QED
    BY <1>2, <1>3, <1>4, <1>5 DEF SessionNext, Finished

LEMMA MapInvariant ==
    ASSUME Lockstep, UnnamedPortals
    PROVE  SessionSpec => []MapInv
  <1>1. MapInv /\ [SessionNext]_sessionVars => MapInv'
    BY MapKept
  <1>2. QED
    BY <1>1, MapInit, PTL DEF SessionSpec

(***************************************************************************)
(* Once every cycle is answered the proxy's picture is the server's:       *)
(* transaction status, named statements and portals agree, the unnamed     *)
(* statement agrees if the server has one, and the picture is marked       *)
(* reliable, for every client that waits for ReadyForQuery and binds the   *)
(* unnamed portal, whatever it parses, binds, closes, executes and         *)
(* queries, whatever fails, a Parse included, and whatever is skipped.     *)
(***************************************************************************)
THEOREM PictureAgreesCorrect ==
    ASSUME Lockstep, UnnamedPortals
    PROVE  SessionSpec => []PictureAgrees
  <1>1. ASSUME MapInv PROVE PictureAgrees
    <2> SUFFICES ASSUME conn = "open", cycles = <<>>, replies = <<>>
                 PROVE  /\ reliable /\ tx_state = StatusName(srv.tx)
                        /\ \A n \in Name \ {Unnamed} : srv.stmts[n] = prepared[n]
                        /\ srv.stmts[Unnamed] \in {NoSql, prepared[Unnamed]}
                        /\ portals = srv.portals
      BY DEF PictureAgrees
    <2>1. PICK b, V : LockInv /\ Settled /\ Viewed(b, V)
      BY <1>1 DEF MapInv
    <2>2. ~ReadyComing /\ ~NewestOpen
      BY DEF ReadyComing, NewestOpen
    <2>3. Connected /\ Counted /\ prepared \in [Name -> Statement]
      BY <2>1 DEF LockInv, AlignedInv, TypeOK
    <2>4. ~srv.skip
      BY <2>2, <2>3 DEF Connected, InStep, Lockstep
    <2>5. tx_state = StatusName(srv.tx)
      BY <2>2, <2>3 DEF Counted
    <2>6. /\ reliable /\ Covers(prepared, srv.stmts) /\ portals = confirmed_portals
          /\ srv.tx = "I" => srv.portals = NoPortals
          /\ tx_state = "Idle" => confirmed_portals = NoPortals
      BY <2>1, <2>2, <2>4 DEF Settled
    <2>7. Agree(srv, V[b]) /\ V[b] = Confirmed
      BY <2>1, <2>2 DEF Viewed, Until
    <2>8. srv.portals = confirmed_portals
      <3>1. CASE srv.tx = "I"
        BY <2>5, <2>6, <3>1 DEF StatusName
      <3>2. CASE srv.tx # "I"
        BY <2>7, <3>2 DEF Agree, Confirmed
      <3>3. QED
        BY <3>1, <3>2
    <2>9. /\ \A n \in Name \ {Unnamed} : srv.stmts[n] = prepared[n]
          /\ srv.stmts[Unnamed] \in {NoSql, prepared[Unnamed]}
      BY <2>3, <2>6, CoversIs, NameAssumption
    <2>10. QED
      BY <2>5, <2>6, <2>8, <2>9
  <1>2. QED
    BY <1>1, MapInvariant, PTL

(***************************************************************************)
(* A Bind that the server accepts names the same statement to the proxy,   *)
(* for the same clients: the speculative map `prepared', which an error    *)
(* and a ReadyForQuery replace by the confirmed one, holds what the        *)
(* server's own map does whenever a Bind is relayed and not skipped.       *)
(***************************************************************************)
THEOREM BindsResolvedCorrect ==
    ASSUME Lockstep, UnnamedPortals
    PROVE  SessionSpec => BindsResolved
  <1>1. ASSUME MapInv, SessionNext, ~(UNCHANGED sessionVars), ~Handled, to_server' # <<>>,
               to_server'[1].tag = "B", ~srv.skip
        PROVE  srv.stmts[to_server'[1].stmt] \in {NoSql, prepared[to_server'[1].stmt]}
    <2>1. LockInv /\ AlignedInv /\ Orderly
      BY <1>1 DEF MapInv, LockInv, Lockstep
    <2>2. ASSUME NEW f \in ClientFrames, ClientStep(f)
          PROVE  srv.stmts[to_server'[1].stmt] \in {NoSql, prepared[to_server'[1].stmt]}
      <3>1. conn = "open" /\ to_server' \in {<<>>, <<f>>}
        BY <2>2, ClientWrites DEF ClientStep, Lockstep, Orderly
      <3>2. Settled /\ InTurn
        BY <1>1, <3>1 DEF MapInv, LockInv
      <3>3. f.tag = "B" /\ to_server'[1] = f
        BY <1>1, <3>1
      <3>4. awaited = 0
        <4>1. CASE batch
          BY <3>2, <4>1 DEF InTurn
        <4>2. CASE ~batch
          BY <2>2, <3>3, <4>2 DEF ClientStep, MaySend, StartsCycle, Lockstep
        <4>3. QED
          BY <4>1, <4>2
      <3>5. ~ReadyComing
        BY <3>2, <3>4 DEF InTurn
      <3>6. Covers(prepared, srv.stmts)
        BY <1>1, <3>2, <3>5 DEF Settled
      <3>7. f.stmt \in Name /\ prepared \in [Name -> Statement]
        BY <2>1, <3>3, ClientFields DEF AlignedInv, TypeOK
      <3>8. QED
        BY <3>3, <3>6, <3>7, CoversIs
    <2>3. ~ServerStep
      <3> SUFFICES ASSUME ServerStep PROVE FALSE
        OBVIOUS
      <3>1. conn = "open" /\ replies # <<>> /\ replies' = Tail(replies)
        BY ServerReads
      <3>2. replies \in Seq(ServerReply)
        BY <2>1, <3>1 DEF AlignedInv, Connected
      <3>3. Len(replies') < Len(replies)
        BY <3>1, <3>2, Dequeued
      <3>4. QED
        BY <1>1, <3>3 DEF Handled
    <2>4. ~Break
      BY <1>1 DEF Break, ClientEof, UpstreamEof, Failure, Return, Unrelayed
    <2>5. ~Finished
      BY <1>1 DEF Finished
    <2>6. QED
      BY <1>1, <2>2, <2>3, <2>4, <2>5 DEF SessionNext
  <1>2. MapInv /\ [SessionNext]_sessionVars
          => [~Handled /\ to_server' # <<>> /\ to_server'[1].tag = "B" /\ ~srv.skip =>
                srv.stmts[to_server'[1].stmt] \in {NoSql, prepared[to_server'[1].stmt]}]_sessionVars
    BY <1>1
  <1>3. QED
    BY <1>2, MapInvariant, PTL DEF SessionSpec, BindsResolved
-----------------------------------------------------------------------------
(***************************************************************************)
(* Part 7.  Statements.  The client's arm files the statement of an        *)
(* Execute or a Query, the server's arm takes it for the one a row or a    *)
(* CommandComplete is about, and at ReadyForQuery judges the cycle by the  *)
(* last statement, command tag and error it saw.  A mark is what has been  *)
(* seen of a cycle at one point of the stream of replies.                  *)
(***************************************************************************)
OneStatement == \A text \in Sql : StatementsOf(text) = <<text>>

Tells(r) == r.frame.tag \in {"T", "D", "C", "s"}

MarkType == [last : Statement, command : CommandTag, failed : BOOLEAN, over : Int]

Mark(r) ==
    [last |-> r.last, command |-> r.command, failed |-> r.failed,
     over |-> IF r.frame.tag \in {"T", "D"} THEN r.index - 1 ELSE r.index]

Notes(m, r) ==
    LET tag == r.frame.tag IN
    /\ r.last = IF tag \in {"C", "s"} THEN r.sql ELSE m.last
    /\ r.command = IF tag = "C" THEN r.frame.command ELSE m.command
    /\ (r.failed <=> tag = "E" \/ m.failed)
    /\ tag \notin {"E", "Z"} => m.over = IF Tells(r) THEN r.index - 1 ELSE r.index

Trail(q, m) == \A k \in 1 .. Len(q) : Notes(IF k = 1 THEN m ELSE Mark(q[k - 1]), q[k])

EndMark(q, m) == IF q = <<>> THEN m ELSE Mark(q[Len(q)])

Meets(m, s) ==
    /\ m.last = s.last /\ m.command = s.command /\ (m.failed <=> s.failed)
    /\ ~s.skip => m.over = s.index

LEMMA MarkIs ==
    ASSUME NEW r \in ServerReply
    PROVE  /\ Mark(r) \in MarkType /\ Mark(r).last = r.last /\ Mark(r).command = r.command
           /\ Mark(r).failed = r.failed
           /\ Mark(r).over = IF r.frame.tag \in {"T", "D"} THEN r.index - 1 ELSE r.index
  <1>1. /\ r.last \in Statement /\ r.command \in CommandTag /\ r.failed \in BOOLEAN
        /\ r.index \in Nat
    BY ReplyFields
  <1> DEFINE n == IF r.frame.tag \in {"T", "D"} THEN r.index - 1 ELSE r.index
  <1>2. n \in Int
    BY <1>1
  <1> HIDE DEF n
  <1>3. Mark(r) = [last |-> r.last, command |-> r.command, failed |-> r.failed, over |-> n]
    BY DEF Mark, n
  <1>4. QED
    BY <1>1, <1>2, <1>3 DEF MarkType, n

LEMMA EndMarkType ==
    ASSUME NEW m \in MarkType, NEW q \in Seq(ServerReply)
    PROVE  EndMark(q, m) \in MarkType
  <1>1. CASE q = <<>>
    BY <1>1 DEF EndMark
  <1>2. CASE q # <<>>
    <2>1. q[Len(q)] \in ServerReply
      BY <1>2
    <2>2. QED
      BY <1>2, <2>1, MarkIs DEF EndMark
  <1>3. QED
    BY <1>1, <1>2

LEMMA TrailJoin ==
    ASSUME NEW q \in Seq(ServerReply), NEW o \in Seq(ServerReply), NEW m,
           Trail(q, m), Trail(o, EndMark(q, m))
    PROVE  Trail(q \o o, m) /\ EndMark(q \o o, m) = EndMark(o, EndMark(q, m))
  <1> DEFINE j == q \o o
             n == Len(q)
  <1>1. /\ j \in Seq(ServerReply) /\ Len(j) = n + Len(o) /\ n \in Nat /\ Len(o) \in Nat
        /\ \A k \in 1 .. n : j[k] = q[k]
        /\ \A k \in 1 .. Len(o) : j[n + k] = o[k]
        /\ q = <<>> <=> n = 0
        /\ o = <<>> <=> Len(o) = 0
        /\ o = <<>> => j = q
        /\ j = <<>> <=> Len(j) = 0
    OBVIOUS
  <1> HIDE DEF j, n
  <1>2. ASSUME NEW k \in 1 .. Len(j)
        PROVE  Notes(IF k = 1 THEN m ELSE Mark(j[k - 1]), j[k])
    <2>1. CASE k <= n
      <3>1. k \in 1 .. n /\ (k # 1 => k - 1 \in 1 .. n)
        BY <1>1, <2>1
      <3>2. Notes(IF k = 1 THEN m ELSE Mark(q[k - 1]), q[k])
        BY <3>1 DEF Trail, n
      <3>3. QED
        BY <1>1, <3>1, <3>2
    <2>2. CASE ~(k <= n)
      <3>1. PICK i : i = k - n
        OBVIOUS
      <3>2. i \in 1 .. Len(o) /\ k = n + i
        BY <1>1, <2>2, <3>1
      <3>3. Notes(IF i = 1 THEN EndMark(q, m) ELSE Mark(o[i - 1]), o[i]) /\ j[k] = o[i]
        BY <1>1, <3>2 DEF Trail
      <3>4. CASE i = 1
        <4>1. k - 1 = n /\ (k = 1 <=> n = 0)
          BY <1>1, <3>2, <3>4
        <4>2. n # 0 => n \in 1 .. n
          BY <1>1
        <4>3. EndMark(q, m) = IF k = 1 THEN m ELSE Mark(j[k - 1])
          BY <1>1, <4>1, <4>2 DEF EndMark, n
        <4>4. QED
          BY <3>3, <3>4, <4>3
      <3>5. CASE i # 1
        <4>1. i - 1 \in 1 .. Len(o) /\ k - 1 = n + (i - 1) /\ k # 1
          BY <1>1, <3>2, <3>5
        <4>2. j[k - 1] = o[i - 1]
          BY <1>1, <4>1
        <4>3. QED
          BY <3>3, <3>5, <4>1, <4>2
      <3>6. QED
        BY <3>4, <3>5
    <2>3. QED
      BY <2>1, <2>2
  <1>3. EndMark(j, m) = EndMark(o, EndMark(q, m))
    <2>1. CASE o = <<>>
      BY <1>1, <2>1 DEF EndMark
    <2>2. CASE o # <<>>
      <3>1. Len(o) \in 1 .. Len(o) /\ Len(j) # 0
        BY <1>1, <2>2
      <3>2. j[Len(j)] = o[Len(o)] /\ j # <<>>
        BY <1>1, <3>1
      <3>3. QED
        BY <2>2, <3>2 DEF EndMark
    <2>3. QED
      BY <2>1, <2>2
  <1>4. QED
    BY <1>2, <1>3 DEF Trail, j

(***************************************************************************)
(* The oldest reply is read.                                               *)
(***************************************************************************)
LEMMA TrailTail ==
    ASSUME NEW q \in Seq(ServerReply), q # <<>>, NEW m, Trail(q, m), NEW n,
           Tail(q) # <<>> => Notes(n, q[2])
    PROVE  /\ Notes(m, q[1]) /\ Trail(Tail(q), n)
           /\ Tail(q) # <<>> => EndMark(Tail(q), n) = EndMark(q, m)
  <1> DEFINE t == Tail(q)
  <1>1. /\ 1 \in 1 .. Len(q) /\ t \in Seq(ServerReply)
        /\ \A k \in 1 .. Len(t) : k + 1 \in 1 .. Len(q) /\ t[k] = q[k + 1]
        /\ t = <<>> <=> Len(q) = 1
        /\ t # <<>> => t[Len(t)] = q[Len(q)]
        /\ Len(q) \in Nat /\ Len(q) = Len(t) + 1 /\ Len(t) \in Nat
    BY Dequeued
  <1> HIDE DEF t
  <1>2. Notes(m, q[1])
    BY <1>1 DEF Trail
  <1>3. ASSUME NEW k \in 1 .. Len(t)
        PROVE  Notes(IF k = 1 THEN n ELSE Mark(t[k - 1]), t[k])
    <2>1. t # <<>>
      BY <1>1
    <2>2. CASE k = 1
      <3>1. t[1] = q[2]
        BY <1>1, <2>2
      <3>2. QED
        BY <2>1, <2>2, <3>1 DEF t
    <2>3. CASE k # 1
      <3>1. k - 1 \in 1 .. Len(t) /\ (k - 1) + 1 = k /\ (k + 1) - 1 = k /\ k + 1 # 1
        BY <1>1, <2>3
      <3>2. t[k] = q[k + 1] /\ t[k - 1] = q[k] /\ k + 1 \in 1 .. Len(q)
        BY <1>1, <3>1
      <3>3. Notes(Mark(q[k]), q[k + 1])
        BY <3>1, <3>2 DEF Trail
      <3>4. QED
        BY <2>3, <3>2, <3>3
    <2>4. QED
      BY <2>2, <2>3
  <1>4. t # <<>> => EndMark(t, n) = EndMark(q, m)
    BY <1>1 DEF EndMark
  <1>5. QED
    BY <1>2, <1>3, <1>4 DEF Trail, t

(***************************************************************************)
(* What the server says while it runs a statement, acknowledges or fails:  *)
(* each reply continues the mark before it, and the last one is the        *)
(* server's own.  SoundEnd: after ROLLBACK the command tag says so.        *)
(***************************************************************************)
SoundEnd(x) == ClassOf(x.last) = "Rollback" => x.command = "ROLLBACK"

Voices(s, sql, q) ==
    \A k \in 1 .. Len(q) :
        /\ q[k].index = s.index /\ (Tells(q[k]) => q[k].sql = sql /\ sql # NoSql)
        /\ q[k].frame.tag = "s" => MaySuspend

Recounts(s, sql, m, a) ==
    /\ IsAnswer(a) /\ Trail(a.out, m) /\ Meets(EndMark(a.out, m), a.srv)
    /\ Voices(s, sql, a.out) /\ a.srv.start = s.start /\ a.srv.index = s.index
    /\ SoundEnd(s) => SoundEnd(a.srv)

Resumes(m, s) == m.last = s.last /\ m.command = s.command /\ (m.failed <=> s.failed)

LEMMA OneRecounts ==
    ASSUME NEW s, NEW m, NEW sql, NEW t \in ServerState, NEW r \in ServerReply, Notes(m, r),
           Meets(Mark(r), t), r.index = s.index, ~Tells(r),
           t.start = s.start, t.index = s.index, SoundEnd(s) => SoundEnd(t)
    PROVE  Recounts(s, sql, m, Answer(t, <<r>>))
  <1> DEFINE a == Answer(t, <<r>>)
  <1>1. IsAnswer(a) /\ a.srv = t /\ a.out = <<r>> /\ Len(a.out) = 1 /\ a.out[1] = r
    BY OneReply
  <1>3. EndMark(a.out, m) = Mark(r)
    BY <1>1 DEF EndMark
  <1> HIDE DEF a
  <1>2. \A k \in 1 .. Len(a.out) : k = 1
    BY <1>1
  <1>4. Trail(a.out, m) /\ Voices(s, sql, a.out)
    BY <1>1, <1>2 DEF Trail, Voices, Tells
  <1>5. QED
    BY <1>1, <1>3, <1>4 DEF Recounts, a

LEMMA FailRecounts ==
    ASSUME NEW s \in ServerState, NEW text \in Statement, NEW sql, NEW m, Resumes(m, s)
    PROVE  Recounts(s, sql, m, Fail(s, text))
  <1> DEFINE a == Fail(s, text)
             t == a.srv
             r == Reply(t, Tagged("E"), text)
  <1>1. /\ t \in ServerState /\ Kept(s, t) /\ t.failed /\ t.skip /\ t.last = s.last
        /\ t.command = s.command /\ t.tx = (IF s.tx = "I" THEN "I" ELSE "E")
        /\ a.out = <<r>> /\ r \in ServerReply
    BY FailIs
  <1>2. a = Answer(t, <<r>>)
    BY <1>1 DEF Fail, Answer
  <1> HIDE DEF a, t
  <1>3. r.frame = Tagged("E") /\ r.last = t.last /\ r.command = t.command /\ r.failed = t.failed
        /\ r.index = t.index
    <2>1. Tagged("E") \in ServerFrames
      BY FrameTypes
    <2>2. t \in ServerState
      BY <1>1
    <2>3. QED
      BY <2>1, <2>2, ReplyIs
  <1>4. r.frame.tag = "E"
    BY <1>3, FrameTypes
  <1>5. Mark(r).last = r.last /\ Mark(r).command = r.command /\ Mark(r).failed = r.failed
    BY <1>1, MarkIs
  <1> HIDE DEF r
  <1>6. Notes(m, r) /\ ~Tells(r)
    BY <1>1, <1>3, <1>4 DEF Notes, Tells, Resumes
  <1>7. Meets(Mark(r), t)
    BY <1>1, <1>3, <1>5 DEF Meets
  <1>8. r.index = s.index /\ t.start = s.start /\ t.index = s.index
    BY <1>1, <1>3 DEF Kept
  <1>9. SoundEnd(s) => SoundEnd(t)
    BY <1>1 DEF SoundEnd
  <1>10. Recounts(s, sql, m, Answer(t, <<r>>))
    BY <1>1, <1>6, <1>7, <1>8, <1>9, OneRecounts
  <1>11. QED
    BY <1>2, <1>10 DEF a

LEMMA AckRecounts ==
    ASSUME NEW s \in ServerState, NEW t \in ServerState, SameButMaps(s, t),
           NEW tag \in {"1", "2", "3"}, NEW sql, NEW m, Resumes(m, s), m.over = s.index
    PROVE  Recounts(s, sql, m, Acknowledge(t, tag))
  <1> DEFINE a == Acknowledge(t, tag)
             u == a.srv
             r == Reply(u, Tagged(tag), NoSql)
  <1>1. /\ u \in ServerState /\ u.tx = t.tx /\ u.start = t.start
        /\ u.last = t.last /\ u.command = t.command /\ u.failed = t.failed
        /\ u.index = t.index /\ a = Answer(u, <<r>>) /\ r \in ServerReply
    BY AcknowledgeIs
  <1>2. r.frame = Tagged(tag) /\ r.last = u.last /\ r.command = u.command /\ r.failed = u.failed
        /\ r.index = u.index
    BY <1>1, ReplyIs, FrameTypes DEF Statement
  <1>3. r.frame.tag = tag
    BY <1>2, FrameTypes
  <1>4. /\ Mark(r).last = r.last /\ Mark(r).command = r.command /\ Mark(r).failed = r.failed
        /\ Mark(r).over = r.index
    BY <1>1, <1>3, MarkIs
  <1> HIDE DEF a, u, r
  <1>5. Notes(m, r) /\ ~Tells(r)
    BY <1>1, <1>2, <1>3 DEF Notes, Tells, Resumes, SameButMaps
  <1>6. Meets(Mark(r), u)
    BY <1>1, <1>2, <1>4 DEF Meets
  <1>7. r.index = s.index /\ u.start = s.start /\ u.index = s.index
    BY <1>1, <1>2 DEF SameButMaps
  <1>8. SoundEnd(s) => SoundEnd(u)
    BY <1>1 DEF SoundEnd, SameButMaps
  <1>9. QED
    BY <1>1, <1>5, <1>6, <1>7, <1>8, OneRecounts DEF a

(***************************************************************************)
(* Rows and headers leave the mark alone, up to the completion.            *)
(***************************************************************************)
LEMMA RowsRecount ==
    ASSUME NEW s \in ServerState, NEW t \in ServerState, NEW sql \in Sql, NEW m,
           Resumes(m, s), m.over = s.index - 1, NEW out \in Seq(ServerReply), Len(out) >= 1,
           \A k \in 1 .. Len(out) - 1 : \E frame \in ServerFrames :
               frame.tag \in {"T", "D"} /\ out[k] = Reply(s, frame, sql),
           \E frame \in ServerFrames :
               /\ frame.tag = "C" \/ (frame.tag = "s" /\ MaySuspend)
               /\ out[Len(out)] = Reply(t, frame, sql)
               /\ t.command = IF frame.tag = "C" THEN frame.command ELSE s.command,
           t.last = sql, t.failed = s.failed, t.index = s.index, t.start = s.start,
           SoundEnd(s) => SoundEnd(t)
    PROVE  Recounts(s, sql, m, Answer(t, out))
  <1> DEFINE n == Len(out)
             a == Answer(t, out)
  <1>0. n \in Nat /\ n \in 1 .. n /\ s.index \in Nat /\ out # <<>> /\ s.failed \in BOOLEAN
    BY ServerFields
  <1>a. sql \in Statement /\ sql # NoSql
    BY SqlAssumption DEF Statement
  <1>1. ASSUME NEW k \in 1 .. n - 1
        PROVE  /\ out[k] \in ServerReply /\ out[k].frame.tag \in {"T", "D"}
               /\ out[k].index = s.index /\ out[k].sql = sql
               /\ out[k].last = s.last /\ out[k].command = s.command /\ out[k].failed = s.failed
    <2>1. PICK frame \in ServerFrames : frame.tag \in {"T", "D"} /\ out[k] = Reply(s, frame, sql)
      OBVIOUS
    <2>2. QED
      BY <1>a, <2>1, ReplyIs
  <1>2. PICK frame \in ServerFrames :
               /\ frame.tag = "C" \/ (frame.tag = "s" /\ MaySuspend)
               /\ out[n] = Reply(t, frame, sql)
               /\ t.command = IF frame.tag = "C" THEN frame.command ELSE s.command
    OBVIOUS
  <1>3. /\ out[n] \in ServerReply /\ out[n].frame = frame
        /\ out[n].index = t.index /\ out[n].sql = sql
        /\ out[n].last = t.last /\ out[n].command = t.command /\ out[n].failed = t.failed
    BY <1>2, <1>a, ReplyIs
  <1>4. ASSUME NEW k \in 1 .. n - 1
        PROVE  Resumes(Mark(out[k]), s) /\ Mark(out[k]).over = s.index - 1
    <2>1. PICK r \in ServerReply : r = out[k]
      BY <1>1, <1>4
    <2>2. /\ r.frame.tag \in {"T", "D"} /\ r.index = s.index
          /\ r.last = s.last /\ r.command = s.command /\ r.failed = s.failed
      BY <1>1, <1>4, <2>1
    <2>3. QED
      BY <2>1, <2>2, MarkIs DEF Resumes
  <1>5. Mark(out[n]).last = out[n].last /\ Mark(out[n]).command = out[n].command
        /\ Mark(out[n]).failed = out[n].failed /\ Mark(out[n]).over = out[n].index
    BY <1>2, <1>3, MarkIs
  <1> DEFINE before(k) == IF k = 1 THEN m ELSE Mark(out[k - 1])
  <1>6. ASSUME NEW k \in 1 .. n
        PROVE  Resumes(before(k), s) /\ before(k).over = s.index - 1
    <2>1. k # 1 => k - 1 \in 1 .. n - 1
      BY <1>0
    <2>2. QED
      BY <1>4, <2>1
  <1> HIDE DEF before, n
  <1>7. ASSUME NEW k \in 1 .. n PROVE Notes(before(k), out[k])
    <2>1. CASE k \in 1 .. n - 1
      BY <1>1, <1>6, <2>1 DEF Notes, Tells, Resumes
    <2>2. CASE k = n
      BY <1>2, <1>3, <1>6, <2>2 DEF Notes, Tells, Resumes
    <2>3. QED
      BY <1>0, <2>1, <2>2
  <1>8. IsAnswer(a) /\ a.srv = t /\ a.out = out
    BY DEF IsAnswer, Answer
  <1>9. Trail(out, m)
    BY <1>7 DEF Trail, before, n
  <1>10. Meets(EndMark(out, m), t)
    BY <1>0, <1>3, <1>5 DEF EndMark, Meets, n
  <1>11. Voices(s, sql, out)
    <2>1. \A k \in 1 .. n : k \in 1 .. n - 1 \/ k = n
      BY <1>0
    <2>2. QED
      BY <1>1, <1>2, <1>3, <1>a, <2>1 DEF Voices, n
  <1> HIDE DEF a
  <1>12. QED
    BY <1>8, <1>9, <1>10, <1>11 DEF Recounts, a

LEMMA OutcomeRecounts ==
    ASSUME CopyIn = {}, NEW s \in ServerState, NEW sql \in Sql, NEW mode \in {"Q", "E"},
           NEW a, Outcome(s, sql, sql, mode, a), NEW m, Resumes(m, s), m.over = s.index - 1
    PROVE  Recounts(s, sql, m, a)
  <1>0. sql \in Statement
    BY DEF Statement
  <1>a. IsAnswer(a)
    BY <1>0, OutcomeWithin DEF Within
  <1> DEFINE t == a.srv
             out == a.out
  <1>1. t \in ServerState /\ out \in Seq(ServerReply) /\ a = Answer(t, out)
    BY <1>a DEF IsAnswer
  <1>2. CASE a = Fail(s, sql)
    BY <1>0, <1>2, FailRecounts
  <1>3. ASSUME NEW frames, CompletesWith(s, sql, frames), a = Ran(s, sql, sql, frames)
        PROVE  Recounts(s, sql, m, a)
    <2> DEFINE n == Len(frames)
    <2>0. /\ frames \in Seq(ServerFrames) /\ n >= 1 /\ frames[n].tag = "C"
          /\ frames[n].command = TagOf(s.tx, ClassOf(sql))
          /\ \A k \in 1 .. n - 1 : frames[k].tag \in {"T", "D"}
      BY <1>3 DEF CompletesWith
    <2>1. /\ Kept(s, t) /\ t.failed = s.failed
          /\ t.last = sql /\ t.command = TagOf(s.tx, ClassOf(sql))
          /\ Len(out) = n
          /\ \A k \in 1 .. n :
                out[k] = Reply(IF frames[k].tag = "C" THEN t ELSE s, frames[k], sql)
      BY <1>0, <1>3, <2>0, RanIs
    <2>2. n \in Nat /\ n \in 1 .. n /\ (\A k \in 1 .. n : frames[k] \in ServerFrames)
          /\ \A k \in 1 .. n - 1 : k \in 1 .. n
      BY <2>0
    <2> HIDE DEF t, out, n
    <2>3. \A k \in 1 .. Len(out) - 1 : \E frame \in ServerFrames :
               frame.tag \in {"T", "D"} /\ out[k] = Reply(s, frame, sql)
      <3>1. SUFFICES ASSUME NEW k \in 1 .. n - 1
                     PROVE  frames[k] \in ServerFrames /\ frames[k].tag \in {"T", "D"}
                            /\ out[k] = Reply(s, frames[k], sql)
        BY <2>1
      <3>2. k \in 1 .. n /\ frames[k].tag \in {"T", "D"}
        BY <2>0, <2>2
      <3>3. QED
        BY <2>1, <2>2, <3>2
    <2>4. \E frame \in ServerFrames :
               /\ frame.tag = "C" \/ (frame.tag = "s" /\ MaySuspend)
               /\ out[Len(out)] = Reply(t, frame, sql)
               /\ t.command = IF frame.tag = "C" THEN frame.command ELSE s.command
      BY <2>0, <2>1, <2>2
    <2>5. SoundEnd(t)
      BY <2>1 DEF SoundEnd, TagOf
    <2>6. t.index = s.index /\ t.start = s.start /\ Len(out) >= 1
      BY <2>0, <2>1 DEF Kept
    <2>7. QED
      BY <1>1, <2>1, <2>3, <2>4, <2>5, <2>6, RowsRecount
  <1>4. ASSUME MaySuspend, ClassOf(sql) = "Select", NEW n \in Nat, a = Suspended(s, sql, sql, n)
        PROVE  Recounts(s, sql, m, a)
    <2>1. /\ Kept(s, t) /\ t.failed = s.failed /\ t.last = sql /\ t.command = s.command
          /\ Len(out) = n + 1
          /\ \A k \in 1 .. n : out[k] = Reply(s, Tagged("D"), sql)
          /\ out[n + 1] = Reply(t, Tagged("s"), sql)
      BY <1>0, <1>4, SuspendedIs
    <2>2. /\ Tagged("D") \in ServerFrames /\ Tagged("D").tag = "D"
          /\ Tagged("s") \in ServerFrames /\ Tagged("s").tag = "s"
      BY FrameTypes
    <2> HIDE DEF t, out
    <2>3. Len(out) - 1 = n /\ Len(out) >= 1
      BY <2>1
    <2>4. \A k \in 1 .. Len(out) - 1 : \E frame \in ServerFrames :
               frame.tag \in {"T", "D"} /\ out[k] = Reply(s, frame, sql)
      BY <2>1, <2>2, <2>3
    <2>5. \E frame \in ServerFrames :
               /\ frame.tag = "C" \/ (frame.tag = "s" /\ MaySuspend)
               /\ out[Len(out)] = Reply(t, frame, sql)
               /\ t.command = IF frame.tag = "C" THEN frame.command ELSE s.command
      BY <1>4, <2>1, <2>2
    <2>6. SoundEnd(t)
      BY <1>4, <2>1 DEF SoundEnd
    <2>7. t.index = s.index /\ t.start = s.start
      BY <2>1 DEF Kept
    <2>8. QED
      BY <1>1, <2>1, <2>3, <2>4, <2>5, <2>6, <2>7, RowsRecount
  <1>5. QED
    BY <1>2, <1>3, <1>4 DEF Outcome

LEMMA RunTextRecounts ==
    ASSUME OneStatement, CopyIn = {}, NEW s \in ServerState, ~s.skip, NEW text \in Sql,
           NEW header \in {<<>>, <<Tagged("T")>>}, NEW a \in RunText(s, text, header),
           NEW m, Resumes(m, s), m.over = s.index - 1
    PROVE  Recounts(s, text, m, a)
  <1> DEFINE sqls == StatementsOf(text)
  <1>1. sqls = <<text>> /\ Len(sqls) = 1 /\ sqls[1] = text /\ sqls # <<>> /\ text \in Statement
    BY DEF OneStatement, Statement
  <1>2. PICK f : f = Progress(s, text, sqls, header, f) /\ RunText(s, text, header) = f[Len(sqls)]
    BY <1>1, RunTextIs
  <1> HIDE DEF sqls
  <1>3. f[0] = {Answer(s, <<>>)} /\ f[1] = NextAnswers(text, header, text, f[0])
    <2>1. \A k \in 0 .. 1 : f[k] = IF k = 0 THEN {Answer(s, <<>>)}
                                   ELSE NextAnswers(text, header, sqls[k], f[k - 1])
      BY <1>1, <1>2 DEF Progress
    <2>2. 0 \in 0 .. 1 /\ 1 \in 0 .. 1 /\ 1 - 1 = 0 /\ 1 # 0
      OBVIOUS
    <2>3. QED
      BY <1>1, <2>1, <2>2
  <1>4. a \in NextAnswers(text, header, text, {Answer(s, <<>>)})
    BY <1>1, <1>2, <1>3
  <1>5. Answer(s, <<>>).srv = s /\ Answer(s, <<>>).out = <<>>
    BY DEF Answer
  <1> DEFINE t == Began(s)
  <1>6. PICK b \in Run(t, text, text, header) : a = Answer(b.srv, <<>> \o b.out)
    BY <1>4, <1>5 DEF NextAnswers
  <1>7. Recounts(s, text, m, b)
    <2>0. /\ t \in ServerState /\ t.skip = s.skip /\ t.last = s.last /\ t.command = s.command
          /\ t.failed = s.failed /\ t.index = s.index /\ t.start = s.start
      BY BeganIs DEF Kept
    <2> HIDE DEF t
    <2>1. Outcome(t, text, text, Mode(header), b) /\ Mode(header) \in {"Q", "E"}
      BY <1>1, <2>0, RunOutcome, HeaderMode
    <2>2. Resumes(m, t) /\ m.over = t.index - 1
      BY <2>0 DEF Resumes
    <2>3. Recounts(t, text, m, b)
      BY <1>1, <2>0, <2>1, <2>2, OutcomeRecounts
    <2>4. QED
      BY <2>0, <2>3 DEF Recounts, Voices, SoundEnd
  <1>8. b.out \in Seq(ServerReply) /\ b = Answer(b.srv, b.out)
    BY <1>7 DEF Recounts, IsAnswer
  <1> DEFINE w == b.out
  <1>9. <<>> \o w = w
    BY <1>8
  <1>10. QED
    BY <1>6, <1>7, <1>8, <1>9

LEMMA StillRecounts ==
    ASSUME NEW s \in ServerState, NEW sql, NEW m, Meets(m, s)
    PROVE  Recounts(s, sql, m, Answer(s, <<>>))
  <1> DEFINE a == Answer(s, <<>>)
  <1>1. IsAnswer(a) /\ a.srv = s /\ a.out = <<>> /\ Len(a.out) = 0
    BY NoReply
  <1> HIDE DEF a
  <1>2. \A k \in 1 .. Len(a.out) : FALSE
    BY <1>1
  <1>3. EndMark(a.out, m) = m
    BY <1>1 DEF EndMark
  <1>4. Trail(a.out, m) /\ Voices(s, sql, a.out)
    BY <1>2 DEF Trail, Voices
  <1>5. QED
    BY <1>1, <1>3, <1>4 DEF Recounts, a

(***************************************************************************)
(* ReadyForQuery: it tells how the cycle went, and the server begins anew. *)
(***************************************************************************)
Concludes(s, sql, m, a) ==
    /\ IsAnswer(a) /\ a.out # <<>> /\ Trail(a.out, m) /\ Voices(s, sql, a.out)
    /\ a.srv.last = NoSql /\ a.srv.command = "" /\ ~a.srv.failed
    /\ LET z == a.out[Len(a.out)] IN
       /\ z.start = s.start /\ z.frame.status = z.tx /\ (SoundEnd(s) => SoundEnd(z))

LEMMA ReadyConcludes ==
    ASSUME NEW s, NEW sql, NEW m, NEW c, Recounts(s, sql, m, c)
    PROVE  Concludes(s, sql, m, Ready(c))
  <1> DEFINE t == c.srv
             q == c.out
             a == Ready(c)
             z == a.out[Len(q) + 1]
  <1>1. /\ t \in ServerState /\ q \in Seq(ServerReply) /\ c = Answer(t, q)
        /\ Trail(q, m) /\ Meets(EndMark(q, m), t) /\ Voices(s, sql, q)
        /\ t.start = s.start /\ t.index = s.index /\ (SoundEnd(s) => SoundEnd(t))
    BY DEF Recounts, IsAnswer
  <1>2. a = Ready(Answer(t, q))
    BY <1>1
  <1> HIDE DEF t, q
  <1>3. /\ a.srv \in ServerState /\ a.srv.last = NoSql /\ a.srv.command = "" /\ ~a.srv.failed
        /\ a.out \in Seq(ServerReply) /\ Len(a.out) = Len(q) + 1
        /\ \A k \in 1 .. Len(q) : a.out[k] = q[k]
        /\ z \in ServerReply /\ z.frame.tag = "Z" /\ z.frame.status = t.tx
        /\ z.start = t.start /\ z.last = t.last
        /\ z.command = t.command /\ z.failed = t.failed /\ z.index = t.index /\ z.tx = t.tx
    BY <1>1, <1>2, ReadyIs
  <1>4. a = Answer(a.srv, a.out)
    BY <1>2 DEF Ready, Answer
  <1>5. Len(q) \in Nat
    BY <1>1
  <1> HIDE DEF a, z
  <1>6. Notes(EndMark(q, m), z) /\ ~Tells(z)
    BY <1>1, <1>3 DEF Notes, Meets, Tells
  <1>7. <<z>> \in Seq(ServerReply) /\ Len(<<z>>) = 1 /\ <<z>>[1] = z
    <2>1. z \in ServerReply
      BY <1>3
    <2>2. QED
      BY ONLY <2>1
  <1>8. a.out = q \o <<z>>
    <2>1. \A k \in 1 .. Len(q) + 1 : k \in 1 .. Len(q) \/ k = Len(q) + 1
      BY <1>5
    <2> DEFINE w == a.out
    <2> HIDE DEF w
    <2>2. w \in Seq(ServerReply) /\ Len(w) = Len(q) + 1 /\ w[Len(q) + 1] = z
          /\ \A k \in 1 .. Len(q) : w[k] = q[k]
      BY <1>3 DEF w, z
    <2> DEFINE o == <<z>>
               j == q \o o
    <2>3. o \in Seq(ServerReply) /\ Len(o) = 1 /\ o[1] = z
      BY <1>7
    <2> HIDE DEF o
    <2>4. /\ j \in Seq(ServerReply) /\ Len(j) = Len(q) + 1
          /\ \A k \in 1 .. Len(q) : j[k] = q[k]
          /\ j[Len(q) + 1] = z
      <3>1. /\ j \in Seq(ServerReply) /\ Len(j) = Len(q) + Len(o)
            /\ \A i \in 1 .. Len(q) + Len(o) :
                  j[i] = IF i <= Len(q) THEN q[i] ELSE o[i - Len(q)]
        BY <1>1, <2>3, ConcatProperties
      <3> HIDE DEF j
      <3>2. /\ Len(q) + 1 \in 1 .. Len(q) + Len(o) /\ ~(Len(q) + 1 <= Len(q))
            /\ (Len(q) + 1) - Len(q) = 1
            /\ \A k \in 1 .. Len(q) : k \in 1 .. Len(q) + Len(o) /\ k <= Len(q)
        BY ONLY <1>5, <2>3
      <3>3. QED
        BY ONLY <2>3, <3>1, <3>2
    <2> HIDE DEF j
    <2>5. \A k \in 1 .. Len(w) : w[k] = j[k]
      BY <2>1, <2>2, <2>4
    <2>6. w = j
      BY ONLY <2>2, <2>4, <2>5, SeqEqual
    <2>7. QED
      BY <2>6 DEF w, j, o
  <1>9. Trail(a.out, m)
    <2> DEFINE o == <<z>>
    <2>1. \A k \in 1 .. Len(o) : k = 1
      BY <1>7
    <2>2. o \in Seq(ServerReply) /\ o[1] = z
      BY <1>7
    <2> HIDE DEF o
    <2>3. Trail(o, EndMark(q, m))
      BY <1>6, <2>1, <2>2 DEF Trail
    <2>4. Trail(q \o o, m)
      BY <1>1, <2>2, <2>3, TrailJoin
    <2>5. QED
      BY <1>8, <2>4 DEF o
  <1>10. Voices(s, sql, a.out)
    <2>0. Len(a.out) = Len(q) + 1
      BY <1>3
    <2>1. \A k \in 1 .. Len(a.out) : k \in 1 .. Len(q) \/ k = Len(q) + 1
      BY ONLY <1>5, <2>0
    <2>2. z.index = s.index
      BY <1>1, <1>3
    <2>3. QED
      BY <1>1, <1>3, <1>6, <2>1, <2>2 DEF Voices, z
  <1>11. a.out[Len(a.out)] = z /\ a.out # <<>>
    <2>1. Len(a.out) = Len(q) + 1
      BY <1>3
    <2>2. a.out # <<>>
      BY ONLY <1>5, <2>1
    <2>3. QED
      BY <2>1, <2>2 DEF z
  <1>12. SoundEnd(t) => SoundEnd(z)
    BY <1>3 DEF SoundEnd
  <1>13. IsAnswer(a)
    BY <1>3, <1>4 DEF IsAnswer
  <1>14. Concludes(s, sql, m, a)
    BY <1>1, <1>3, <1>9, <1>10, <1>11, <1>12, <1>13 DEF Concludes
  <1>15. QED
    BY <1>14 DEF a

(***************************************************************************)
(* Any frame of a client that describes nothing.                           *)
(***************************************************************************)
RunsAt(s, f) ==
    CASE f.tag = "Q" -> f.sql
      [] f.tag = "E" -> s.portals[f.portal]
      [] OTHER -> NoSql

LEMMA AnswersRecount ==
    ASSUME OneStatement, CopyIn = {}, NEW s \in ServerState, s.copy = "no",
           NEW f \in ClientFrames, f.tag # "D", f.tag = "Q" => ~s.skip,
           NEW a \in Answers(s, f), NEW m, Meets(m, s)
    PROVE  LET t == Numbered(s, f)
               sql == RunsAt(s, f)
           IN  /\ f.tag \in {"S", "Q"} => Concludes(t, sql, m, a)
               /\ f.tag \notin {"S", "Q"} => Recounts(t, sql, m, a)
               /\ f.tag \notin {"S", "Q"} /\ s.skip => a.out = <<>>
  <1> DEFINE t == Numbered(s, f)
             sql == RunsAt(s, f)
  <1> SUFFICES /\ f.tag \in {"S", "Q"} => Concludes(t, sql, m, a)
               /\ f.tag \notin {"S", "Q"} => Recounts(t, sql, m, a)
               /\ f.tag \notin {"S", "Q"} /\ s.skip => a.out = <<>>
    OBVIOUS
  <1>0. /\ t \in ServerState /\ t.copy = "no" /\ t.skip = s.skip
        /\ t.last = s.last /\ t.command = s.command /\ t.failed = s.failed
        /\ t.portals = s.portals
        /\ t.index = IF f.tag \in {"Q", "E"} THEN s.index + 1 ELSE s.index
        /\ s.index \in Nat
        /\ f.tag \notin {"Q", "E"} => t = s
    BY NumberedIs, ServerFields DEF Numbered
  <1>1. a \in AnswersTo(t, f)
    BY DEF Answers
  <1>2. NoSql \in Statement /\ Sql \subseteq Statement
    BY DEF Statement
  <1> HIDE DEF t
  <1>3. Resumes(m, t) /\ Resumes(m, s) /\ (s.skip => Meets(m, t))
    BY <1>0 DEF Meets, Resumes
  <1>4. ~s.skip => m.over = s.index
    BY DEF Meets
  <1>5. f.tag \in {"Q", "E"} /\ ~s.skip => m.over = t.index - 1
    BY <1>0, <1>4
  <1>6. f.tag \in {"P", "B", "C", "Q", "E", "D", "S", "H", "c", "X"}
    BY ClientFields
  <1>7. CASE f.tag = "S"
    <2>1. a = Ready(Answer(s, <<>>))
      BY <1>0, <1>1, <1>7 DEF AnswersTo
    <2>2. Recounts(s, sql, m, Answer(s, <<>>))
      BY StillRecounts
    <2>3. QED
      BY <1>0, <1>7, <2>1, <2>2, ReadyConcludes
  <1>8. CASE f.tag \notin {"S", "Q"} /\ s.skip
    <2>1. a = Answer(t, <<>>)
      BY <1>0, <1>1, <1>8 DEF AnswersTo
    <2>2. a.out = <<>>
      BY <2>1 DEF Answer
    <2>3. QED
      BY <1>0, <1>3, <1>8, <2>1, <2>2, StillRecounts
  <1>9. CASE f.tag \in {"H", "c", "X"} /\ ~s.skip
    <2>1. a = Answer(s, <<>>)
      BY <1>0, <1>1, <1>9 DEF AnswersTo
    <2>2. QED
      BY <1>0, <1>9, <2>1, StillRecounts
  <1>10. CASE f.tag = "P" /\ ~s.skip
    <2>1. f.name \in Name /\ f.sql \in Statement
      BY <1>2, <1>10, ClientFields
    <2>2. a \in ParseAnswers(s, f)
      BY <1>0, <1>1, <1>10 DEF AnswersTo
    <2>3. PICK v, u : /\ v \in ServerState /\ SameButMaps(s, v)
                      /\ u \in ServerState /\ SameButMaps(s, u)
                      /\ a = Fail(v, f.sql) \/ a = Acknowledge(u, "1")
      BY <1>10, <2>2, ParseIs
    <2>4. CASE a = Fail(v, f.sql)
      <3>1. Recounts(v, sql, m, a)
        BY <1>3, <2>1, <2>3, <2>4, FailRecounts DEF Resumes, SameButMaps
      <3>2. QED
        BY <1>0, <1>10, <2>3, <3>1 DEF Recounts, Voices, SoundEnd, SameButMaps
    <2>5. CASE a = Acknowledge(u, "1")
      BY <1>0, <1>3, <1>4, <1>10, <2>3, <2>5, AckRecounts
    <2>6. QED
      BY <2>3, <2>4, <2>5
  <1>11. CASE f.tag = "B" /\ ~s.skip
    <2> DEFINE x == s.stmts[f.stmt]
               u == [s EXCEPT !.portals[f.portal] = x]
    <2>1. f.portal \in Name /\ x \in Statement
      BY <1>11, ClientFields, ServerFields
    <2>2. a = Fail(s, x) \/ a = Acknowledge(u, "2")
      BY <1>0, <1>1, <1>11 DEF AnswersTo, BindAnswers
    <2> HIDE DEF x
    <2>3. u \in ServerState /\ SameButMaps(s, u)
      BY <2>1, StoreIs
    <2> HIDE DEF u
    <2>4. Recounts(s, sql, m, a)
      BY <1>3, <1>4, <1>11, <2>1, <2>2, <2>3, FailRecounts, AckRecounts
    <2>5. QED
      BY <1>0, <1>11, <2>4
  <1>12. CASE f.tag = "C" /\ ~s.skip
    <2> DEFINE v == [s EXCEPT !.stmts[f.name] = NoSql]
               w == [s EXCEPT !.portals[f.name] = NoSql]
    <2>1. f.name \in Name
      BY <1>12, ClientFields
    <2>2. a = Acknowledge(v, "3") \/ a = Acknowledge(w, "3")
      BY <1>0, <1>1, <1>12 DEF AnswersTo, CloseAnswers
    <2>3. v \in ServerState /\ SameButMaps(s, v) /\ w \in ServerState /\ SameButMaps(s, w)
      BY <1>2, <2>1, StoreIs
    <2> HIDE DEF v, w
    <2>4. Recounts(s, sql, m, a)
      BY <1>3, <1>4, <1>12, <2>2, <2>3, AckRecounts
    <2>5. QED
      BY <1>0, <1>12, <2>4
  <1>13. CASE f.tag = "E" /\ ~s.skip
    <2> DEFINE x == s.portals[f.portal]
    <2>1. f.portal \in Name /\ x \in Statement /\ sql = x
      BY <1>13, ClientFields, ServerFields DEF RunsAt
    <2>2. a = Fail(t, x) \/ (x # NoSql /\ a \in RunText(t, x, <<>>))
      BY <1>0, <1>1, <1>13 DEF AnswersTo, ExecuteAnswers
    <2> HIDE DEF x, sql
    <2>3. x # NoSql => x \in Sql
      BY <2>1 DEF Statement
    <2>4. CASE a = Fail(t, x)
      BY <1>0, <1>3, <1>13, <2>1, <2>4, FailRecounts
    <2>5. CASE x # NoSql /\ a \in RunText(t, x, <<>>)
      <3>1. ~t.skip /\ m.over = t.index - 1
        BY <1>0, <1>5, <1>13
      <3>2. Recounts(t, x, m, a)
        BY <1>0, <1>3, <2>3, <2>5, <3>1, RunTextRecounts
      <3>3. QED
        BY <1>13, <2>1, <3>2
    <2>6. QED
      BY <2>2, <2>4, <2>5
  <1>14. CASE f.tag = "Q"
    <2> DEFINE u == [t EXCEPT !.stmts[Unnamed] = NoSql, !.portals[Unnamed] = NoSql]
               h == <<Tagged("T")>>
    <2>0. ~s.skip /\ f.sql \in Sql /\ sql = f.sql
      BY <1>14, ClientFields DEF RunsAt
    <2>1. PICK c \in RunText(u, f.sql, h) : a = IF c.srv.copy = "no" THEN Ready(c) ELSE c
      BY <1>0, <1>1, <1>14, <2>0 DEF AnswersTo, QueryAnswers
    <2>2. u \in ServerState /\ SameButMaps(t, u)
      BY <1>0, ClearedIs
    <2> HIDE DEF u
    <2>3. /\ u.copy = "no" /\ ~u.skip /\ u.index = t.index /\ u.start = t.start
          /\ u.last = t.last /\ u.command = t.command /\ u.failed = t.failed
      BY <1>0, <2>0, <2>2 DEF SameButMaps
    <2>4. h \in {<<>>, <<Tagged("T")>>}
      OBVIOUS
    <2> HIDE DEF h, sql
    <2>5. c.srv.copy = "no"
      BY <2>0, <2>1, <2>2, <2>3, <2>4, RunTextWithin
    <2>6. Resumes(m, u) /\ m.over = u.index - 1
      BY <1>3, <1>5, <1>14, <2>0, <2>3 DEF Resumes
    <2>7. Recounts(u, f.sql, m, c)
      BY <2>0, <2>1, <2>2, <2>3, <2>4, <2>6, RunTextRecounts
    <2>8. Concludes(u, sql, m, a)
      BY <2>0, <2>1, <2>5, <2>7, ReadyConcludes
    <2>9. Concludes(t, sql, m, a)
      BY <2>3, <2>8 DEF Concludes, Voices, SoundEnd
    <2>10. QED
      BY <1>14, <2>9
  <1>15. QED
    BY <1>6, <1>7, <1>8, <1>9, <1>10, <1>11, <1>12, <1>13, <1>14

(***************************************************************************)
(* What the proxy has seen of the only cycle, and the invariant.  Noted:   *)
(* the replies under way continue what has been seen, and end where the    *)
(* server is.  Filed: T is the statement of each Query and Execute of the  *)
(* cycle.  Bound: a portal that the server has is the proxy's too, as long *)
(* as it skips nothing.                                                    *)
(***************************************************************************)
Work == Only(TRUE)

SeenOf(c) == [last |-> c.last, command |-> c.command, failed |-> c.error,
              over |-> c.executions - Len(c.statements)]

Seen == SeenOf(Work)

Noted ==
    /\ Trail(replies, Seen)
    /\ Len(Work.statements) <= Work.executions
    /\ \A k \in 1 .. Len(replies) : replies[k].index <= Work.executions
    /\ ~ReadyComing => Meets(EndMark(replies, Seen), srv) /\ SoundEnd(srv)
    /\ ReadyComing => LET z == replies[Len(replies)] IN
                      /\ srv.last = NoSql /\ srv.command = "" /\ ~srv.failed
                      /\ tx_state = StatusName(z.start) /\ SoundEnd(z)

Filed(T) ==
    /\ T \in [Nat -> Statement]
    /\ \A j \in 1 .. Len(Work.statements) : Work.statements[j] = T[Seen.over + j]
    /\ \A k \in 1 .. Len(replies) : Tells(replies[k]) => T[replies[k].index] = replies[k].sql

Bound ==
    ~ReadyComing /\ ~srv.skip => \A p \in Name : srv.portals[p] \in {NoSql, portals[p]}

NoteInv == MapInv /\ (conn = "open" => Noted /\ Bound /\ \E T : Filed(T))

LEMMA SeenIs ==
    ASSUME NEW c \in Cycle
    PROVE  /\ c.executions \in Nat /\ c.statements \in Seq(Statement) /\ Len(c.statements) \in Nat
           /\ c.last \in Statement /\ c.command \in CommandTag /\ c.error \in BOOLEAN
           /\ SeenOf(c).last = c.last /\ SeenOf(c).command = c.command
           /\ SeenOf(c).failed = c.error
           /\ SeenOf(c).over = c.executions - Len(c.statements)
           /\ SeenOf(c) \in MarkType
  <1>1. /\ c.executions \in Nat /\ c.statements \in Seq(Statement)
        /\ c.last \in Statement /\ c.command \in CommandTag /\ c.error \in BOOLEAN
    BY DEF Cycle
  <1> DEFINE q == c.statements
             n == c.executions - Len(q)
  <1>2. Len(q) \in Nat
    BY <1>1
  <1>3. n \in Int
    BY <1>1, <1>2
  <1> HIDE DEF n
  <1>4. SeenOf(c) = [last |-> c.last, command |-> c.command, failed |-> c.error, over |-> n]
    BY DEF SeenOf, n
  <1>5. QED
    BY <1>1, <1>2, <1>3, <1>4 DEF MarkType, n

LEMMA FreshIs ==
    ASSUME NEW n \in Nat, NEW extended \in BOOLEAN
    PROVE  LET c == FreshCycle(n, extended) IN
           /\ c \in Cycle /\ c.last = NoSql /\ c.command = "" /\ c.error = FALSE
           /\ c.statements = <<>> /\ c.executions = 0 /\ Len(c.statements) = 0
  BY DEF FreshCycle, Cycle, Statement, CommandTag

LEMMA WorkType ==
    ASSUME TypeOK
    PROVE  /\ Work \in Cycle
           /\ cycles = <<>> => /\ Work.last = NoSql /\ Work.command = "" /\ Work.error = FALSE
                               /\ Work.statements = <<>> /\ Work.executions = 0
                               /\ Len(Work.statements) = 0
           /\ cycles # <<>> => Work = cycles[1]
           /\ Executed = Work.executions
  <1>1. cycles \in Seq(Cycle) /\ next_cycle + 1 \in Nat
    BY DEF TypeOK
  <1>2. CASE cycles = <<>>
    <2>1. Work = FreshCycle(next_cycle + 1, TRUE)
      BY <1>2 DEF Work, Only
    <2>2. QED
      BY <1>1, <1>2, <2>1, FreshIs DEF Executed
  <1>3. CASE cycles # <<>>
    <2>1. cycles[1] \in Cycle
      BY <1>1, <1>3
    <2>2. Work = cycles[1]
      BY <1>3 DEF Work, Only
    <2>3. QED
      BY <1>3, <2>1, <2>2 DEF Executed
  <1>4. QED
    BY <1>2, <1>3

(***************************************************************************)
(* A client's frame adds a statement or none, and changes nothing that has *)
(* been seen.                                                              *)
(***************************************************************************)
LEMMA ClientWorks ==
    ASSUME Lockstep, LockInv, NEW f \in ClientFrames, ClientStep(f), conn' = "open"
    PROVE  /\ Work \in Cycle /\ Work' \in Cycle /\ Seen' = Seen /\ tx_state' = tx_state
           /\ f.tag \in {"Q", "E"} =>
                 /\ StatementOf(f) \in Statement
                 /\ Work'.statements = Append(Work.statements, StatementOf(f))
                 /\ Work'.executions = Work.executions + 1
           /\ f.tag \notin {"Q", "E"} =>
                 /\ Work'.statements = Work.statements /\ Work'.executions = Work.executions
  <1> DEFINE x == f.tag # "Q"
             c == Only(x)
             d == cycles'[1]
             w == Work
             v == Work'
  <1>1. /\ TypeOK /\ Frontend(f) /\ InTurn /\ (cycles = <<>> \/ NewestOpen)
        /\ f.tag \in {"P", "B", "C", "E", "S", "Q", "H"}
        /\ f.tag = "Q" => cycles = <<>>
    BY ClientAlone
  <1>2. /\ c \in Cycle
        /\ f.tag # "H" => cycles' # <<>> /\ d \in Cycle /\ SameShape(c, d)
        /\ f.tag \in {"P", "B", "C", "S"} => SameStatements(c, d)
        /\ f.tag \in {"Q", "E"} =>
              /\ d.executions = c.executions + 1
              /\ StatementOf(f) \in Statement
              /\ d.statements = Append(c.statements, StatementOf(f))
        /\ f.tag = "H" => UNCHANGED <<cycles, next_cycle>>
        /\ tx_state' = tx_state
    BY <1>1, OnlyWork DEF InTurn
  <1>4. /\ w.last = c.last /\ w.command = c.command /\ w.error = c.error
        /\ w.statements = c.statements /\ w.executions = c.executions
    <2>1. CASE cycles = <<>>
      <3>1. next_cycle + 1 \in Nat /\ x \in BOOLEAN
        BY <1>1 DEF TypeOK
      <3>2. c = FreshCycle(next_cycle + 1, x) /\ w = FreshCycle(next_cycle + 1, TRUE)
        BY <2>1 DEF Work, Only
      <3> HIDE DEF x
      <3>3. QED
        BY <3>1, <3>2, FreshIs
    <2>2. CASE cycles # <<>>
      BY <2>2 DEF Work, Only
    <2>3. QED
      BY <2>1, <2>2
  <1>5. f.tag # "H" => v = d
    BY <1>2 DEF Work, Only
  <1>6. f.tag = "H" => v = w
    BY <1>2 DEF Work, Only
  <1>3. w \in Cycle /\ v \in Cycle
    <2>1. w \in Cycle
      BY <1>1, WorkType
    <2> HIDE DEF d, w, v
    <2>2. QED
      BY <1>2, <1>5, <1>6, <2>1
  <1>7. /\ v.last = w.last /\ v.command = w.command /\ v.error = w.error
        /\ f.tag \in {"Q", "E"} => /\ v.statements = Append(w.statements, StatementOf(f))
                                   /\ v.executions = w.executions + 1
        /\ f.tag \notin {"Q", "E"} => v.statements = w.statements /\ v.executions = w.executions
    <2> HIDE DEF c, d, w, v
    <2>1. CASE f.tag = "H"
      BY <1>6, <2>1
    <2>2. CASE f.tag # "H"
      BY <1>1, <1>2, <1>4, <1>5, <2>2 DEF SameShape, SameStatements
    <2>3. QED
      BY <2>1, <2>2
  <1>8. Seen = SeenOf(w) /\ Seen' = SeenOf(v)
    BY DEF Seen, SeenOf
  <1> HIDE DEF c, d, w, v
  <1>9. v.executions - Len(v.statements) = w.executions - Len(w.statements)
    <2>1. /\ w.executions \in Nat /\ w.statements \in Seq(Statement) /\ Len(w.statements) \in Nat
      BY <1>3, SeenIs
    <2>2. CASE f.tag \in {"Q", "E"}
      <3>1. Len(v.statements) = Len(w.statements) + 1 /\ v.executions = w.executions + 1
        BY <1>2, <1>7, <2>1, <2>2, AppendProperties
      <3>2. QED
        BY ONLY <2>1, <3>1
    <2>3. CASE f.tag \notin {"Q", "E"}
      BY <1>7, <2>3
    <2>4. QED
      BY <2>2, <2>3
  <1>10. SeenOf(v) = SeenOf(w)
    BY <1>7, <1>9 DEF SeenOf
  <1>11. QED
    BY <1>2, <1>3, <1>7, <1>8, <1>10 DEF w, v

LEMMA ClientReady ==
    ASSUME Lockstep, LockInv, NEW f \in ClientFrames, ClientStep(f), conn' = "open"
    PROVE  /\ ReadyComing' <=> f.tag \in {"S", "Q"}
           /\ srv \in ServerState /\ replies \in Seq(ServerReply) /\ ~ReadyComing
           /\ \E a : /\ a \in Answers(srv, f) /\ IsAnswer(a)
                     /\ srv' = a.srv /\ replies' = replies \o a.out
                     /\ f.tag \in {"S", "Q"} =>
                           a.out # <<>> /\ replies'[Len(replies')] = a.out[Len(a.out)]
  <1>1. /\ Connected /\ ~ReadyComing /\ f.tag \in {"P", "B", "C", "E", "S", "Q", "H"}
    BY ClientAlone
  <1>2. PICK a : /\ Joins(f, a)
                 /\ f.tag \in {"S", "Q"} => Ends(Numbered(srv, f), a)
                 /\ f.tag \in {"P", "B", "C", "E"} => Within(Numbered(srv, f), a)
                 /\ f.tag = "H" => a = Answer(srv, <<>>)
    BY ClientAlone
  <1>3. srv \in ServerState /\ replies \in Seq(ServerReply)
    BY <1>1 DEF Connected
  <1>4. /\ a \in Answers(srv, f) /\ IsAnswer(a) /\ a.out \in Seq(ServerReply)
        /\ srv' = a.srv /\ replies' = replies \o a.out
    BY <1>2 DEF Joins, Turn, IsAnswer
  <1> DEFINE o == a.out
  <1>5. /\ f.tag \in {"S", "Q"} => o # <<>> /\ o[Len(o)].frame.tag = "Z"
        /\ f.tag \in {"P", "B", "C", "E"} => \A k \in 1 .. Len(o) : o[k].frame.tag # "Z"
        /\ f.tag = "H" => o = <<>>
    BY <1>2 DEF Ends, Within, Answer
  <1>6. o \in Seq(ServerReply) /\ replies' = replies \o o
    BY <1>4
  <1> HIDE DEF o
  <1>7. /\ o # <<>> => /\ replies' # <<>> /\ replies'[Len(replies')] = o[Len(o)]
                       /\ Len(o) \in 1 .. Len(o)
        /\ o = <<>> => replies' = replies
    BY <1>3, <1>6, Joined
  <1>8. ReadyComing' <=> f.tag \in {"S", "Q"}
    <2>1. CASE o = <<>>
      BY <1>1, <1>5, <1>7, <2>1 DEF ReadyComing
    <2>2. CASE o # <<>>
      BY <1>1, <1>5, <1>7, <2>2 DEF ReadyComing
    <2>3. QED
      BY <2>1, <2>2
  <1>9. QED
    BY <1>1, <1>3, <1>4, <1>5, <1>7, <1>8 DEF o

Speaks(f, a) ==
    LET t == Numbered(srv, f)
        sql == RunsAt(srv, f)
        m == EndMark(replies, Seen)
    IN  /\ IsAnswer(a) /\ srv' = a.srv /\ replies' = replies \o a.out
        /\ Trail(a.out, m) /\ Voices(t, sql, a.out)
        /\ f.tag \in {"S", "Q"} =>
              Concludes(t, sql, m, a) /\ replies'[Len(replies')] = a.out[Len(a.out)]
        /\ f.tag \notin {"S", "Q"} => Recounts(t, sql, m, a) /\ (srv.skip => a.out = <<>>)

LEMMA ClientSays ==
    ASSUME Lockstep, OneStatement, LockInv, Noted,
           NEW f \in ClientFrames, ClientStep(f), conn' = "open"
    PROVE  \E a : Speaks(f, a)
  <1>1. /\ srv.copy = "no" /\ f.tag \in {"P", "B", "C", "E", "S", "Q", "H"}
        /\ f.tag = "Q" => ~srv.skip
    BY ClientAlone
  <1>2. srv \in ServerState /\ ~ReadyComing
    BY ClientReady
  <1>3. PICK a : /\ a \in Answers(srv, f) /\ IsAnswer(a)
                 /\ srv' = a.srv /\ replies' = replies \o a.out
                 /\ f.tag \in {"S", "Q"} => replies'[Len(replies')] = a.out[Len(a.out)]
    BY ClientReady
  <1> DEFINE t == Numbered(srv, f)
             sql == RunsAt(srv, f)
             m == EndMark(replies, Seen)
  <1>4. Meets(m, srv)
    BY <1>2 DEF Noted
  <1> HIDE DEF m
  <1>5. /\ f.tag \in {"S", "Q"} => Concludes(t, sql, m, a)
        /\ f.tag \notin {"S", "Q"} => Recounts(t, sql, m, a)
        /\ f.tag \notin {"S", "Q"} /\ srv.skip => a.out = <<>>
    BY <1>1, <1>2, <1>3, <1>4, AnswersRecount DEF Lockstep
  <1>6. Trail(a.out, m) /\ Voices(t, sql, a.out)
    BY <1>5 DEF Concludes, Recounts
  <1>7. QED
    BY <1>3, <1>5, <1>6 DEF Speaks, m

LEMMA ClientNoted ==
    ASSUME Lockstep, OneStatement, LockInv, Noted,
           NEW f \in ClientFrames, ClientStep(f), conn' = "open"
    PROVE  Noted'
  <1> DEFINE t == Numbered(srv, f)
             sql == RunsAt(srv, f)
             m == EndMark(replies, Seen)
  <1>1. PICK a : Speaks(f, a)
    BY ClientSays
  <1>2. /\ ReadyComing' <=> f.tag \in {"S", "Q"}
        /\ srv \in ServerState /\ replies \in Seq(ServerReply) /\ ~ReadyComing
    BY ClientReady
  <1>3. /\ Work \in Cycle /\ Work' \in Cycle /\ Seen' = Seen /\ tx_state' = tx_state
        /\ f.tag \in {"Q", "E"} =>
              /\ StatementOf(f) \in Statement
              /\ Work'.statements = Append(Work.statements, StatementOf(f))
              /\ Work'.executions = Work.executions + 1
        /\ f.tag \notin {"Q", "E"} =>
              /\ Work'.statements = Work.statements /\ Work'.executions = Work.executions
    BY ClientWorks
  <1>4. /\ TypeOK /\ tx_state = StatusName(srv.start) /\ srv.index = Executed
    BY <1>2, ClientAlone DEF Counted
  <1>5. srv.index = Work.executions /\ Work.executions \in Nat
        /\ Work.statements \in Seq(Statement) /\ Len(Work.statements) \in Nat
    BY <1>3, <1>4, WorkType, SeenIs
  <1>6. /\ t.index = IF f.tag \in {"Q", "E"} THEN srv.index + 1 ELSE srv.index
        /\ t.last = srv.last /\ t.command = srv.command /\ t.start = srv.start
    BY <1>2, NumberedIs
  <1> DEFINE o == a.out
  <1>7. /\ IsAnswer(a) /\ o \in Seq(ServerReply) /\ srv' = a.srv /\ replies' = replies \o o
        /\ Trail(o, m) /\ Voices(t, sql, o)
        /\ f.tag \in {"S", "Q"} => Concludes(t, sql, m, a) /\ replies'[Len(replies')] = o[Len(o)]
        /\ f.tag \notin {"S", "Q"} => Recounts(t, sql, m, a)
    BY <1>1 DEF Speaks, IsAnswer
  <1> HIDE DEF t, sql, o
  <1>8. Trail(replies', Seen') /\ EndMark(replies', Seen') = EndMark(o, m)
    <2>1. Trail(replies, Seen)
      BY DEF Noted
    <2>2. Trail(replies \o o, Seen) /\ EndMark(replies \o o, Seen) = EndMark(o, m)
      BY <1>2, <1>7, <2>1, TrailJoin
    <2>3. QED
      BY <1>3, <1>7, <2>2
  <1> HIDE DEF m
  <1>9. Len(Work'.statements) <= Work'.executions
    <2>1. Len(Work.statements) <= Work.executions
      BY DEF Noted
    <2>2. CASE f.tag \in {"Q", "E"}
      <3>1. Len(Work'.statements) = Len(Work.statements) + 1
        BY <1>3, <1>5, <2>2, AppendProperties
      <3>2. QED
        BY <1>3, <1>5, <2>1, <2>2, <3>1
    <2>3. CASE f.tag \notin {"Q", "E"}
      BY <1>3, <2>1, <2>3
    <2>4. QED
      BY <2>2, <2>3
  <1>10. t.index = Work'.executions /\ Work.executions <= Work'.executions
    BY <1>3, <1>5, <1>6
  <1>11. ASSUME NEW k \in 1 .. Len(replies') PROVE replies'[k].index <= Work'.executions
    <2>1. \/ k \in 1 .. Len(replies) /\ replies'[k] = replies[k]
          \/ \E i \in 1 .. Len(o) : replies'[k] = o[i]
      BY <1>2, <1>7, Joined
    <2>2. CASE k \in 1 .. Len(replies) /\ replies'[k] = replies[k]
      <3>0. \A i \in 1 .. Len(replies) : replies[i].index <= Work.executions
        BY DEF Noted
      <3>1. replies[k].index <= Work.executions /\ replies[k] \in ServerReply
        BY <1>2, <2>2, <3>0
      <3>2. replies[k].index \in Nat /\ Work'.executions \in Nat
        BY <1>3, <3>1, ReplyFields, SeenIs
      <3>3. QED
        BY <1>5, <1>10, <2>2, <3>1, <3>2
    <2>3. ASSUME NEW i \in 1 .. Len(o), replies'[k] = o[i]
          PROVE  replies'[k].index <= Work'.executions
      <3>1. o[i].index = Work'.executions
        BY <1>7, <1>10 DEF Voices
      <3>2. Work'.executions \in Nat
        BY <1>3, SeenIs
      <3>3. QED
        BY <2>3, <3>1, <3>2
    <2>4. QED
      BY <2>1, <2>2, <2>3
  <1>12. SoundEnd(srv) /\ SoundEnd(t)
    BY <1>2, <1>6 DEF Noted, SoundEnd
  <1>13. ASSUME ~ReadyComing' PROVE Meets(EndMark(replies', Seen'), srv') /\ SoundEnd(srv')
    <2>1. Recounts(t, sql, m, a)
      BY <1>2, <1>7, <1>13
    <2>2. Meets(EndMark(o, m), a.srv) /\ SoundEnd(a.srv)
      BY <1>12, <2>1 DEF Recounts, o
    <2>3. Meets(EndMark(o, m), srv') /\ SoundEnd(srv')
      BY <1>7, <2>2
    <2>4. QED
      BY <1>8, <2>3
  <1>14. ASSUME ReadyComing'
         PROVE  LET z == replies'[Len(replies')] IN
                /\ srv'.last = NoSql /\ srv'.command = "" /\ ~srv'.failed
                /\ tx_state' = StatusName(z.start) /\ SoundEnd(z)
    <2> DEFINE z == o[Len(o)]
    <2>1. Concludes(t, sql, m, a) /\ replies'[Len(replies')] = z
      BY <1>2, <1>7, <1>14
    <2>2. /\ a.srv.last = NoSql /\ a.srv.command = "" /\ ~a.srv.failed
          /\ z.start = t.start /\ SoundEnd(z)
      BY <1>12, <2>1 DEF Concludes, o
    <2>3. QED
      BY <1>3, <1>4, <1>6, <1>7, <2>1, <2>2
  <1>15. QED
    BY <1>8, <1>9, <1>11, <1>13, <1>14 DEF Noted

(***************************************************************************)
(* The client's arm files a statement before the server can answer it.     *)
(***************************************************************************)
LEMMA ClientFiled ==
    ASSUME Lockstep, OneStatement, LockInv, Noted, Bound,
           NEW f \in ClientFrames, ClientStep(f), conn' = "open", NEW T, Filed(T)
    PROVE  \E U : Filed(U)'
  <1> DEFINE t == Numbered(srv, f)
             sql == RunsAt(srv, f)
             adds == f.tag \in {"Q", "E"}
             x == StatementOf(f)
             st == Work.statements
             n == Work.executions
  <1>1. PICK a : Speaks(f, a)
    BY ClientSays
  <1>2. /\ srv \in ServerState /\ replies \in Seq(ServerReply) /\ ~ReadyComing
    BY ClientReady
  <1>3. /\ Work \in Cycle /\ Seen' = Seen
        /\ adds => x \in Statement /\ Work'.statements = Append(st, x)
        /\ ~adds => Work'.statements = st
    BY ClientWorks
  <1>4. TypeOK /\ srv.index = Executed
    BY <1>2, ClientAlone DEF Counted
  <1>5. /\ srv.index = n /\ n \in Nat /\ st \in Seq(Statement) /\ Len(st) \in Nat
        /\ Seen.over = n - Len(st)
    BY <1>3, <1>4, WorkType, SeenIs DEF Seen
  <1>6. t.index = IF adds THEN n + 1 ELSE n
    <2>1. t.index = IF f.tag \in {"Q", "E"} THEN srv.index + 1 ELSE srv.index
      BY <1>2, NumberedIs
    <2>2. QED
      BY <1>5, <2>1
  <1> DEFINE o == a.out
  <1>7. /\ o \in Seq(ServerReply) /\ replies' = replies \o o /\ Voices(t, sql, o)
        /\ f.tag \notin {"S", "Q"} /\ srv.skip => o = <<>>
    BY <1>1 DEF Speaks, IsAnswer
  <1>8. /\ Len(st) <= n
        /\ \A k \in 1 .. Len(replies) : replies[k].index <= n
    BY DEF Noted
  <1>9. /\ T \in [Nat -> Statement]
        /\ \A j \in 1 .. Len(st) : st[j] = T[Seen.over + j]
        /\ \A k \in 1 .. Len(replies) : Tells(replies[k]) => T[replies[k].index] = replies[k].sql
    BY DEF Filed
  <1>10. f.tag = "E" => f.portal \in Name
    BY ClientFields
  <1>11. ASSUME NEW i \in 1 .. Len(o), Tells(o[i])
         PROVE  adds /\ o[i].index = n + 1 /\ o[i].sql = x
    <2>1. o[i].index = t.index /\ o[i].sql = sql /\ sql # NoSql
      BY <1>7, <1>11 DEF Voices
    <2>2. adds
      BY <2>1 DEF RunsAt
    <2>3. sql = x
      <3>1. CASE f.tag = "Q"
        BY <3>1 DEF RunsAt, StatementOf
      <3>2. CASE f.tag = "E"
        <4>0. o # <<>>
          BY <1>7
        <4>1. ~srv.skip
          BY <1>7, <3>2, <4>0
        <4>2. sql = srv.portals[f.portal] /\ x = portals[f.portal]
          BY <3>2 DEF RunsAt, StatementOf
        <4>3. srv.portals[f.portal] \in {NoSql, portals[f.portal]}
          BY <1>2, <1>10, <3>2, <4>1 DEF Bound
        <4>4. QED
          BY <2>1, <4>2, <4>3
      <3>3. QED
        BY <2>2, <3>1, <3>2
    <2>4. QED
      BY <1>6, <2>1, <2>2, <2>3
  <1> HIDE DEF t, sql, x, st, n, o
  <1>12. PICK U \in [Nat -> Statement] :
            (adds => U[n + 1] = x) /\ \A i \in 0 .. n : U[i] = T[i]
    <2> DEFINE V == [i \in Nat |-> IF i = n + 1 /\ adds THEN x ELSE T[i]]
    <2>1. V \in [Nat -> Statement] /\ (adds => V[n + 1] = x) /\ \A i \in 0 .. n : V[i] = T[i]
      BY <1>3, <1>5, <1>9
    <2> HIDE DEF V
    <2>2. QED
      BY <2>1
  <1>13. ASSUME NEW j \in 1 .. Len(Work'.statements)
         PROVE  Work'.statements[j] = U[Seen.over + j]
    <2>1. CASE j \in 1 .. Len(st)
      <3>1. Seen.over + j \in 0 .. n
        BY <1>5, <1>8, <2>1
      <3>2. Work'.statements[j] = st[j]
        <4>1. CASE adds
          BY <1>3, <1>5, <2>1, <4>1, AppendProperties
        <4>2. CASE ~adds
          BY <1>3, <4>2
        <4>3. QED
          BY <4>1, <4>2
      <3>3. QED
        BY <1>9, <1>12, <2>1, <3>1, <3>2
    <2>2. CASE j \notin 1 .. Len(st)
      <3>1. adds
        BY <1>3, <2>2
      <3>2. Len(Work'.statements) = Len(st) + 1 /\ Work'.statements[Len(st) + 1] = x
        BY <1>3, <1>5, <3>1, AppendProperties
      <3>3. j = Len(st) + 1
        BY <1>5, <2>2, <3>2
      <3>4. Seen.over + j = n + 1
        BY <1>5, <3>3
      <3>5. QED
        BY <1>12, <3>1, <3>2, <3>3, <3>4
    <2>3. QED
      BY <2>1, <2>2
  <1>14. ASSUME NEW k \in 1 .. Len(replies'), Tells(replies'[k])
         PROVE  U[replies'[k].index] = replies'[k].sql
    <2>0. replies \in Seq(ServerReply) /\ o \in Seq(ServerReply) /\ replies' = replies \o o
      BY <1>2, <1>7
    <2>1. \/ k \in 1 .. Len(replies) /\ replies'[k] = replies[k]
          \/ \E i \in 1 .. Len(o) : replies'[k] = o[i]
      BY <2>0, Joined
    <2>2. CASE k \in 1 .. Len(replies) /\ replies'[k] = replies[k]
      <3>1. replies[k] \in ServerReply /\ replies[k].index <= n
        BY <1>2, <1>8, <2>2
      <3>2. replies[k].index \in 0 .. n
        BY <1>5, <3>1, ReplyFields
      <3>3. QED
        BY <1>9, <1>12, <1>14, <2>2, <3>2
    <2>3. ASSUME NEW i \in 1 .. Len(o), replies'[k] = o[i]
          PROVE  U[replies'[k].index] = replies'[k].sql
      <3>1. adds /\ o[i].index = n + 1 /\ o[i].sql = x
        BY <1>11, <1>14, <2>3
      <3>2. QED
        BY <1>12, <2>3, <3>1
    <2>4. QED
      BY <2>1, <2>2, <2>3
  <1>15. Filed(U)'
    BY <1>3, <1>12, <1>13, <1>14 DEF Filed
  <1>16. QED
    BY <1>15

LEMMA FrontendPortals ==
    ASSUME NEW f \in ClientFrames, Frontend(f)
    PROVE  /\ f.tag \in {"P", "B", "C"} /\ Mutates(f) =>
                 portals' = LET m == MutationOf(f) IN
                            IF OnStatements(m) THEN portals ELSE Set(portals, m.name, m.stmt)
           /\ f.tag \in {"E", "H"} => portals' = portals
  <1>1. /\ f.tag \in {"P", "B", "C", "Q", "E", "D", "S", "H", "c", "X"}
        /\ f.tag = "B" => f.portal # None
        /\ f.tag = "C" => f.name # None /\ f.kind \in {"S", "P"}
    BY ClientFields, SessionAssumption
  <1>2. CASE f.tag = "P"
    <2>1. FrontendParse(f)
      BY <1>2 DEF Frontend, FrontendParse, FrontendBind, FrontendClose, FrontendQuery,
                  FrontendExecute, FrontendSync, FrontendOther
    <2>2. QED
      BY <1>2, <2>1 DEF FrontendParse, MutationOf, OnStatements
  <1>3. CASE f.tag = "B"
    <2>1. FrontendBind(f)
      BY <1>3 DEF Frontend, FrontendParse, FrontendBind, FrontendClose, FrontendQuery,
                  FrontendExecute, FrontendSync, FrontendOther
    <2>2. QED
      BY <1>1, <1>3, <2>1 DEF FrontendBind, MutationOf, OnStatements
  <1>4. CASE f.tag = "C"
    <2>1. FrontendClose(f)
      BY <1>1, <1>4 DEF Frontend, FrontendParse, FrontendBind, FrontendClose, FrontendQuery,
                        FrontendExecute, FrontendSync, FrontendOther
    <2>2. QED
      BY <1>1, <1>4, <2>1 DEF FrontendClose, MutationOf, OnStatements
  <1>5. CASE f.tag \in {"E", "H"}
    BY <1>5 DEF Frontend, FrontendParse, FrontendBind, FrontendClose, FrontendQuery,
                FrontendExecute, FrontendSync, FrontendOther
  <1>6. QED
    BY <1>2, <1>3, <1>4, <1>5

LEMMA ClientBound ==
    ASSUME Lockstep, LockInv, Settled, Bound,
           NEW f \in ClientFrames, ClientStep(f), conn' = "open"
    PROVE  Bound'
  <1> SUFFICES ASSUME ~ReadyComing', ~srv'.skip, NEW p \in Name
               PROVE  srv'.portals[p] \in {NoSql, portals'[p]}
    BY DEF Bound
  <1>1. /\ TypeOK /\ Connected /\ Frontend(f) /\ ~ReadyComing /\ srv.copy = "no"
        /\ f.tag \in {"P", "B", "C", "E", "S", "Q", "H"}
    BY ClientAlone
  <1>2. f.tag \notin {"S", "Q"}
    BY ClientReady
  <1>3. PICK a : Joins(f, a) /\ (f.tag = "H" => a = Answer(srv, <<>>))
    BY ClientAlone
  <1>4. a \in Answers(srv, f) /\ srv' = a.srv /\ srv \in ServerState
    BY <1>1, <1>3 DEF Joins, Connected
  <1>5. Plain(srv.portals) /\ (~srv.skip => Covers(prepared, srv.stmts))
    BY <1>1 DEF Settled
  <1>6. /\ srv.skip => a.srv.skip
        /\ f.tag \in {"P", "B", "C"} /\ ~srv.skip =>
              Refuses(srv, a) \/ (Mutates(f) /\ Grants(srv, MutationOf(f), a))
        /\ f.tag = "E" /\ ~srv.skip => Refuses(srv, a) \/ SilentOne(srv, a)
    BY <1>1, <1>2, <1>4, <1>5, AnswersMaps DEF Lockstep
  <1>7. ~srv.skip /\ ~Refuses(srv, a)
    BY <1>4, <1>6 DEF Refuses
  <1>8. srv.portals[p] \in {NoSql, portals[p]}
    BY <1>1, <1>7 DEF Bound
  <1>9. srv.portals \in [Name -> Statement] /\ portals \in [Name -> Statement]
    BY <1>1, <1>4, ServerFields DEF TypeOK
  <1>10. CASE f.tag \in {"P", "B", "C"}
    <2> DEFINE m == MutationOf(f)
    <2>1. Mutates(f) /\ Moved(srv, m, a.srv)
      BY <1>6, <1>7, <1>10 DEF Grants
    <2>2. portals' = IF OnStatements(m) THEN portals ELSE Set(portals, m.name, m.stmt)
      BY <1>1, <1>10, <2>1, FrontendPortals
    <2> HIDE DEF m
    <2>3. a.srv.portals = IF OnStatements(m) THEN srv.portals
                          ELSE Set(srv.portals, m.name, m.stmt)
      BY <2>1 DEF Moved, Effect
    <2>4. QED
      BY <1>4, <1>8, <1>9, <2>2, <2>3 DEF Set
  <1>11. CASE f.tag = "E"
    <2>1. a.srv.portals \in {srv.portals, NoPortals}
      BY <1>6, <1>7, <1>11 DEF SilentOne, LeavesOne, Leaves
    <2>2. portals' = portals
      BY <1>1, <1>11, FrontendPortals
    <2>3. QED
      BY <1>4, <1>8, <2>1, <2>2 DEF NoPortals
  <1>12. CASE f.tag = "H"
    <2>1. a.srv = srv /\ portals' = portals
      BY <1>1, <1>3, <1>12, FrontendPortals DEF Answer
    <2>2. QED
      BY <1>4, <1>8, <2>1
  <1>13. QED
    BY <1>1, <1>2, <1>10, <1>11, <1>12

(***************************************************************************)
(* A reply is read.                                                        *)
(***************************************************************************)
LEMMA WorkReplied ==
    ASSUME LockInv, ServerStep
    PROVE  LET r == replies[1] IN
           /\ conn = "open" /\ TypeOK /\ replies \in Seq(ServerReply) /\ replies # <<>>
           /\ r \in ServerReply /\ r.frame \in ServerFrames /\ Backend(r.frame)
           /\ reply' = r /\ replies' = Tail(replies) /\ srv' = srv /\ srv \in ServerState
           /\ r.frame.tag # "Z" => Work' = Replied(r.frame, Work) /\ tx_state' = tx_state
           /\ r.frame.tag = "Z" => replies' = <<>> /\ cycles' = <<>> /\ ReadyComing
                                   /\ replies[Len(replies)] = r
           /\ cycles = <<>> => r.cycle = 0 /\ r.frame.tag \in {"S", "Z"}
  <1> DEFINE r == replies[1]
             f == r.frame
  <1>1. /\ conn = "open" /\ replies # <<>> /\ Backend(Head(replies).frame)
        /\ reply' = Head(replies) /\ replies' = Tail(replies) /\ srv' = srv
    BY ServerReads
  <1>2. TypeOK /\ InTurn /\ Connected
    BY <1>1 DEF LockInv, AlignedInv
  <1>3. replies \in Seq(ServerReply) /\ srv \in ServerState /\ InStep
    BY <1>2 DEF Connected
  <1>4. /\ Head(replies) = r /\ r \in ServerReply /\ 1 \in 1 .. Len(replies)
        /\ replies' = <<>> <=> Len(replies) = 1
        /\ Len(replies) \in Nat
    BY <1>1, <1>3, Dequeued
  <1>5. f \in ServerFrames /\ r.cycle \in Nat
    BY <1>4, ReplyFields
  <1> HIDE DEF r
  <1>6. cycles \in Seq(Cycle) /\ next_cycle \in Nat /\ Len(cycles) <= 1
    BY <1>2 DEF TypeOK, InTurn
  <1>7. /\ f.tag # "Z" =>
              /\ cycles' \in Seq(Cycle) /\ Len(cycles') = Len(cycles)
              /\ \A i \in 1 .. Len(cycles) :
                    cycles'[i] = IF i = 1 THEN Replied(f, cycles[1]) ELSE cycles[i]
              /\ tx_state' = tx_state
        /\ f.tag = "Z" => cycles' = Rest(cycles)
        /\ next_cycle' = next_cycle
    BY <1>1, <1>2, <1>4, <1>5, BackendWork
  <1>8. cycles = <<>> => r.cycle = 0 /\ f.tag \in {"S", "Z"}
    <2> SUFFICES ASSUME cycles = <<>> PROVE r.cycle = 0 /\ f.tag \in {"S", "Z"}
      OBVIOUS
    <2>1. Answering = r.cycle /\ Len(cycles) = 0
      BY <1>1 DEF Answering, r
    <2>2. r.cycle <= next_cycle /\ (r.cycle = 0 => f.tag \in {"S", "Z"})
      BY <1>3, <1>4 DEF InStep, Chained, r
    <2>3. r.cycle > 0 => Len(cycles) + r.cycle = next_cycle + 1
      BY <1>3, <2>1 DEF InStep
    <2>4. QED
      BY <1>5, <1>6, <2>1, <2>2, <2>3
  <1>9. ASSUME f.tag # "Z" PROVE Work' = Replied(f, Work)
    <2>1. CASE cycles = <<>>
      <3>1. Len(cycles') = 0 /\ cycles' \in Seq(Cycle)
        BY <1>7, <1>9, <2>1
      <3>2. cycles' = <<>>
        BY <3>1
      <3>3. f.tag = "S"
        BY <1>8, <1>9, <2>1
      <3>4. Replied(f, Work) = Work
        BY <3>3 DEF Replied
      <3>5. Work' = Work
        BY <1>7, <2>1, <3>2 DEF Work, Only
      <3>6. QED
        BY <3>4, <3>5
    <2>2. CASE cycles # <<>>
      <3>0. Len(cycles) = 1
        BY <1>6, <2>2, Single
      <3>1. Len(cycles) = 1 /\ 1 \in 1 .. Len(cycles)
        BY <3>0
      <3>2. cycles'[1] = Replied(f, cycles[1]) /\ Len(cycles') = 1
        BY <1>7, <1>9, <3>1
      <3>3. cycles' # <<>>
        BY <3>2
      <3>4. QED
        BY <2>2, <3>2, <3>3 DEF Work, Only
    <2>3. QED
      BY <2>1, <2>2
  <1>10. ASSUME f.tag = "Z"
         PROVE  replies' = <<>> /\ cycles' = <<>> /\ ReadyComing /\ replies[Len(replies)] = r
    <2>1. Len(replies) = 1
      BY <1>2, <1>4, <1>10 DEF InTurn, r
    <2>2. replies' = <<>> /\ ReadyComing /\ replies[Len(replies)] = r
      BY <1>1, <1>4, <1>10, <2>1 DEF ReadyComing, r
    <2>3. cycles' = <<>>
      <3>1. CASE cycles = <<>>
        BY <1>7, <1>10, <3>1 DEF Rest
      <3>2. CASE cycles # <<>>
        <4>1. Len(cycles) = 1
          BY <1>6, <3>2, Single
        <4>2. Tail(cycles) = <<>>
          BY <1>6, <3>2, <4>1, Dequeued
        <4>3. QED
          BY <1>7, <1>10, <3>2, <4>2 DEF Rest
      <3>3. QED
        BY <3>1, <3>2
    <2>4. QED
      BY <2>2, <2>3
  <1>11. QED
    BY <1>1, <1>2, <1>3, <1>4, <1>5, <1>7, <1>8, <1>9, <1>10 DEF r

LEMMA CurrentIs ==
    ASSUME TypeOK, Noted, NEW T, Filed(T), replies \in Seq(ServerReply), replies # <<>>,
           Tells(replies[1])
    PROVE  /\ Work.statements # <<>> /\ Len(Work.statements) >= 1
           /\ CurrentStatement(Work) = replies[1].sql
  <1> DEFINE r == replies[1]
             st == Work.statements
             n == Work.executions
  <1>1. 1 \in 1 .. Len(replies) /\ r \in ServerReply
    BY Dequeued
  <1>2. /\ n \in Nat /\ st \in Seq(Statement) /\ Len(st) \in Nat /\ Seen.over = n - Len(st)
    BY WorkType, SeenIs DEF Seen
  <1>3. r.index \in Nat /\ r.index <= n
    BY <1>1, ReplyFields DEF Noted
  <1>4. Notes(Seen, r)
    BY <1>1 DEF Noted, Trail
  <1>5. Seen.over = r.index - 1
    BY <1>4 DEF Notes, Tells
  <1>6. T[r.index] = r.sql /\ \A j \in 1 .. Len(st) : st[j] = T[Seen.over + j]
    BY <1>1 DEF Filed
  <1> HIDE DEF st, n, r
  <1>7. Len(st) >= 1 /\ 1 \in 1 .. Len(st) /\ Seen.over + 1 = r.index
    BY <1>2, <1>3, <1>5
  <1>8. st[1] = r.sql
    BY <1>6, <1>7
  <1>9. st # <<>> /\ Head(st) = st[1]
    BY <1>2, <1>7
  <1>10. QED
    BY <1>7, <1>8, <1>9 DEF CurrentStatement, st, r

LEMMA ServerSees ==
    ASSUME LockInv, Noted, NEW T, Filed(T), ServerStep, replies[1].frame.tag # "Z"
    PROVE  LET r == replies[1]
               n == Seen'
           IN  /\ Work' \in Cycle /\ Work'.executions = Work.executions
               /\ Len(Work'.statements) <= Len(Work.statements)
               /\ n.last = r.last /\ n.command = r.command /\ n.failed = r.failed
               /\ r.frame.tag # "E" => n.over = Mark(r).over
               /\ \A j \in 1 .. Len(Work'.statements) : Work'.statements[j] = T[n.over + j]
  <1> DEFINE r == replies[1]
             f == r.frame
             c == Work
             d == Work'
  <1>1. /\ TypeOK /\ replies \in Seq(ServerReply) /\ replies # <<>>
        /\ r \in ServerReply /\ f \in ServerFrames /\ d = Replied(f, c)
    BY WorkReplied
  <1>2. Tells(r) => c.statements # <<>> /\ Len(c.statements) >= 1 /\ CurrentStatement(c) = r.sql
    BY <1>1, CurrentIs
  <1>3. c \in Cycle
    BY <1>1, WorkType
  <1>4. 1 \in 1 .. Len(replies)
    BY <1>1
  <1>5. Notes(Seen, r) /\ (\A j \in 1 .. Len(c.statements) : c.statements[j] = T[Seen.over + j])
    BY <1>4 DEF Noted, Trail, Filed
  <1>6. Seen = SeenOf(c) /\ Seen' = SeenOf(d)
    BY DEF Seen, SeenOf
  <1>7. Mark(r).over = IF f.tag \in {"T", "D"} THEN r.index - 1 ELSE r.index
    BY <1>1, MarkIs
  <1>8. r.index \in Nat /\ r.last \in Statement /\ r.failed \in BOOLEAN
    BY <1>1, ReplyFields
  <1> HIDE DEF c, d, r
  <1>9. /\ d \in Cycle /\ d.executions = c.executions
        /\ d.statements = IF f.tag \in {"C", "s"} THEN Rest(c.statements) ELSE c.statements
        /\ d.last = IF f.tag \in {"C", "s"} THEN CurrentStatement(c) ELSE c.last
        /\ d.command = IF f.tag = "C" THEN f.command ELSE c.command
        /\ d.error = (f.tag = "E" \/ c.error)
    BY <1>1, <1>3, RepliedIs
  <1>10. /\ c.executions \in Nat /\ c.statements \in Seq(Statement) /\ Len(c.statements) \in Nat
         /\ c.error \in BOOLEAN
         /\ Seen.last = c.last /\ Seen.command = c.command /\ Seen.failed = c.error
         /\ Seen.over = c.executions - Len(c.statements)
    BY <1>3, <1>6, SeenIs
  <1>11. /\ d.statements \in Seq(Statement) /\ Len(d.statements) \in Nat /\ d.error \in BOOLEAN
         /\ Seen'.last = d.last /\ Seen'.command = d.command /\ Seen'.failed = d.error
         /\ Seen'.over = d.executions - Len(d.statements)
    BY <1>6, <1>9, SeenIs
  <1>12. /\ r.last = IF f.tag \in {"C", "s"} THEN r.sql ELSE Seen.last
         /\ r.command = IF f.tag = "C" THEN f.command ELSE Seen.command
         /\ (r.failed <=> f.tag = "E" \/ Seen.failed)
         /\ f.tag \notin {"E", "Z"} => Seen.over = IF Tells(r) THEN r.index - 1 ELSE r.index
    BY <1>5 DEF Notes
  <1>13. f.tag \in {"C", "s"} => Tells(r)
    BY DEF Tells
  <1>14. Seen'.last = r.last
    BY <1>2, <1>9, <1>10, <1>11, <1>12, <1>13
  <1>15. Seen'.command = r.command
    BY <1>9, <1>10, <1>11, <1>12
  <1>16. Seen'.failed = r.failed
    <2>1. r.failed <=> d.error
      BY <1>9, <1>10, <1>12
    <2>2. QED
      BY <1>8, <1>11, <2>1
  <1>17. CASE f.tag \in {"C", "s"}
    <2> DEFINE q == c.statements
               p == d.statements
    <2>1. q \in Seq(Statement) /\ q # <<>> /\ p = Tail(q)
      BY <1>2, <1>9, <1>10, <1>13, <1>17 DEF Rest
    <2> HIDE DEF q, p
    <2>2. /\ \A k \in 1 .. Len(p) : k + 1 \in 1 .. Len(q) /\ p[k] = q[k + 1]
          /\ Len(q) \in Nat /\ Len(q) = Len(p) + 1 /\ Len(p) \in Nat
      BY <2>1, Dequeued
    <2>3. Seen'.over = Seen.over + 1 /\ Seen.over \in Int
      BY <1>9, <1>10, <1>11, <2>2 DEF p, q
    <2>4. Seen.over = r.index - 1
      BY <1>12, <1>13, <1>17
    <2>5. Seen'.over = Mark(r).over
      BY <1>7, <1>8, <1>17, <2>3, <2>4
    <2>6. ASSUME NEW j \in 1 .. Len(p) PROVE p[j] = T[Seen'.over + j]
      <3>1. Seen.over + (j + 1) = Seen'.over + j
        <4>1. j \in Int
          BY <2>2
        <4>2. QED
          BY <2>3, <4>1
      <3>2. q[j + 1] = T[Seen.over + (j + 1)]
        BY <1>5, <2>2 DEF q
      <3>3. QED
        BY <2>2, <3>1, <3>2
    <2>7. Len(p) <= Len(q)
      BY <2>2
    <2>8. QED
      BY <1>9, <1>14, <1>15, <1>16, <2>5, <2>6, <2>7 DEF c, d, r, p, q
  <1>18. CASE f.tag \notin {"C", "s"}
    <2>1. d.statements = c.statements
      BY <1>9, <1>18
    <2>2. Seen'.over = Seen.over
      BY <1>9, <1>10, <1>11, <2>1
    <2>3. f.tag # "E" => Seen.over = Mark(r).over
      <3> SUFFICES ASSUME f.tag # "E" PROVE Seen.over = Mark(r).over
        OBVIOUS
      <3>1. Tells(r) <=> f.tag \in {"T", "D"}
        BY <1>18 DEF Tells
      <3>2. f.tag # "Z"
        BY DEF r
      <3>3. QED
        BY <1>7, <1>12, <3>1, <3>2
    <2>4. Len(d.statements) <= Len(c.statements)
      BY <1>10, <2>1
    <2>5. QED
      BY <1>5, <1>9, <1>14, <1>15, <1>16, <2>1, <2>2, <2>3, <2>4 DEF c, d, r
  <1>19. QED
    BY <1>17, <1>18

(***************************************************************************)
(* A reply is read: portals, then marks and statements.                    *)
(***************************************************************************)
LEMMA ReadyStays ==
    ASSUME LockInv, ServerStep, replies[1].frame.tag # "Z"
    PROVE  /\ ReadyComing' <=> ReadyComing
           /\ ReadyComing => replies'[Len(replies')] = replies[Len(replies)]
  <1> DEFINE j == Tail(replies)
  <1>1. replies \in Seq(ServerReply) /\ replies # <<>> /\ replies' = j
    BY WorkReplied
  <1>2. /\ j = <<>> <=> Len(replies) = 1
        /\ j # <<>> => j[Len(j)] = replies[Len(replies)]
    BY <1>1, Dequeued
  <1> HIDE DEF j
  <1>3. CASE j = <<>>
    BY <1>1, <1>2, <1>3 DEF ReadyComing
  <1>4. CASE j # <<>>
    BY <1>1, <1>2, <1>4 DEF ReadyComing
  <1>5. QED
    BY <1>3, <1>4

LEMMA ServerBound ==
    ASSUME LockInv, Settled, Bound, ServerStep, NEW b, NEW V, Viewed(b, V)
    PROVE  Bound'
  <1> DEFINE r == replies[1]
             f == r.frame
  <1>1. /\ conn = "open" /\ TypeOK /\ replies \in Seq(ServerReply) /\ replies # <<>>
        /\ r \in ServerReply /\ f \in ServerFrames /\ Backend(f) /\ srv' = srv
        /\ f.tag = "Z" => ReadyComing /\ replies[Len(replies)] = r
    BY WorkReplied
  <1>2. InTurn /\ Counted /\ Len(cycles) <= 1 /\ 1 \in 1 .. Len(replies)
    BY <1>1, Dequeued DEF LockInv, InTurn
  <1>3. PICK ms : ms = Pending
    OBVIOUS
  <1>4. /\ b \in Nat /\ V[b] = Confirmed /\ ms \in Seq(Mutation) /\ Acked(replies, ms, b, V)
    BY <1>1, <1>3, PendingType DEF Viewed
  <1>5. /\ Agree(r, V[r.acks])
        /\ ~IsAck(r) => r.acks = b
        /\ IsAck(r) => ms # <<>> /\ Acknowledges(f.tag, ms[1])
    BY <1>1, <1>4, AckedFront
  <1>6. CASE f.tag = "Z"
    <2>1. Agree(r, Confirmed)
      BY <1>4, <1>5, <1>6 DEF IsAck
    <2>2. \A n \in Name : r.portals[n] \in {NoSql, confirmed_portals[n]}
      BY <2>1 DEF Agree, Confirmed
    <2>3. /\ srv.portals = r.portals
          /\ srv.tx = "I" => srv.portals = NoPortals
      BY <1>1, <1>6 DEF Settled
    <2>4. srv.tx = f.status
      BY <1>1, <1>2, <1>6 DEF Counted
    <2>5. portals' = IF StatusOf(f) = "Idle" THEN NoPortals ELSE confirmed_portals
      BY <1>1, <1>2, <1>6, BackendMaps
    <2>6. StatusOf(f) = "Idle" => f.status = "I"
      BY NameAssumption DEF StatusOf, TxState
    <2>7. \A n \in Name : NoPortals[n] = NoSql
      BY DEF NoPortals
    <2>8. \A n \in Name : srv.portals[n] \in {NoSql, portals'[n]}
      <3>1. CASE StatusOf(f) = "Idle"
        BY <2>3, <2>4, <2>6, <2>7, <3>1
      <3>2. CASE StatusOf(f) # "Idle"
        BY <2>2, <2>3, <2>5, <3>2
      <3>3. QED
        BY <3>1, <3>2
    <2>9. QED
      BY <1>1, <2>8 DEF Bound
  <1>7. CASE f.tag # "Z"
    <2>1. ReadyComing' <=> ReadyComing
      BY <1>7, ReadyStays
    <2>2. CASE f.tag = "E"
      <3>1. ReadyComing \/ srv.skip
        BY <1>2, <2>2 DEF Settled, Failing
      <3>2. QED
        BY <1>1, <2>1, <3>1 DEF Bound
    <2>3. CASE f.tag # "E"
      <3>1. portals' = portals
        BY <1>1, <1>2, <1>3, <1>5, <1>7, <2>3, BackendMaps DEF IsAck
      <3>2. QED
        BY <1>1, <2>1, <3>1 DEF Bound
    <2>4. QED
      BY <2>2, <2>3
  <1>8. QED
    BY <1>6, <1>7

LEMMA ServerNoted ==
    ASSUME LockInv, Settled, Noted, NEW T, Filed(T), ServerStep
    PROVE  Noted' /\ Filed(T)'
  <1> DEFINE r == replies[1]
             f == r.frame
             j == Tail(replies)
             n == Seen'
             w == Work'
  <1>1. /\ conn = "open" /\ TypeOK /\ replies \in Seq(ServerReply) /\ replies # <<>>
        /\ r \in ServerReply /\ f \in ServerFrames /\ Backend(f)
        /\ replies' = j /\ srv' = srv /\ srv \in ServerState
        /\ f.tag # "Z" => tx_state' = tx_state
        /\ f.tag = "Z" => replies' = <<>> /\ cycles' = <<>> /\ ReadyComing
                          /\ replies[Len(replies)] = r
    BY WorkReplied
  <1>2. InTurn /\ Counted
    BY <1>1 DEF LockInv
  <1>3. Seen' = SeenOf(Work')
    BY DEF Seen, SeenOf
  <1>4. CASE f.tag = "Z"
    <2>1. next_cycle' + 1 \in Nat
      BY <1>1, BackendWork DEF TypeOK
    <2>2. w = FreshCycle(next_cycle' + 1, TRUE)
      BY <1>1, <1>4 DEF Work, Only
    <2>3. /\ w \in Cycle /\ w.last = NoSql /\ w.command = "" /\ w.error = FALSE
          /\ w.statements = <<>> /\ w.executions = 0 /\ Len(w.statements) = 0
      BY <2>1, <2>2, FreshIs
    <2> HIDE DEF w
    <2>a. w.executions = 0 /\ Len(w.statements) = 0
      BY <2>3
    <2>b. /\ SeenOf(w).last = w.last /\ SeenOf(w).command = w.command
          /\ SeenOf(w).failed = w.error /\ SeenOf(w).over = w.executions - Len(w.statements)
      BY <2>3, SeenIs
    <2>c. SeenOf(w).over = 0
      BY ONLY <2>a, <2>b
    <2>4. /\ SeenOf(w).last = NoSql /\ SeenOf(w).command = "" /\ SeenOf(w).failed = FALSE
          /\ SeenOf(w).over = 0
      BY <2>3, <2>b, <2>c
    <2>5. n.last = NoSql /\ n.command = "" /\ n.failed = FALSE /\ n.over = 0
      BY <1>3, <2>4 DEF w
    <2>6. srv.last = NoSql /\ srv.command = "" /\ ~srv.failed
      BY <1>1, <1>4 DEF Noted
    <2>7. srv.index = 0
      BY <1>1, <1>2, <1>4 DEF Counted
    <2>8. Meets(n, srv)
      BY <2>5, <2>6, <2>7 DEF Meets
    <2>9. SoundEnd(srv)
      BY <2>6 DEF SoundEnd, ClassOf
    <2>10. ~ReadyComing' /\ replies' = <<>>
      BY <1>1, <1>4 DEF ReadyComing
    <2> HIDE DEF n
    <2>11. EndMark(<<>>, n) = n /\ Trail(<<>>, n)
      BY DEF EndMark, Trail
    <2>12. Len(w.statements) <= w.executions
      BY ONLY <2>a
    <2>13. \A k \in 1 .. Len(replies') : FALSE
      BY <2>10
    <2>14. \A k \in 1 .. Len(w.statements) : FALSE
      BY ONLY <2>a
    <2>15. Noted'
      BY <1>1, <2>8, <2>9, <2>10, <2>11, <2>12, <2>13 DEF Noted, n, w
    <2>16. Filed(T)'
      BY <2>13, <2>14 DEF Filed, w
    <2>17. QED
      BY <2>15, <2>16
  <1>5. CASE f.tag # "Z"
    <2>1. /\ w \in Cycle /\ w.executions = Work.executions
          /\ Len(w.statements) <= Len(Work.statements)
          /\ n.last = r.last /\ n.command = r.command /\ n.failed = r.failed
          /\ f.tag # "E" => n.over = Mark(r).over
          /\ \A i \in 1 .. Len(w.statements) : w.statements[i] = T[n.over + i]
      BY <1>5, ServerSees
    <2>2. /\ 1 \in 1 .. Len(replies) /\ j \in Seq(ServerReply)
          /\ \A k \in 1 .. Len(j) : k + 1 \in 1 .. Len(replies) /\ j[k] = replies[k + 1]
          /\ j = <<>> <=> Len(replies) = 1
          /\ Len(replies) \in Nat /\ Len(replies) = Len(j) + 1 /\ Len(j) \in Nat
      BY <1>1, Dequeued
    <2>3. /\ ReadyComing' <=> ReadyComing
          /\ ReadyComing => replies'[Len(replies')] = replies[Len(replies)]
      BY <1>5, ReadyStays
    <2>4. /\ Mark(r).last = r.last /\ Mark(r).command = r.command /\ Mark(r).failed = r.failed
      BY <1>1, MarkIs
    <2>5. Work \in Cycle
      BY <1>1, WorkType
    <2>6. /\ Work.executions \in Nat /\ Len(Work.statements) \in Nat /\ Len(w.statements) \in Nat
      BY <2>1, <2>5, SeenIs
    <2> HIDE DEF n, w, j, r
    <2>7. ASSUME j # <<>> PROVE Notes(n, replies[2])
      <3>1. 2 \in 1 .. Len(replies)
        BY <2>2, <2>7
      <3>2. Notes(Mark(r), replies[2])
        <4>1. 2 - 1 = 1 /\ 2 # 1
          OBVIOUS
        <4>2. QED
          BY <3>1, <4>1 DEF Noted, Trail, r
      <3>3. f.tag = "E" => replies[2].frame.tag = "Z"
        <4>1. 2 > 1
          OBVIOUS
        <4>2. QED
          BY <2>2, <3>1, <4>1 DEF Settled, Failing, r
      <3>4. QED
        BY <2>1, <2>4, <3>2, <3>3 DEF Notes
    <2>8. Trail(j, n) /\ (j # <<>> => EndMark(j, n) = EndMark(replies, Seen))
      BY <1>1, <2>7, TrailTail DEF Noted, j
    <2>9. ASSUME ~ReadyComing PROVE Meets(EndMark(j, n), srv) /\ SoundEnd(srv)
      <3>1. Meets(EndMark(replies, Seen), srv) /\ SoundEnd(srv)
        BY <2>9 DEF Noted
      <3>2. CASE j # <<>>
        BY <2>8, <3>1, <3>2
      <3>3. CASE j = <<>>
        <4>1. EndMark(replies, Seen) = Mark(r) /\ EndMark(j, n) = n
          BY <1>1, <2>2, <3>3 DEF EndMark, r
        <4>2. f.tag = "E" => srv.skip
          BY <2>2, <2>9 DEF Settled, Failing, r
        <4>3. QED
          BY <2>1, <2>4, <3>1, <4>1, <4>2 DEF Meets
      <3>4. QED
        BY <3>2, <3>3
    <2>10. Len(w.statements) <= w.executions
      <3>1. Len(Work.statements) <= Work.executions
        BY DEF Noted
      <3>2. QED
        BY ONLY <2>1, <2>6, <3>1
    <2>11. \A k \in 1 .. Len(j) : j[k].index <= w.executions
      BY <2>1, <2>2 DEF Noted
    <2>12. Noted'
      BY <1>1, <1>5, <2>3, <2>8, <2>9, <2>10, <2>11 DEF Noted, n, w, r
    <2>13. \A k \in 1 .. Len(j) : Tells(j[k]) => T[j[k].index] = j[k].sql
      BY <2>2 DEF Filed
    <2>14. Filed(T)'
      BY <1>1, <2>1, <2>13 DEF Filed, n, w
    <2>15. QED
      BY <2>12, <2>14
  <1>6. QED
    BY <1>4, <1>5

LEMMA NoteInit == SessionInit => NoteInv
  <1> SUFFICES ASSUME SessionInit PROVE NoteInv
    OBVIOUS
  <1> DEFINE q == Welcome(NewServer, Startup.application_name)
             T == [n \in Nat |-> NoSql]
  <1>1. MapInv /\ TypeOK
    BY MapInit DEF MapInv, LockInv, AlignedInv
  <1>2. /\ q \in Seq(ServerReply) /\ Len(q) = 2
        /\ q[1].frame.tag = "S" /\ q[2].frame.tag = "Z"
        /\ \A k \in 1 .. 2 : /\ q[k].start = "I" /\ q[k].index = 0
                             /\ q[k].last = NoSql /\ q[k].command = "" /\ ~q[k].failed
    BY WelcomeIs
  <1>3. replies = q /\ srv = NewServer
    BY DEF SessionInit
  <1> HIDE DEF q
  <1>4. cycles = <<>> /\ tx_state = "Idle"
    BY DEF SessionInit, ProxyInit, Init
  <1>5. NewServer.last = NoSql /\ NewServer.command = "" /\ NewServer.failed = FALSE
    BY DEF NewServer
  <1>6. /\ Work \in Cycle /\ Work.last = NoSql /\ Work.command = "" /\ Work.error = FALSE
    BY <1>1, <1>4, WorkType
  <1>7. Work.executions = 0 /\ Len(Work.statements) = 0
    BY <1>1, <1>4, WorkType
  <1>8. /\ Seen.last = Work.last /\ Seen.command = Work.command /\ Seen.failed = Work.error
        /\ Seen.over = Work.executions - Len(Work.statements)
    BY <1>6, SeenIs DEF Seen
  <1>9. Seen.over = 0
    BY ONLY <1>7, <1>8
  <1>s. q \in Seq(ServerReply) /\ Len(q) = 2
    BY <1>2
  <1>10. q[1] \in ServerReply /\ 1 \in 1 .. 2 /\ 2 \in 1 .. 2
    BY ONLY <1>s
  <1>11. /\ Mark(q[1]).last = q[1].last /\ Mark(q[1]).command = q[1].command
         /\ Mark(q[1]).failed = q[1].failed
    BY <1>10, MarkIs
  <1>12. \A k \in 1 .. Len(q) : k = 1 \/ k = 2
    BY ONLY <1>s
  <1>13. \A k \in 1 .. Len(q) : ~Tells(q[k]) /\ q[k].index = 0
    BY <1>2, <1>10, <1>12 DEF Tells
  <1>14. Notes(Seen, q[1])
    <2>1. ~Tells(q[1]) /\ q[1].index = 0 /\ q[1].last = NoSql /\ q[1].command = "" /\ ~q[1].failed
      BY <1>2, <1>10 DEF Tells
    <2>2. Seen.last = NoSql /\ Seen.command = "" /\ Seen.failed = FALSE
      BY <1>6, <1>8
    <2>3. Seen.over = q[1].index
      BY <1>9, <2>1
    <2>4. QED
      BY <1>2, <2>1, <2>2, <2>3 DEF Notes
  <1>15. Notes(Mark(q[1]), q[2])
    BY <1>2, <1>10, <1>11 DEF Notes
  <1>16. Trail(q, Seen)
    <2>1. 2 - 1 = 1 /\ 2 # 1
      OBVIOUS
    <2>2. QED
      BY <1>12, <1>14, <1>15, <2>1 DEF Trail
  <1>17. ReadyComing /\ replies[Len(replies)] = q[2]
    <2>1. Len(q) # 0
      BY ONLY <1>s
    <2>2. q # <<>>
      BY <2>1
    <2>3. QED
      BY <1>2, <1>3, <2>2 DEF ReadyComing
  <1>18. tx_state = StatusName(q[2].start) /\ SoundEnd(q[2])
    BY <1>2, <1>4, <1>10 DEF StatusName, SoundEnd, ClassOf
  <1>19. Len(Work.statements) <= Work.executions
    BY ONLY <1>7
  <1>20. \A k \in 1 .. Len(q) : q[k].index <= Work.executions
    BY ONLY <1>7, <1>13
  <1>21. Noted
    BY <1>3, <1>5, <1>16, <1>17, <1>18, <1>19, <1>20 DEF Noted
  <1>22. Bound
    BY <1>17 DEF Bound
  <1>23. Filed(T)
    <2>1. T \in [Nat -> Statement]
      BY DEF Statement
    <2>2. \A k \in 1 .. Len(Work.statements) : FALSE
      BY ONLY <1>7
    <2>3. QED
      BY <1>3, <1>13, <2>1, <2>2 DEF Filed
  <1>24. QED
    BY <1>1, <1>21, <1>22, <1>23 DEF NoteInv

LEMMA NoteKept ==
    ASSUME Lockstep, UnnamedPortals, OneStatement, NoteInv, [SessionNext]_sessionVars
    PROVE  NoteInv'
  <1>1. MapInv /\ MapInv' /\ LockInv
    BY MapKept DEF NoteInv, MapInv
  <1> SUFFICES ASSUME conn' = "open" PROVE Noted' /\ Bound' /\ \E T : Filed(T)'
    BY <1>1 DEF NoteInv
  <1>2. CASE UNCHANGED sessionVars
    <2>1. UNCHANGED proxyVars /\ UNCHANGED <<srv, replies>>
      BY <1>2 DEF sessionVars
    <2>2. UNCHANGED stateVars /\ UNCHANGED conn
      BY <2>1 DEF proxyVars, relayVars
    <2>3. UNCHANGED <<cycles, next_cycle, tx_state, portals>>
      BY <2>2 DEF stateVars
    <2>4. Work' = Work /\ (ReadyComing' <=> ReadyComing)
      BY <2>1, <2>3 DEF Work, Only, ReadyComing
    <2>5. Seen' = Seen
      BY <2>4 DEF Seen, SeenOf
    <2>6. PICK T : Noted /\ Bound /\ Filed(T)
      BY <2>2 DEF NoteInv
    <2>7. Noted' /\ Bound'
      BY <2>1, <2>3, <2>4, <2>5, <2>6 DEF Noted, Bound
    <2>8. Filed(T)'
      BY <2>1, <2>4, <2>5, <2>6 DEF Filed
    <2>9. QED
      BY <2>7, <2>8
  <1>3. ASSUME NEW f \in ClientFrames, ClientStep(f) PROVE Noted' /\ Bound' /\ \E T : Filed(T)'
    <2>1. conn = "open"
      BY <1>1, <1>3, ClientTurn DEF Lockstep, LockInv
    <2>2. PICK T : Noted /\ Bound /\ Filed(T) /\ Settled
      BY <1>1, <2>1 DEF NoteInv, MapInv
    <2>3. Noted'
      BY <1>1, <1>3, <2>2, ClientNoted
    <2>4. Bound'
      BY <1>1, <1>3, <2>2, ClientBound
    <2>5. \E U : Filed(U)'
      BY <1>1, <1>3, <2>2, ClientFiled
    <2>6. QED
      BY <2>3, <2>4, <2>5
  <1>4. CASE ServerStep
    <2>1. conn = "open"
      BY <1>4, ServerReads
    <2>2. PICK T : Noted /\ Bound /\ Filed(T)
      BY <2>1 DEF NoteInv
    <2>3. PICK b, V : Settled /\ Viewed(b, V)
      BY <1>1, <2>1 DEF MapInv
    <2>4. Noted' /\ Filed(T)'
      BY <1>1, <1>4, <2>2, <2>3, ServerNoted
    <2>5. Bound'
      BY <1>1, <1>4, <2>2, <2>3, ServerBound
    <2>6. QED
      BY <2>4, <2>5
  <1>5. CASE Break
    <2>1. conn' # "open"
      BY <1>5 DEF Break, ClientEof, UpstreamEof, Failure, Return, Unrelayed
    <2>2. QED
      BY <2>1
  <1>6. QED
    BY <1>2, <1>3, <1>4, <1>5 DEF SessionNext, Finished

LEMMA NoteInvariant ==
    ASSUME Lockstep, UnnamedPortals, OneStatement
    PROVE  SessionSpec => []NoteInv
  <1>1. NoteInv /\ [SessionNext]_sessionVars => NoteInv'
    BY NoteKept
  <1>2. QED
    BY <1>1, NoteInit, PTL DEF SessionSpec

(***************************************************************************)
(* The end of a cycle, and the rest of its replies.                        *)
(***************************************************************************)
LEMMA EndingReported ==
    ASSUME LockInv, Settled, Noted, ServerStep, replies[1].frame.tag = "Z"
    PROVE  Reported = TrueEnding(replies[1])
  <1> DEFINE r == replies[1]
             f == r.frame
             C == Completed(StatusOf(f))
  <1>1. /\ conn = "open" /\ TypeOK /\ replies \in Seq(ServerReply) /\ replies # <<>>
        /\ r \in ServerReply /\ f \in ServerFrames /\ Backend(f)
        /\ ReadyComing /\ replies[Len(replies)] = r
    BY WorkReplied
  <1>2. 1 \in 1 .. Len(replies)
    BY <1>1, Dequeued
  <1>3. Notes(Seen, r) /\ tx_state = StatusName(r.start) /\ SoundEnd(r) /\ reliable
    BY <1>1, <1>2 DEF Noted, Trail, Settled
  <1>4. Work \in Cycle /\ (cycles = <<>> => Work.last = NoSql) /\ (cycles # <<>> => Work = cycles[1])
    BY <1>1, WorkType
  <1>5. /\ Seen.last = Work.last /\ Seen.command = Work.command /\ Seen.failed = Work.error
        /\ Work.error \in BOOLEAN
    BY <1>4, SeenIs DEF Seen
  <1>6. r.last = Work.last /\ r.command = Work.command /\ (r.failed <=> Work.error)
    BY <1>3, <1>5 DEF Notes
  <1>7. r.start \in ServerStatus
    BY <1>1, ReplyFields
  <1>8. tx_state = "Idle" <=> r.start = "I"
    BY <1>3, <1>7 DEF StatusName, ServerStatus
  <1>9. StatusOf(f) = "Idle" <=> f.status = "I"
    BY NameAssumption DEF StatusOf, TxState
  <1>10. cycles # <<>> => Head(cycles) = Work
    <2>1. cycles \in Seq(Cycle)
      BY <1>1 DEF TypeOK
    <2>2. QED
      BY <1>4, <2>1
  <1>11. PICK failed \in {"transaction.failed", None} :
            Named(events') = {"backend.ready", failed, C, "connection.ready"} \ {None}
    BY <1>1, BackendEventsAre
  <1>12. {e.event : e \in NewEvents} = Named(events')
    BY DEF NewEvents, Named
  <1>13. None \notin CompletedEvent
    BY EventAssumption DEF EventName
  <1> HIDE DEF C
  <1>14. Reported = {C} \cap CompletedEvent
    BY <1>11, <1>12, <1>13 DEF Reported, CompletedEvent
  <1>15. CASE r.failed \/ f.status # "I"
    <2>1. TrueEnding(r) = {}
      BY <1>15 DEF TrueEnding
    <2>2. C = None
      BY <1>6, <1>9, <1>10, <1>15 DEF Completed, C
    <2>3. QED
      BY <1>13, <1>14, <2>1, <2>2
  <1>16. CASE ~r.failed /\ f.status = "I"
    <2>1. TrueEnding(r) =
            CASE ClassOf(r.last) = "Commit" ->
                   IF r.command = "COMMIT" THEN {"transaction.commit.completed"} ELSE {}
              [] ClassOf(r.last) = "Rollback" -> {"transaction.rollback.completed"}
              [] ClassOf(r.last) = "Other" -> {}
              [] OTHER -> IF r.start = "I" /\ r.command # ""
                          THEN {"transaction.implicit.completed"} ELSE {}
      BY <1>16 DEF TrueEnding
    <2>2. CASE cycles = <<>>
      <3>1. ClassOf(r.last) = "Other"
        BY <1>4, <1>6, <2>2 DEF ClassOf
      <3>2. C = None
        BY <2>2 DEF Completed, C
      <3>3. QED
        BY <1>13, <1>14, <2>1, <3>1, <3>2
    <2>3. CASE cycles # <<>>
      <3>1. C = TransactionEnd(ClassOf(r.last), r.command,
                               r.start = "I" /\ r.command # "" /\ ClassOf(r.last) # "Other")
        <4>1. C = TransactionEnd(ClassOf(r.last), r.command,
                                 /\ tx_state = "Idle" /\ r.command # ""
                                 /\ ClassOf(r.last) # "Other")
          BY <1>3, <1>6, <1>9, <1>10, <1>16, <2>3 DEF Completed, C
        <4>2. QED
          BY <1>8, <4>1
      <3>2. ClassOf(r.last) = "Rollback" => r.command = "ROLLBACK"
        BY <1>3 DEF SoundEnd
      <3>3. CASE ClassOf(r.last) = "Commit"
        BY <1>13, <1>14, <2>1, <3>1, <3>3 DEF TransactionEnd, CompletedEvent
      <3>4. CASE ClassOf(r.last) = "Rollback"
        BY <1>13, <1>14, <2>1, <3>1, <3>2, <3>4 DEF TransactionEnd, CompletedEvent
      <3>5. CASE ClassOf(r.last) = "Other"
        BY <1>13, <1>14, <2>1, <3>1, <3>5 DEF TransactionEnd, CompletedEvent
      <3>6. CASE ClassOf(r.last) \notin {"Commit", "Rollback", "Other"}
        BY <1>13, <1>14, <2>1, <3>1, <3>6 DEF TransactionEnd, CompletedEvent
      <3>7. QED
        BY <3>3, <3>4, <3>5, <3>6
    <2>4. QED
      BY <2>2, <2>3
  <1>17. QED
    BY <1>15, <1>16

LEMMA RowOrCompletion ==
    ASSUME LockInv, ServerStep, NEW e \in NewEvents,
           e.event \in {"result.row", "result.completed", "backend.command_complete",
                        "statement.execution_completed"}
    PROVE  replies[1].frame.tag \in {"D", "C"} /\ cycles # <<>> /\ Describes(e)
  <1> DEFINE f == replies[1].frame
  <1>1. /\ TypeOK /\ f \in ServerFrames /\ Backend(f)
        /\ cycles = <<>> => f.tag \in {"S", "Z"}
    BY WorkReplied
  <1>2. PICK k \in DOMAIN events' : e = events'[k]
    BY DEF NewEvents
  <1>3. Describes(e) /\ e.event \in Named(events')
    BY <1>1, <1>2, BackendEventsAre DEF Named
  <1>4. CASE f.tag = "Z"
    <2>1. PICK failed \in {"transaction.failed", None} :
             Named(events') = {"backend.ready", failed, Completed(StatusOf(f)),
                               "connection.ready"} \ {None}
      BY <1>1, <1>4, BackendEventsAre
    <2>2. Completed(StatusOf(f)) \in CompletedEvent \cup {None}
      BY DEF Completed, TransactionEnd, CompletedEvent
    <2>3. QED
      BY <1>3, <2>1, <2>2 DEF CompletedEvent
  <1>5. CASE f.tag \notin {"Z", "D", "C"}
    BY <1>1, <1>3, <1>5, BackendEventsAre
  <1>6. QED
    BY <1>1, <1>3, <1>4, <1>5

LEMMA StatementNamed ==
    ASSUME LockInv, Noted, NEW T, Filed(T), ServerStep
    PROVE  \A e \in NewEvents :
              e.event \in {"result.row", "result.completed", "backend.command_complete",
                           "statement.execution_completed"} => e.stmt = replies[1].sql
  <1> SUFFICES ASSUME NEW e \in NewEvents,
                      e.event \in {"result.row", "result.completed", "backend.command_complete",
                                   "statement.execution_completed"}
               PROVE  e.stmt = replies[1].sql
    OBVIOUS
  <1>1. TypeOK /\ replies \in Seq(ServerReply) /\ replies # <<>>
    BY WorkReplied
  <1>2. replies[1].frame.tag \in {"D", "C"} /\ cycles # <<>> /\ Describes(e)
    BY RowOrCompletion
  <1>3. Work = cycles[1] /\ CurrentStatement(Work) = replies[1].sql
    BY <1>1, <1>2, CurrentIs, WorkType DEF Tells
  <1>4. QED
    BY <1>2, <1>3 DEF Describes

(***************************************************************************)
(* The inferred history is the true one: an event of a reply names the     *)
(* cycle and, for a row or a completion, the statement that the server is  *)
(* at, and at ReadyForQuery exactly the completion is reported that the    *)
(* server's own record calls for.  For every client that waits for         *)
(* ReadyForQuery, binds the unnamed portal and sends one statement in each *)
(* text; whatever it sends otherwise, and whatever fails, is skipped,      *)
(* suspended or rolled back (statements, last, command and error of        *)
(* QueryCycle, which the two arms fill and empty apart).                   *)
(***************************************************************************)
THEOREM EventsTruthfulCorrect ==
    ASSUME Lockstep, UnnamedPortals, OneStatement
    PROVE  SessionSpec => EventsTruthful
  <1>1. ASSUME NoteInv, [SessionNext]_sessionVars, Handled
        PROVE  Attribution /\ Reported = TrueEnding(reply')
    <2>1. MapInv /\ LockInv /\ AlignedInv /\ Orderly
      BY <1>1 DEF NoteInv, MapInv, LockInv, Lockstep
    <2>2. ServerStep
      BY <1>1, <2>1, HandledIs
    <2>3. conn = "open" /\ TypeOK /\ reply' = replies[1] /\ replies[1].frame \in ServerFrames
          /\ Backend(replies[1].frame)
      BY <2>1, <2>2, WorkReplied
    <2>4. PICK T : Noted /\ Filed(T) /\ Settled
      BY <1>1, <2>1, <2>3 DEF NoteInv, MapInv
    <2>5. \A e \in NewEvents : e.cycle = reply'.cycle
      BY <1>1, <2>1, CycleNamed
    <2>6. \A e \in NewEvents :
             e.event \in {"result.row", "result.completed", "backend.command_complete",
                          "statement.execution_completed"} => e.stmt = reply'.sql
      BY <2>1, <2>2, <2>3, <2>4, StatementNamed
    <2>7. Attribution
      BY <2>5, <2>6 DEF Attribution
    <2>8. CASE replies[1].frame.tag = "Z"
      BY <2>1, <2>2, <2>3, <2>4, <2>7, <2>8, EndingReported
    <2>9. CASE replies[1].frame.tag # "Z"
      <3>1. TrueEnding(reply') = {}
        BY <2>3, <2>9 DEF TrueEnding
      <3>2. Named(events') \subseteq {"result.row", "backend.command_complete",
               "result.completed", "statement.execution_completed", "result.started",
               "backend.error"}
        BY <2>3, <2>9, BackendEventsAre
      <3>3. {e.event : e \in NewEvents} = Named(events')
        BY DEF NewEvents, Named
      <3>4. Reported = {}
        BY <3>2, <3>3 DEF Reported, CompletedEvent
      <3>5. QED
        BY <2>7, <3>1, <3>4
    <2>10. QED
      BY <2>8, <2>9
  <1>2. NoteInv /\ [SessionNext]_sessionVars
          => [Handled => Attribution /\ Reported = TrueEnding(reply')]_sessionVars
    BY <1>1
  <1>3. QED
    BY <1>2, NoteInvariant, PTL DEF SessionSpec, EventsTruthful
=============================================================================
