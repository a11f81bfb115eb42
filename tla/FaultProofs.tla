----------------------------- MODULE FaultProofs -----------------------------
(***************************************************************************)
(* Proofs about what reaches the client of a Session when a scenario       *)
(* fires.  Part 1: it has received exactly the rows that the scenario asks *)
(* for when the proxy cuts the connection.  Part 2: it has not seen the    *)
(* acknowledgement of the transaction whose end the scenario waits for.    *)
(* Part 3: the statement_index by which a scenario finds its place is the  *)
(* one of the statement.                                                   *)
(***************************************************************************)
EXTENDS SessionProofs

-----------------------------------------------------------------------------
(***************************************************************************)
(* Part 1.  Truncated results, for a client of the simple protocol that    *)
(* may pipeline.                                                           *)
(*                                                                         *)
(* Texts of at most one statement.  A string of several queries has        *)
(* several results, through which the counter runs on.                     *)
(***************************************************************************)
Short == \A text \in Sql : Len(StatementsOf(text)) <= 1

(***************************************************************************)
(* The order of replies: may b come after a?                               *)
(***************************************************************************)
Succeeds(a, b) ==
    /\ b.tag \in {"T", "D", "C", "E", "N", "S", "Z"}
    /\ b.tag \in {"T", "N", "S"} => a.tag = "Z"
    /\ b.tag = "D" => a.tag \in {"T", "D"}
    /\ b.tag = "C" => b.command = "DONE" \/ a.tag \in {"Z", "N"}
    /\ b.tag = "Z" => a.tag \notin {"T", "D"}
    /\ a.tag \in {"C", "E", "S"} => b.tag = "Z"

Ordered(p, q) ==
    \A k \in 1 .. Len(q) : Succeeds(IF k = 1 THEN p ELSE q[k - 1].frame, q[k].frame)

Latest(p, q) == IF q = <<>> THEN p ELSE q[Len(q)].frame

LEMMA LastJoined ==
    ASSUME NEW S, NEW q \in Seq(S), NEW w \in Seq(S), NEW z \in S, Len(w) = Len(q) + 1,
           w[Len(q) + 1] = z, \A k \in 1 .. Len(q) : w[k] = q[k]
    PROVE  w = q \o <<z>> /\ <<z>> \in Seq(S) /\ Len(<<z>>) = 1 /\ <<z>>[1] = z
  <1> DEFINE o == <<z>>
             j == q \o o
  <1>1. o \in Seq(S) /\ Len(o) = 1 /\ o[1] = z /\ Len(q) \in Nat
    OBVIOUS
  <1> HIDE DEF o
  <1>2. /\ j \in Seq(S) /\ Len(j) = Len(q) + 1
        /\ \A k \in 1 .. Len(q) : j[k] = q[k]
        /\ j[Len(q) + 1] = z
    <2>1. /\ j \in Seq(S) /\ Len(j) = Len(q) + Len(o)
          /\ \A i \in 1 .. Len(q) + Len(o) :
                j[i] = IF i <= Len(q) THEN q[i] ELSE o[i - Len(q)]
      BY <1>1, ConcatProperties
    <2> HIDE DEF j
    <2>2. /\ Len(q) + 1 \in 1 .. Len(q) + Len(o) /\ ~(Len(q) + 1 <= Len(q))
          /\ (Len(q) + 1) - Len(q) = 1
          /\ \A k \in 1 .. Len(q) : k \in 1 .. Len(q) + Len(o) /\ k <= Len(q)
      BY ONLY <1>1
    <2>3. QED
      BY ONLY <1>1, <2>1, <2>2
  <1> HIDE DEF j
  <1>3. \A k \in 1 .. Len(q) + 1 : k \in 1 .. Len(q) \/ k = Len(q) + 1
    BY ONLY <1>1
  <1>4. \A k \in 1 .. Len(w) : w[k] = j[k]
    BY <1>2, <1>3
  <1>5. w = j
    BY <1>2, <1>4, SeqEqual
  <1>6. QED
    BY <1>1, <1>5 DEF j, o

LEMMA OrderedJoin ==
    ASSUME NEW q \in Seq(ServerReply), NEW o \in Seq(ServerReply), NEW p,
           Ordered(p, q), Ordered(Latest(p, q), o)
    PROVE  Ordered(p, q \o o) /\ Latest(p, q \o o) = Latest(Latest(p, q), o)
  <1> DEFINE j == q \o o
  <1>1. /\ Len(q) \in Nat /\ Len(o) \in Nat /\ Len(j) = Len(q) + Len(o)
        /\ q = <<>> <=> Len(q) = 0
        /\ o = <<>> <=> Len(o) = 0
        /\ \A k \in 1 .. Len(q) : j[k] = q[k]
        /\ \A k \in 1 .. Len(o) : j[Len(q) + k] = o[k]
        /\ j = <<>> <=> Len(j) = 0
    <2>1. j \in Seq(ServerReply)
      OBVIOUS
    <2>2. QED
      BY <2>1
  <1> HIDE DEF j
  <1>2. ASSUME NEW k \in 1 .. Len(j)
        PROVE  Succeeds(IF k = 1 THEN p ELSE j[k - 1].frame, j[k].frame)
    <2>1. CASE k <= Len(q)
      <3>1. k \in 1 .. Len(q) /\ j[k] = q[k] /\ (k # 1 => j[k - 1] = q[k - 1])
        BY <1>1, <2>1
      <3>2. QED
        BY <3>1 DEF Ordered
    <2>2. CASE ~(k <= Len(q))
      <3> DEFINE i == k - Len(q)
      <3>1. /\ i \in 1 .. Len(o) /\ j[k] = o[i] /\ (i # 1 => k # 1 /\ j[k - 1] = o[i - 1])
            /\ i = 1 => k - 1 = Len(q) /\ (k = 1 <=> q = <<>>)
            /\ i = 1 /\ k # 1 => j[k - 1] = q[Len(q)]
        <4>1. i \in 1 .. Len(o) /\ k = Len(q) + i /\ k - 1 = Len(q) + (i - 1)
          BY <1>1, <2>2
        <4>2. j[k] = o[i]
          BY <1>1, <4>1
        <4>3. ASSUME i # 1 PROVE k # 1 /\ j[k - 1] = o[i - 1]
          <5>1. i - 1 \in 1 .. Len(o) /\ k # 1
            BY <1>1, <4>1, <4>3
          <5> HIDE DEF i
          <5>2. QED
            BY <1>1, <4>1, <5>1
        <4>4. ASSUME i = 1 PROVE k - 1 = Len(q) /\ (k = 1 <=> q = <<>>)
                                 /\ (k # 1 => j[k - 1] = q[Len(q)])
          BY <1>1, <4>1, <4>4
        <4>5. QED
          BY <4>1, <4>2, <4>3, <4>4
      <3>2. (IF i = 1 THEN Latest(p, q) ELSE o[i - 1].frame)
              = IF k = 1 THEN p ELSE j[k - 1].frame
        BY <3>1 DEF Latest
      <3> HIDE DEF i
      <3>3. Succeeds(IF i = 1 THEN Latest(p, q) ELSE o[i - 1].frame, o[i].frame)
        BY <3>1 DEF Ordered
      <3>4. QED
        BY <3>1, <3>2, <3>3
    <2>3. QED
      BY <2>1, <2>2
  <1>3. Latest(p, j) = Latest(Latest(p, q), o)
    BY <1>1 DEF Latest
  <1>4. QED
    BY <1>2, <1>3 DEF Ordered, j

LEMMA OrderedTail ==
    ASSUME NEW q \in Seq(ServerReply), q # <<>>, NEW p, Ordered(p, q)
    PROVE  /\ Succeeds(p, q[1].frame) /\ Ordered(q[1].frame, Tail(q))
           /\ Latest(q[1].frame, Tail(q)) = Latest(p, q)
  <1> DEFINE t == Tail(q)
  <1>1. /\ t \in Seq(ServerReply) /\ Len(q) \in Nat /\ Len(q) >= 1 /\ Len(t) = Len(q) - 1
        /\ \A k \in 1 .. Len(t) : t[k] = q[k + 1]
    OBVIOUS
  <1> HIDE DEF t
  <1>2. t = <<>> <=> Len(t) = 0
    BY <1>1
  <1>3. Succeeds(p, q[1].frame)
    BY <1>1 DEF Ordered
  <1>4. ASSUME NEW k \in 1 .. Len(t)
        PROVE  Succeeds(IF k = 1 THEN q[1].frame ELSE t[k - 1].frame, t[k].frame)
    <2> DEFINE i == k + 1
    <2>1. i \in 1 .. Len(q) /\ i # 1 /\ i - 1 = k /\ t[k] = q[i] /\ (k # 1 => t[k - 1] = q[k])
      BY <1>1
    <2> HIDE DEF i
    <2>2. Succeeds(q[i - 1].frame, q[i].frame)
      BY <2>1 DEF Ordered
    <2>3. QED
      BY <2>1, <2>2
  <1>5. Latest(q[1].frame, t) = Latest(p, q)
    BY <1>1, <1>2 DEF Latest
  <1>6. QED
    BY <1>3, <1>4, <1>5 DEF Ordered, t

(***************************************************************************)
(* The server's answers to a simple query.                                 *)
(***************************************************************************)
Speaking(p, a) ==
    /\ IsAnswer(a) /\ a = Answer(a.srv, a.out) /\ Ordered(p, a.out)
    /\ a.out # <<>> /\ Latest(p, a.out).tag \in {"C", "E", "N"}
    /\ a.srv.copy # "no" => Latest(p, a.out).tag = "N"

LEMMA OneSpeaks ==
    ASSUME NEW p, NEW t \in ServerState, NEW r \in ServerReply, Succeeds(p, r.frame),
           r.frame.tag \in {"C", "E", "N"}, t.copy # "no" => r.frame.tag = "N"
    PROVE  Speaking(p, Answer(t, <<r>>))
  <1> DEFINE q == <<r>>
  <1>1. /\ q \in Seq(ServerReply) /\ Len(q) = 1 /\ q[1] = r /\ q # <<>>
    OBVIOUS
  <1> HIDE DEF q
  <1>2. Answer(t, q).srv = t /\ Answer(t, q).out = q
    BY DEF Answer
  <1>3. Ordered(p, q) /\ Latest(p, q) = r.frame
    BY <1>1 DEF Ordered, Latest
  <1>4. QED
    BY <1>1, <1>2, <1>3 DEF Speaking, IsAnswer, q

LEMMA RanSpeaks ==
    ASSUME NEW s \in ServerState, s.copy = "no", NEW text \in Statement, NEW sql \in Statement,
           NEW p, p.tag = "Z", NEW n \in Nat
    PROVE  /\ Speaking(p, Ran(s, text, sql, Result(<<Tagged("T")>>, n)))
           /\ \A c \in CommandTag : Speaking(p, Ran(s, text, sql, <<Complete(c)>>))
  <1>1. ASSUME NEW c \in CommandTag PROVE Speaking(p, Ran(s, text, sql, <<Complete(c)>>))
    <2> DEFINE d == Complete(c)
               fs == <<d>>
               a == Ran(s, text, sql, fs)
    <2>1. d \in ServerFrames /\ d.tag = "C"
      BY FrameTypes
    <2> HIDE DEF d
    <2>2. fs \in Seq(ServerFrames) /\ Len(fs) = 1 /\ fs[1] = d
      BY <2>1
    <2> HIDE DEF fs
    <2>3. /\ a.srv \in ServerState /\ a.srv.copy = "no" /\ a.out \in Seq(ServerReply)
          /\ Len(a.out) = 1 /\ a.out[1] = Reply(a.srv, d, text)
      BY <2>1, <2>2, RanIs
    <2>4. a.out[1] \in ServerReply /\ a.out[1].frame = d
      BY <2>1, <2>3, ReplyIs
    <2>5. a = Answer(a.srv, a.out)
      BY DEF Ran, Answer
    <2> HIDE DEF a
    <2>6. a.out = <<a.out[1]>>
      BY <2>3
    <2>7. Succeeds(p, d)
      BY <2>1 DEF Succeeds
    <2>8. Speaking(p, Answer(a.srv, <<a.out[1]>>))
      BY <2>1, <2>3, <2>4, <2>7, OneSpeaks
    <2>9. QED
      BY <2>5, <2>6, <2>8 DEF a, fs, d
  <1>2. Speaking(p, Ran(s, text, sql, Result(<<Tagged("T")>>, n)))
    <2> DEFINE h == Tagged("T")
               row == Tagged("D")
               rows == Rows(n)
               c == Complete("DONE")
               fs == Result(<<h>>, n)
               a == Ran(s, text, sql, fs)
    <2>1. h.tag = "T" /\ row.tag = "D" /\ c.tag = "C" /\ c.command = "DONE"
          /\ h \in ServerFrames /\ c \in ServerFrames /\ row \in ServerFrames
      BY FrameTypes DEF CommandTag
    <2>2. rows = [k \in 1 .. n |-> row] /\ fs = <<h>> \o rows \o <<c>>
      BY DEF Rows, Result
    <2> HIDE DEF h, row, c, rows
    <2>3. rows \in Seq(ServerFrames) /\ Len(rows) = n /\ \A k \in 1 .. n : rows[k] = row
      BY <2>1, <2>2
    <2>4. /\ fs \in Seq(ServerFrames) /\ Len(fs) = n + 2 /\ fs[1] = h /\ fs[n + 2] = c
          /\ \A k \in 2 .. n + 1 : fs[k] = row
      <3> HIDE DEF fs
      <3> DEFINE g == <<h>> \o rows
      <3>1. g \in Seq(ServerFrames) /\ Len(g) = n + 1 /\ g[1] = h
            /\ \A k \in 2 .. n + 1 : g[k] = row
        <4>1. <<h>> \in Seq(ServerFrames) /\ Len(<<h>>) = 1 /\ <<h>>[1] = h
          BY <2>1
        <4> DEFINE hs == <<h>>
        <4> HIDE DEF hs
        <4>2. hs \in Seq(ServerFrames) /\ Len(hs) = 1 /\ hs[1] = h
          BY <4>1 DEF hs
        <4> DEFINE w == hs \o rows
        <4>3. /\ w \in Seq(ServerFrames) /\ Len(w) = n + 1 /\ w[1] = h
              /\ \A k \in 2 .. n + 1 : w[k] = rows[k - 1] /\ k - 1 \in 1 .. n
          <5>1. rows \in Seq(ServerFrames) /\ Len(rows) = n
            BY <2>3
          <5>2. /\ w \in Seq(ServerFrames) /\ Len(w) = Len(hs) + Len(rows)
                /\ \A k \in 1 .. Len(hs) + Len(rows) :
                      w[k] = IF k <= Len(hs) THEN hs[k] ELSE rows[k - Len(hs)]
            BY <4>2, <5>1, ConcatProperties
          <5> HIDE DEF w
          <5>3. /\ w \in Seq(ServerFrames) /\ Len(w) = n + 1
                /\ \A k \in 1 .. n + 1 : w[k] = IF k <= 1 THEN hs[k] ELSE rows[k - 1]
            BY <4>2, <5>1, <5>2
          <5>4. w[1] = hs[1]
            BY <5>3
          <5>5. ASSUME NEW k \in 2 .. n + 1 PROVE w[k] = rows[k - 1] /\ k - 1 \in 1 .. n
            <6>1. k \in 1 .. n + 1 /\ ~(k <= 1) /\ k - 1 \in 1 .. n
              OBVIOUS
            <6>2. QED
              BY <5>3, <6>1
          <5>6. QED
            BY <4>2, <5>3, <5>4, <5>5
        <4> HIDE DEF w
        <4>4. g = w
          BY DEF w, hs
        <4>5. QED
          BY <2>3, <4>3, <4>4
      <3> HIDE DEF g
      <3>2. fs = g \o <<c>>
        BY <2>2 DEF g
      <3>3. c \in ServerFrames
        BY <2>1
      <3>4. QED
        BY <3>1, <3>2, <3>3
    <2> HIDE DEF fs
    <2>5. /\ a.srv \in ServerState /\ a.srv.copy = "no" /\ a.out \in Seq(ServerReply)
          /\ Len(a.out) = n + 2
          /\ \A k \in 1 .. n + 2 :
                a.out[k] = Reply(IF fs[k].tag = "C" THEN a.srv ELSE s, fs[k], text)
      BY <2>4, RanIs
    <2>6. a = Answer(a.srv, a.out)
      BY DEF Ran, Answer
    <2> HIDE DEF a
    <2>7. \A k \in 1 .. n + 2 : a.out[k].frame = fs[k]
      <3>1. \A k \in 1 .. n + 2 : fs[k] \in ServerFrames
        BY <2>4
      <3>2. QED
        BY <2>5, <3>1, ReplyIs
    <2>8. ASSUME NEW k \in 1 .. Len(a.out)
          PROVE  Succeeds(IF k = 1 THEN p ELSE a.out[k - 1].frame, a.out[k].frame)
      <3>1. CASE k = 1
        BY <2>1, <2>4, <2>5, <2>7, <3>1 DEF Succeeds
      <3>2. CASE k \in 2 .. n + 1
        <4>1. a.out[k].frame = row /\ a.out[k - 1].frame \in {h, row}
          <5>1. k - 1 \in 1 .. n + 2 /\ k \in 1 .. n + 2 /\ (k - 1 = 1 \/ k - 1 \in 2 .. n + 1)
            BY <3>2
          <5>2. QED
            BY <2>4, <2>7, <3>2, <5>1
        <4>2. k # 1
          BY <3>2
        <4>3. QED
          BY <2>1, <4>1, <4>2 DEF Succeeds
      <3>3. CASE k = n + 2
        <4>1. a.out[k].frame = c /\ k # 1 /\ a.out[k - 1].frame \in {h, row}
          <5>1. k - 1 \in 1 .. n + 2 /\ k \in 1 .. n + 2 /\ (k - 1 = 1 \/ k - 1 \in 2 .. n + 1)
            BY <3>3
          <5>2. k # 1
            BY <3>3
          <5>3. QED
            BY <2>4, <2>7, <3>3, <5>1, <5>2
        <4>2. QED
          BY <2>1, <4>1 DEF Succeeds
      <3>4. QED
        BY <2>5, <3>1, <3>2, <3>3
    <2>9. Latest(p, a.out) = c /\ a.out # <<>>
      <3>1. a.out # <<>> /\ n + 2 \in 1 .. n + 2
        BY <2>5
      <3>2. QED
        BY <2>4, <2>5, <2>7, <3>1 DEF Latest
    <2>10. QED
      BY <2>1, <2>5, <2>6, <2>8, <2>9 DEF Speaking, IsAnswer, Ordered, a, fs, h
  <1>3. QED
    BY <1>1, <1>2

LEMMA RunSpeaks ==
    ASSUME NEW s \in ServerState, s.copy = "no", NEW text \in Statement, NEW sql \in Statement,
           NEW p, p.tag = "Z", NEW a \in Run(s, text, sql, <<Tagged("T")>>)
    PROVE  Speaking(p, a)
  <1> DEFINE class == ClassOf(sql)
             c == TagOf(s.tx, class)
             h == <<Tagged("T")>>
  <1>1. c \in CommandTag /\ "DONE" \in CommandTag
    BY ServerTypes, ServerFields DEF CommandTag
  <1>2. CASE a = Fail(s, text)
    <2> DEFINE t == a.srv
               r == Reply(t, Tagged("E"), text)
    <2>1. t \in ServerState /\ t.copy = "no" /\ a.out = <<r>> /\ r \in ServerReply
      BY <1>2, FailIs
    <2>2. r.frame = Tagged("E") /\ Tagged("E").tag = "E"
      BY DEF Reply, Tagged
    <2>3. a = Answer(t, a.out)
      BY <1>2 DEF Fail, Answer
    <2> HIDE DEF r, t
    <2>4. Succeeds(p, r.frame)
      BY <2>2 DEF Succeeds
    <2>5. QED
      BY <2>1, <2>2, <2>3, <2>4, OneSpeaks DEF t
  <1>3. CASE a = Copying(s, text, sql, "Q")
    <2> DEFINE t == a.srv
               r == Reply(s, Tagged("N"), text)
    <2>1. t \in ServerState /\ a.out = <<r>> /\ r \in ServerReply
      BY <1>3, CopyingIs
    <2>2. r.frame = Tagged("N") /\ Tagged("N").tag = "N"
      BY DEF Reply, Tagged
    <2>3. a = Answer(t, a.out)
      BY <1>3 DEF Copying, Answer
    <2> HIDE DEF r, t
    <2>4. Succeeds(p, r.frame)
      BY <2>2 DEF Succeeds
    <2>5. QED
      BY <2>1, <2>2, <2>3, <2>4, OneSpeaks DEF t
  <1>4. h # <<>>
    OBVIOUS
  <1>5. \/ a = Fail(s, text)
        \/ a = Copying(s, text, sql, "Q")
        \/ \E d \in {c, "DONE"} : a = Ran(s, text, sql, <<Complete(d)>>)
        \/ \E n \in 0 .. MaxRows : a = Ran(s, text, sql, Result(h, n))
    <2> HIDE DEF h
    <2>1. a \in Run(s, text, sql, h)
      BY DEF h
    <2>2. QED
      BY <1>4, <2>1 DEF Run
  <1>6. 0 .. MaxRows \subseteq Nat
    BY SessionAssumption
  <1>7. QED
    <2>1. ASSUME NEW d \in {c, "DONE"}, a = Ran(s, text, sql, <<Complete(d)>>)
          PROVE  Speaking(p, a)
      <3>1. d \in CommandTag /\ 0 \in Nat
        BY <1>1
      <3>2. QED
        BY <2>1, <3>1, RanSpeaks
    <2>2. ASSUME NEW n \in 0 .. MaxRows, a = Ran(s, text, sql, Result(h, n))
          PROVE  Speaking(p, a)
      BY <1>6, <2>2, RanSpeaks
    <2>3. QED
      BY <1>2, <1>3, <1>5, <2>1, <2>2

LEMMA TextSpeaks ==
    ASSUME Short, NEW s \in ServerState, s.copy = "no", ~s.skip, NEW text \in Sql,
           NEW p, p.tag = "Z", NEW a \in RunText(s, text, <<Tagged("T")>>)
    PROVE  Speaking(p, a)
  <1> DEFINE sqls == StatementsOf(text)
             header == <<Tagged("T")>>
  <1>1. sqls \in Seq(Sql) /\ sqls \in Seq(Statement) /\ Len(sqls) <= 1 /\ text \in Statement
    BY StatementsType DEF Short, Statement
  <1>2. CASE sqls = <<>>
    <2> DEFINE r == Reply(s, Tagged("N"), text)
    <2>1. a = Answer(s, <<r>>)
      BY <1>2 DEF RunText
    <2>2. r \in ServerReply /\ r.frame = Tagged("N") /\ Tagged("N").tag = "N"
      BY <1>1, ReplyIs, FrameTypes
    <2> HIDE DEF r
    <2>3. Succeeds(p, r.frame)
      BY <2>2 DEF Succeeds
    <2>4. QED
      BY <2>1, <2>2, <2>3, OneSpeaks
  <1>3. CASE sqls # <<>>
    <2>1. Len(sqls) = 1 /\ sqls[1] \in Statement
      BY <1>1, <1>3
    <2>2. PICK f : f = Progress(s, text, sqls, header, f) /\ RunText(s, text, header) = f[Len(sqls)]
      BY <1>3, RunTextIs
    <2> DEFINE x == sqls[1]
    <2> HIDE DEF sqls
    <2>3. f[0] = {Answer(s, <<>>)} /\ f[1] = NextAnswers(text, header, x, f[0])
      <3>1. \A k \in 0 .. 1 : f[k] = IF k = 0 THEN {Answer(s, <<>>)}
                                     ELSE NextAnswers(text, header, sqls[k], f[k - 1])
        BY <2>1, <2>2 DEF Progress
      <3>2. 0 \in 0 .. 1 /\ 1 \in 0 .. 1 /\ 1 - 1 = 0 /\ 1 # 0
        OBVIOUS
      <3>3. QED
        BY <3>1, <3>2
    <2>4. a \in NextAnswers(text, header, x, {Answer(s, <<>>)})
      BY <2>1, <2>2, <2>3
    <2>5. Answer(s, <<>>).srv = s /\ Answer(s, <<>>).out = <<>>
      BY DEF Answer
    <2> DEFINE t == Began(s)
    <2>6. PICK b \in Run(t, text, x, header) : a = Answer(b.srv, <<>> \o b.out)
      BY <2>4, <2>5 DEF NextAnswers
    <2>7. Speaking(p, b)
      <3>1. t \in ServerState /\ t.copy = "no"
        BY BeganIs
      <3> HIDE DEF t
      <3>2. QED
        BY <1>1, <2>1, <3>1, RunSpeaks
    <2> DEFINE w == b.out
    <2>8. w \in Seq(ServerReply) /\ b = Answer(b.srv, w)
      BY <2>7 DEF Speaking, IsAnswer
    <2>9. <<>> \o w = w
      BY <2>8
    <2>10. QED
      BY <2>6, <2>7, <2>8, <2>9
  <1>4. QED
    BY <1>2, <1>3

(***************************************************************************)
(* A stream of replies always stands at a ReadyForQuery, or at the         *)
(* CopyInResponse of a COPY under way.                                     *)
(***************************************************************************)
Pause(s) == IF s.copy = "no" THEN "Z" ELSE "N"

LEMMA ReadySpeaks ==
    ASSUME NEW p, NEW c, Speaking(p, c), c.srv.copy = "no"
    PROVE  LET a == Ready(c) IN
           /\ a.out \in Seq(ServerReply) /\ Ordered(p, a.out)
           /\ Latest(p, a.out).tag = "Z" /\ a.srv.copy = "no"
  <1> DEFINE t == c.srv
             q == c.out
             a == Ready(c)
             z == a.out[Len(q) + 1]
  <1>1. /\ t \in ServerState /\ q \in Seq(ServerReply) /\ c = Answer(t, q)
        /\ Ordered(p, q) /\ Latest(p, q).tag \in {"C", "E", "N"} /\ t.copy = "no"
    BY DEF Speaking, IsAnswer
  <1>2. a = Ready(Answer(t, q))
    BY <1>1
  <1> HIDE DEF t, q
  <1>3. /\ a.out \in Seq(ServerReply) /\ Len(a.out) = Len(q) + 1 /\ a.srv.copy = "no"
        /\ \A k \in 1 .. Len(q) : a.out[k] = q[k]
        /\ z \in ServerReply /\ z.frame.tag = "Z"
    BY <1>1, <1>2, ReadyIs
  <1> DEFINE w == a.out
             o == <<z>>
  <1>4. w \in Seq(ServerReply) /\ Len(w) = Len(q) + 1 /\ w[Len(q) + 1] = z
        /\ \A k \in 1 .. Len(q) : w[k] = q[k]
    BY <1>3
  <1>5. z \in ServerReply
    BY <1>3
  <1> HIDE DEF a, z, w
  <1>9. w = q \o o /\ o \in Seq(ServerReply) /\ Len(o) = 1 /\ o[1] = z
    <2>1. q \in Seq(ServerReply)
      BY <1>1
    <2>2. QED
      BY ONLY <1>4, <1>5, <2>1, LastJoined
  <1> HIDE DEF o
  <1>10. o # <<>> /\ \A k \in 1 .. Len(o) : k = 1
    <2>1. Len(o) = 1
      BY <1>9
    <2>2. QED
      BY <2>1
  <1>6. Ordered(Latest(p, q), o) /\ Latest(Latest(p, q), o) = z.frame
    <2>1. Succeeds(Latest(p, q), z.frame)
      BY <1>1, <1>3 DEF Succeeds
    <2>2. QED
      BY <1>9, <1>10, <2>1 DEF Ordered, Latest
  <1>7. Ordered(p, q \o o) /\ Latest(p, q \o o) = z.frame
    BY <1>1, <1>6, <1>9, OrderedJoin
  <1>8. QED
    BY <1>3, <1>7, <1>9 DEF a, w

LEMMA SimpleAnswers ==
    ASSUME Short, NEW s \in ServerState, NEW f \in ClientFrames, NEW a \in Answers(s, f),
           s.copy \in {"no", "Q"}, s.copy = "no" => f.tag = "Q" /\ ~s.skip,
           s.copy # "no" => f.tag = "c", NEW p, p.tag = Pause(s)
    PROVE  /\ a.out \in Seq(ServerReply) /\ Ordered(p, a.out)
           /\ Latest(p, a.out).tag = Pause(a.srv)
  <1>1. CASE s.copy = "no"
    <2> DEFINE u == Numbered(s, f)
               t == [u EXCEPT !.stmts[Unnamed] = NoSql, !.portals[Unnamed] = NoSql]
    <2>1. u \in ServerState /\ u.copy = "no" /\ ~u.skip
      BY <1>1, NumberedIs
    <2>2. t \in ServerState /\ t.copy = "no" /\ ~t.skip
      BY <2>1, ClearedIs DEF SameButMaps
    <2>3. a \in QueryAnswers(u, f)
      <3>1. f.tag = "Q"
        BY <1>1
      <3> HIDE DEF u
      <3>2. AnswersTo(u, f) = QueryAnswers(u, f)
        BY <2>1, <3>1 DEF AnswersTo
      <3>3. QED
        BY <1>1, <3>2 DEF Answers, u
    <2>4. PICK b \in RunText(t, f.sql, <<Tagged("T")>>) :
             a = IF b.srv.copy = "no" THEN Ready(b) ELSE b
      BY <2>3 DEF QueryAnswers
    <2>5. f.sql \in Sql /\ p.tag = "Z"
      BY <1>1, ClientFields DEF Pause
    <2> HIDE DEF t
    <2>6. Speaking(p, b)
      BY <2>2, <2>5, TextSpeaks
    <2>7. CASE b.srv.copy = "no"
      BY <2>4, <2>6, <2>7, ReadySpeaks DEF Pause
    <2>8. CASE b.srv.copy # "no"
      BY <2>4, <2>6, <2>8 DEF Pause, Speaking, IsAnswer
    <2>9. QED
      BY <2>7, <2>8
  <1>2. CASE s.copy = "Q"
    <2> DEFINE t == [s EXCEPT !.copy = "no"]
               c == Complete("DONE")
               fs == <<c>>
               b == Ran(t, s.last, s.last, fs)
    <2>1. t \in ServerState /\ t.copy = "no" /\ s.last \in Statement
      BY ServerFields DEF ServerState
    <2>2. a = Ready(b)
      <3>1. f.tag = "c" /\ s.copy # "no"
        BY <1>2
      <3>2. QED
        BY <1>2, <3>1 DEF Answers, CopyAnswers
    <2>3. c \in ServerFrames /\ c.tag = "C" /\ c.command = "DONE"
      BY FrameTypes DEF CommandTag
    <2> HIDE DEF t, c
    <2>4. fs \in Seq(ServerFrames) /\ Len(fs) = 1 /\ fs[1] = c
      BY <2>3
    <2> HIDE DEF fs
    <2>5. /\ b.srv \in ServerState /\ b.srv.copy = "no" /\ b.out \in Seq(ServerReply)
          /\ Len(b.out) = 1 /\ b.out[1] = Reply(b.srv, c, s.last)
      BY <2>1, <2>3, <2>4, RanIs
    <2>6. b.out[1] \in ServerReply /\ b.out[1].frame = c
      BY <2>1, <2>3, <2>5, ReplyIs
    <2>7. b = Answer(b.srv, b.out)
      BY DEF Ran, Answer
    <2> HIDE DEF b
    <2>8. b.out = <<b.out[1]>>
      BY <2>5
    <2>9. Succeeds(p, c)
      BY <1>2, <2>3 DEF Succeeds, Pause
    <2>10. Speaking(p, Answer(b.srv, <<b.out[1]>>))
      BY <2>3, <2>5, <2>6, <2>9, OneSpeaks
    <2>11. Speaking(p, b)
      BY <2>7, <2>8, <2>10
    <2>12. QED
      BY <2>2, <2>5, <2>11, ReadySpeaks DEF Pause
  <1>3. QED
    BY <1>1, <1>2

(***************************************************************************)
(* Only result.started sets the counter, which is what validate() is for.  *)
(***************************************************************************)
Cuts(i) == Config[i].action.truncate_result # None

LEMMA NeverCuts ==
    ASSUME NEW ms, NEW es, \A k \in DOMAIN es : es[k].event # "result.started",
           NEW i \in DOMAIN Config, Cuts(i)
    PROVE  ~Fires(Config[i], ms[i], es)
  <1>1. Config[i].when.event = "result.started"
    BY ConfigAssumption DEF Valid, Cuts
  <1>2. QED
    BY <1>1 DEF Fires, MatchesOne, Matches

LEMMA Uncut ==
    ASSUME NEW ms, NEW es, \A k \in DOMAIN es : es[k].event # "result.started"
    PROVE  \A before : Truncates(Fired(ms, es), before) = before
  <1>1. {i \in Fired(ms, es) : Config[i].action.truncate_result # None} = {}
    BY NeverCuts DEF Fired, Cuts
  <1>2. QED
    BY <1>1 DEF Truncates

LEMMA UncutFault ==
    ASSUME NEW ms, NEW es, \A k \in DOMAIN es : es[k].event # "result.started",
           NEW fs, NEW i \in DOMAIN Config, Cuts(i)
    PROVE  RecordFaults(fs, ms, es)[i] = fs[i]
  <1>1. ~Fires(Config[i], ms[i], es)
    BY NeverCuts
  <1>2. QED
    BY <1>1 DEF RecordFaults

LEMMA ClientUncut ==
    ASSUME NEW f, ClientFrame(f)
    PROVE  /\ truncate' = truncate /\ held' = held /\ conn' # "truncated"
           /\ \A i \in DOMAIN Config : Cuts(i) => faults'[i] = faults[i]
  <1>1. PICK ok \in BOOLEAN : ClientRelay(f, ok)
    BY DEF ClientFrame
  <1>2. PICK forwarded : ClientApplies(f, ok, forwarded)
    BY <1>1, ClientArm
  <1>3. Frontend(f) /\ held' = held /\ conn' # "truncated"
    BY <1>1 DEF ClientRelay, Return, StayOpen
  <1>4. \A k \in DOMAIN events' : events'[k].event # "result.started"
    BY <1>3, FrontendNames DEF UpstreamEvent
  <1>5. \A k \in DOMAIN forwarded : forwarded[k].event # "result.started"
    <2>1. forwarded \in {<<>>, <<Forwarded(cycles', tx_epoch')>>}
      BY <1>2 DEF ClientApplies
    <2>2. Forwarded(cycles', tx_epoch').event = "query.forwarded"
      BY DEF Forwarded, FrontendEvent
    <2>3. QED
      BY <2>1, <2>2
  <1> DEFINE ms == ObserveAll(matchers, events')
             fs == RecordFaults(faults, matchers, events')
  <1>6. /\ truncate' = Truncates(Fired(ms, forwarded), Truncates(Fired(matchers, events'), truncate))
        /\ faults' = RecordFaults(fs, ms, forwarded)
    BY <1>2 DEF ClientApplies
  <1>7. truncate' = truncate
    BY <1>4, <1>5, <1>6, Uncut
  <1>8. ASSUME NEW i \in DOMAIN Config, Cuts(i) PROVE faults'[i] = faults[i]
    <2>1. fs[i] = faults[i]
      BY <1>4, <1>8, UncutFault
    <2>2. RecordFaults(fs, ms, forwarded)[i] = fs[i]
      BY <1>5, <1>8, UncutFault
    <2>3. QED
      BY <1>6, <2>1, <2>2
  <1>9. QED
    BY <1>3, <1>7, <1>8

(***************************************************************************)
(* What a scenario that has fired asks for.                                *)
(***************************************************************************)
Cutting(fs) == {i \in DOMAIN Config : fs[i] # None /\ Cuts(i)}

Owed(fs, n) ==
    \E i \in Cutting(fs) : /\ \A j \in Cutting(fs) : fs[j].cycle <= fs[i].cycle
                           /\ Config[i].action.truncate_result = n

LEMMA OwedKept ==
    ASSUME NEW fs, NEW gs, \A i \in DOMAIN Config : Cuts(i) => gs[i] = fs[i]
    PROVE  /\ Cutting(gs) = Cutting(fs)
           /\ \A j \in Cutting(fs) : gs[j] = fs[j]
           /\ \A n : Owed(fs, n) => Owed(gs, n)
  <1>1. Cutting(gs) = Cutting(fs) /\ \A j \in Cutting(fs) : gs[j] = fs[j]
    BY DEF Cutting, Cuts
  <1>2. QED
    BY <1>1 DEF Owed

LEMMA RowsShownIs ==
    ASSUME NEW n \in Nat, NEW f, NEW q \in Seq(BackendFrame)
    PROVE  /\ RowsShown(<<>>, n) = n
           /\ f.tag \in {"C", "Z", "E"} => RowsShown(<<f>>, n) = 0
           /\ f.tag = "D" => RowsShown(<<f>>, n) = n + 1
           /\ f.tag \notin {"C", "Z", "E", "D"} => RowsShown(<<f>>, n) = n
           /\ f \in BackendFrame /\ f.tag = "Z" => RowsShown(Append(q, f), n) = 0
  <1> DEFINE ends(fs) == {k \in DOMAIN fs : fs[k].tag \in {"C", "Z", "E"}}
             rows(fs, m) == {k \in DOMAIN fs : k > m /\ fs[k].tag = "D"}
             upto(fs) == CHOOSE k \in ends(fs) : \A j \in ends(fs) : j <= k
  <1>1. ASSUME NEW fs, ends(fs) = {}
        PROVE  RowsShown(fs, n) = n + Cardinality(rows(fs, 0))
    BY <1>1 DEF RowsShown
  <1>2. ASSUME NEW fs, NEW m \in Nat, DOMAIN fs = 1 .. m, m \in ends(fs)
        PROVE  RowsShown(fs, n) = 0
    <2>1. \A j \in ends(fs) : j \in 1 .. m
      BY <1>2
    <2>2. upto(fs) = m
      <3>1. \A j \in ends(fs) : j <= m
        BY <2>1
      <3>2. upto(fs) \in ends(fs) /\ \A j \in ends(fs) : j <= upto(fs)
        BY <1>2, <3>1
      <3>3. upto(fs) <= m /\ m <= upto(fs) /\ upto(fs) \in 1 .. m
        BY <1>2, <2>1, <3>2
      <3> HIDE DEF upto
      <3>4. QED
        BY <3>3
    <2>3. ends(fs) # {}
      BY <1>2
    <2>4. RowsShown(fs, n) = 0 + Cardinality(rows(fs, upto(fs)))
      BY <2>3 DEF RowsShown
    <2>5. rows(fs, m) = {}
      BY <1>2
    <2>6. rows(fs, upto(fs)) = rows(fs, m)
      BY <2>2
    <2>7. Cardinality({}) = 0 /\ 0 + 0 = 0
      BY FS_EmptySet
    <2> HIDE DEF rows, upto
    <2>8. QED
      BY <2>4, <2>5, <2>6, <2>7
  <1>3. RowsShown(<<>>, n) = n
    <2>1. ends(<<>>) = {} /\ rows(<<>>, 0) = {}
      OBVIOUS
    <2>2. QED
      BY <1>1, <2>1, FS_EmptySet
  <1>4. DOMAIN <<f>> = 1 .. 1 /\ <<f>>[1] = f /\ 1 .. 1 = {1} /\ 1 > 0
    OBVIOUS
  <1>5. f.tag \in {"C", "Z", "E"} => RowsShown(<<f>>, n) = 0
    <2>1. f.tag \in {"C", "Z", "E"} => 1 \in ends(<<f>>)
      BY <1>4
    <2>2. QED
      BY <1>2, <1>4, <2>1
  <1>6. f.tag = "D" => RowsShown(<<f>>, n) = n + 1
    <2>1. f.tag = "D" => ends(<<f>>) = {} /\ rows(<<f>>, 0) = {1}
      BY <1>4
    <2>2. Cardinality({1}) = 1
      BY FS_Singleton
    <2>3. QED
      BY <1>1, <2>1, <2>2
  <1>7. f.tag \notin {"C", "Z", "E", "D"} => RowsShown(<<f>>, n) = n
    <2>1. f.tag \notin {"C", "Z", "E", "D"} => ends(<<f>>) = {} /\ rows(<<f>>, 0) = {}
      BY <1>4
    <2>2. QED
      BY <1>1, <2>1, FS_EmptySet
  <1>8. f \in BackendFrame /\ f.tag = "Z" => RowsShown(Append(q, f), n) = 0
    <2> SUFFICES ASSUME f \in BackendFrame, f.tag = "Z" PROVE RowsShown(Append(q, f), n) = 0
      OBVIOUS
    <2> DEFINE fs == Append(q, f)
               m == Len(q) + 1
    <2>1. m \in Nat /\ DOMAIN fs = 1 .. m /\ fs[m] = f /\ m \in 1 .. m
      OBVIOUS
    <2> HIDE DEF fs, m
    <2>2. m \in ends(fs)
      BY <2>1
    <2>3. RowsShown(fs, n) = 0
      BY <1>2, <2>1, <2>2
    <2>4. QED
      BY <2>3 DEF fs
  <1>9. QED
    BY <1>3, <1>5, <1>6, <1>7, <1>8

(***************************************************************************)
(* No reply of a result is suppressed: only the end of a transaction block *)
(* is, which has no rows.                                                  *)
(***************************************************************************)
BlockEnd == {"transaction.commit.completed", "transaction.rollback.completed"}

Unbroken ==
    \A i \in DOMAIN Config :
        Config[i].action.suppress = TRUE => Config[i].when.event \in BlockEnd

LEMMA NothingSuppressed ==
    ASSUME Unbroken, NEW ms, NEW es, \A k \in DOMAIN es : es[k].event \notin BlockEnd
    PROVE  ~Suppresses(Fired(ms, es))
  BY DEF Unbroken, Suppresses, Fired, Fires, MatchesOne, Matches

LEMMA StartedByHeader ==
    ASSUME TypeOK, NEW f \in ServerFrames, Backend(f),
           f.tag \in {"T", "D", "C", "E", "N", "S", "Z"}
    PROVE  /\ f.tag # "T" => \A k \in DOMAIN events' : events'[k].event # "result.started"
           /\ f.tag # "Z" => \A k \in DOMAIN events' : events'[k].event \notin BlockEnd
           /\ f.tag = "Z" => \A k \in DOMAIN events' : events'[k].event \in BlockEnd =>
                                events'[k].event = Completed(StatusOf(f))
  <1>1. \A k \in DOMAIN events' : events'[k].event \in Named(events')
    BY DEF Named
  <1>2. CASE f.tag = "Z"
    <2>1. PICK failed \in {"transaction.failed", None} :
             Named(events') = {"backend.ready", failed, Completed(StatusOf(f)),
                               "connection.ready"} \ {None}
      BY <1>2, BackendEventsAre
    <2>2. Completed(StatusOf(f)) \in CompletedEvent \cup {None}
      BY DEF Completed, TransactionEnd, CompletedEvent
    <2>3. QED
      BY <1>1, <1>2, <2>1, <2>2 DEF CompletedEvent, BlockEnd
  <1>3. CASE f.tag \in {"D", "C"}
    BY <1>1, <1>3, BackendEventsAre DEF BlockEnd
  <1>4. CASE f.tag = "T"
    BY <1>1, <1>4, BackendEventsAre DEF BlockEnd
  <1>5. CASE f.tag \in {"N", "S"}
    <2>1. events' = <<>>
      BY <1>5 DEF Backend, BackendParameterStatus, BackendAcknowledge,
           BackendRowDescription, BackendDataRow, BackendCommandComplete,
           BackendPortalSuspended, BackendError, BackendReady, BackendOther
    <2>2. QED
      BY <1>5, <2>1
  <1>6. CASE f.tag = "E"
    <2> DEFINE names == <<"backend.error">>
    <2>1. PICK cs : events' = BackendEvents(names, cs)
      BY <1>6 DEF Backend, BackendParameterStatus, BackendAcknowledge,
           BackendRowDescription, BackendDataRow, BackendCommandComplete,
           BackendPortalSuspended, BackendError, BackendReady, BackendOther
    <2>2. \A k \in DOMAIN names : names[k] = "backend.error"
      OBVIOUS
    <2> HIDE DEF names
    <2>3. /\ DOMAIN BackendEvents(names, cs) = DOMAIN names
          /\ \A k \in DOMAIN names : BackendEvents(names, cs)[k].event = names[k]
      BY EventNames
    <2>4. QED
      BY <1>6, <2>1, <2>2, <2>3 DEF BlockEnd
  <1>7. QED
    BY <1>2, <1>3, <1>4, <1>5, <1>6

LEMMA BlockCommand ==
    ASSUME NEW new, Completed(new) \in BlockEnd, cycles \in Seq(Cycle)
    PROVE  cycles # <<>> /\ cycles[1].command \in {"COMMIT", "ROLLBACK"}
  <1>1. None \notin BlockEnd /\ "transaction.implicit.completed" \notin BlockEnd
    BY EventAssumption DEF EventName, BlockEnd, CompletedEvent
  <1>2. cycles # <<>>
    BY <1>1 DEF Completed
  <1>3. Head(cycles) = cycles[1]
    BY <1>2
  <1>4. QED
    BY <1>1, <1>2, <1>3 DEF Completed, TransactionEnd

(***************************************************************************)
(* A frame other than ReadyForQuery, with nothing behind the gate.         *)
(***************************************************************************)
LEMMA ServerRelays ==
    ASSUME Unbroken, TypeOK, NEW f \in ServerFrames, ServerFrame(f), held = <<>>,
           f.tag \in {"T", "D", "C", "E", "N", "S"}
    PROVE  /\ conn' = "open" => /\ truncate' = RowsLeft(f)
                                /\ to_client' \in {<<>>, <<f>>}
                                /\ f.tag # "C" => held' = <<>> /\ to_client' = <<f>>
           /\ conn' = "truncated" =>
                /\ f.tag = "D"
                /\ \/ TruncateNow = 0 /\ to_client' = <<>>
                   \/ TruncateNow # 0 /\ RowsLeft(f) = 0 /\ to_client' = <<f>>
  <1>1. Observed(f) /\ Backend(f) /\ conn = "open" /\ fired' = Fired(matchers, events')
    BY DEF ServerFrame, Observed
  <1>2. ~Suppresses(fired')
    BY <1>1, StartedByHeader, NothingSuppressed
  <1>3. f.tag # "C" => Disposal(f) = "written"
    <2>1. f.tag # "C" => ~Gate(f)
      BY GateFacts
    <2>2. QED
      BY <1>2, <2>1 DEF Disposal
  <1>4. CASE ServerDisconnected
    BY <1>4 DEF ServerDisconnected, Return
  <1>5. CASE ServerCut(f)
    BY <1>5 DEF ServerCut, CutsHere, Return
  <1>6. CASE ServerReady(f)
    BY <1>6 DEF ServerReady
  <1>7. CASE ServerRelayed(f)
    BY <1>1, <1>3, <1>7 DEF ServerRelayed, Return, StayOpen, CutsHere
  <1>8. CASE ServerWriteFails(f)
    BY <1>8 DEF ServerWriteFails, Return
  <1>9. QED
    BY <1>4, <1>5, <1>6, <1>7, <1>8 DEF ServerFrame

(***************************************************************************)
(* RowDescription: the scenario that fires on it is owed its rows.         *)
(***************************************************************************)
LEMMA HeaderOwes ==
    ASSUME NEW n \in Nat, NEW ms \in [DOMAIN Config -> Matcher], NEW es \in Seq(Event),
           \A k \in DOMAIN es : es[k].cycle = n,
           NEW fs \in [DOMAIN Config -> Event \cup {None}],
           \A j \in Cutting(fs) : fs[j].cycle <= n
    PROVE  LET gs == RecordFaults(fs, ms, es)
               cut == Truncates(Fired(ms, es), None)
           IN  /\ \A j \in Cutting(gs) : gs[j].cycle <= n
               /\ cut # None => Owed(gs, cut)
  <1> DEFINE gs == RecordFaults(fs, ms, es)
             F == Fired(ms, es)
             cut == Truncates(F, None)
             cutting == {i \in F : Config[i].action.truncate_result # None}
             last == CHOOSE i \in cutting : \A j \in cutting : j <= i
  <1>1. \A i \in DOMAIN Config :
           /\ i \notin F => gs[i] = fs[i]
           /\ i \in F => gs[i] \in Event
    BY RecordFaultsFacts
  <1>2. ASSUME NEW i \in DOMAIN Config, i \in F PROVE gs[i].cycle = n
    <2>1. Fires(Config[i], ms[i], es) /\ \E k \in DOMAIN es : Matches(Config[i], ms[i], es[k])
      BY <1>2 DEF Fired, Fires, MatchesOne
    <2> DEFINE k == CHOOSE k \in DOMAIN es : Matches(Config[i], ms[i], es[k])
    <2>2. k \in DOMAIN es
      BY <2>1
    <2>3. gs[i] = es[k]
      BY <2>1 DEF RecordFaults, Coordinate
    <2> HIDE DEF k
    <2>4. QED
      BY <2>2, <2>3
  <1> HIDE DEF gs
  <1>3. \A j \in Cutting(gs) : gs[j].cycle <= n /\ (j \in F => gs[j].cycle = n)
    <2> SUFFICES ASSUME NEW j \in Cutting(gs)
                 PROVE  gs[j].cycle <= n /\ (j \in F => gs[j].cycle = n)
      OBVIOUS
    <2>1. CASE j \in F
      BY <1>2, <2>1 DEF Cutting
    <2>2. CASE j \notin F
      <3>1. j \in Cutting(fs) /\ gs[j] = fs[j]
        BY <1>1, <2>2 DEF Cutting
      <3>2. QED
        BY <2>2, <3>1
    <2>3. QED
      BY <2>1, <2>2
  <1>4. ASSUME cut # None PROVE Owed(gs, cut)
    <2>1. cutting # {} /\ F \subseteq DOMAIN Config
      BY <1>4 DEF Truncates, Fired
    <2>2. DOMAIN Config = 1 .. Len(Config) /\ Len(Config) \in Nat
      BY ConfigAssumption
    <2>3. cutting \in SUBSET (0 .. Len(Config))
      BY <2>1, <2>2
    <2>4. \E i \in cutting : \A j \in cutting : j <= i
      <3> HIDE DEF cutting
      <3>1. QED
        BY <2>1, <2>2, <2>3, GreatestNumber
    <2>5. last \in cutting
      BY <2>4
    <2>6. cut = Config[last].action.truncate_result
      BY <2>1 DEF Truncates
    <2> HIDE DEF last, cut
    <2>7. last \in F /\ last \in DOMAIN Config /\ Cuts(last)
      BY <2>1, <2>5 DEF Cuts
    <2>8. gs[last] # None /\ gs[last].cycle = n
      BY <1>1, <1>2, <2>7, ConfigAssumption
    <2>9. last \in Cutting(gs)
      BY <2>7, <2>8 DEF Cutting
    <2>10. QED
      BY <1>3, <2>6, <2>8, <2>9 DEF Owed
  <1>5. QED
    BY <1>3, <1>4 DEF gs

(***************************************************************************)
(* p is the reply the proxy has handled last.                              *)
(***************************************************************************)
Streaming(p) ==
    /\ Ordered(p, replies) /\ Latest(p, replies).tag = Pause(srv)
    /\ shown \in Nat
    /\ p.tag # "C" => held = <<>>
    /\ p.tag \notin {"D", "C"} => shown = 0
    /\ p.tag \in {"Z", "N", "S"} => truncate = None
    /\ p.tag \in {"T", "D"} /\ truncate # None => Owed(faults, truncate + shown)
    /\ p.tag = "C" => /\ cycles # <<>> /\ cycles[1].command = p.command
                      /\ shown # 0 => p.command = "DONE"
    /\ \A j \in Cutting(faults) : faults[j].cycle <= Answering

RowInv ==
    /\ AlignedInv /\ ProxyTypeOK /\ ExactRows
    /\ conn = "open" => \E p : Streaming(p)

LEMMA ExactRowsIs == ExactRows <=> (conn = "truncated" => Owed(faults, shown))
  BY DEF ExactRows, Owed, Cutting, Cuts

(***************************************************************************)
(* A client step.                                                          *)
(***************************************************************************)
LEMMA ClientStreams ==
    ASSUME Orderly, SimpleOnly, Short, AlignedInv, NEW f \in ClientFrames, ClientStep(f),
           NEW p, Streaming(p)
    PROVE  conn' # "truncated" /\ (conn' = "open" => Streaming(p)')
  <1>1. /\ truncate' = truncate /\ held' = held /\ conn' # "truncated" /\ shown' = shown
        /\ \A i \in DOMAIN Config : Cuts(i) => faults'[i] = faults[i]
    BY ClientUncut DEF ClientStep
  <1> SUFFICES ASSUME conn' = "open" PROVE Streaming(p)'
    BY <1>1
  <1>2. /\ conn = "open" /\ Connected /\ Frontend(f) /\ f.tag # "X"
        /\ f.tag = "Q" => ~srv.skip
        /\ srv.copy # "no" => f.tag = "c"
        /\ srv.copy = "no" => f.tag # "c"
        /\ \E a : Joins(f, a)
    BY ClientTurn
  <1>3. PICK a : Joins(f, a)
    BY <1>2
  <1>4. /\ srv \in ServerState /\ replies \in Seq(ServerReply) /\ srv.copy \in {"no", "Q"}
        /\ Chained(replies, srv, next_cycle) /\ srv.cycle # 0
    BY <1>2 DEF Connected, InStep
  <1>5. /\ a \in Answers(srv, f) /\ Turn(srv, a) /\ srv' = a.srv /\ replies' = replies \o a.out
    BY <1>3 DEF Joins
  <1>6. srv.copy = "no" => f.tag = "Q" /\ ~srv.skip
    BY <1>2 DEF SimpleOnly
  <1> DEFINE g == Latest(p, replies)
  <1>7. Ordered(p, replies) /\ g.tag = Pause(srv)
    BY DEF Streaming
  <1> HIDE DEF g
  <1>8. a.out \in Seq(ServerReply) /\ Ordered(g, a.out) /\ Latest(g, a.out).tag = Pause(a.srv)
    BY <1>2, <1>4, <1>5, <1>6, <1>7, SimpleAnswers
  <1>9. Ordered(p, replies \o a.out) /\ Latest(p, replies \o a.out) = Latest(g, a.out)
    BY <1>4, <1>7, <1>8, OrderedJoin DEF g
  <1>10. Ordered(p, replies)' /\ Latest(p, replies)'.tag = Pause(srv)'
    BY <1>5, <1>8, <1>9
  <1>11. Answering' = Answering
    <2> DEFINE m == next_cycle + srv.cycle
    <2>1. next_cycle \in Nat /\ srv.cycle \in Nat
      BY <1>4, ServerFields DEF AlignedInv, TypeOK
    <2>2. m \in Nat /\ next_cycle <= m /\ srv.cycle <= m
      BY <2>1
    <2> HIDE DEF m
    <2>3. (IF replies \o a.out = <<>> THEN a.srv.cycle ELSE (replies \o a.out)[1].cycle)
             = IF replies = <<>> THEN srv.cycle ELSE replies[1].cycle
      BY <1>4, <1>5, <2>1, <2>2, ChainTurn
    <2>4. QED
      BY <1>5, <2>3 DEF Answering
  <1>12. /\ cycles # <<>> => cycles' # <<>> /\ cycles'[1].command = cycles[1].command
    <2>1. SameFront(cycles, cycles') /\ (cycles # <<>> => cycles' # <<>>)
      BY <1>2, FrontendFront, SessionAssumption DEF AlignedInv
    <2>2. QED
      BY <2>1 DEF SameFront, FrontCommand
  <1>13. /\ Cutting(faults') = Cutting(faults)
         /\ \A j \in Cutting(faults) : faults'[j] = faults[j]
         /\ \A n : Owed(faults, n) => Owed(faults', n)
    BY <1>1, OwedKept
  <1>14. /\ shown \in Nat
         /\ p.tag # "C" => held = <<>>
         /\ p.tag \notin {"D", "C"} => shown = 0
         /\ p.tag \in {"Z", "N", "S"} => truncate = None
         /\ p.tag \in {"T", "D"} /\ truncate # None => Owed(faults, truncate + shown)
         /\ p.tag = "C" => /\ cycles # <<>> /\ cycles[1].command = p.command
                           /\ shown # 0 => p.command = "DONE"
         /\ \A j \in Cutting(faults) : faults[j].cycle <= Answering
    BY DEF Streaming
  <1>15. /\ p.tag = "C" => /\ cycles' # <<>> /\ cycles'[1].command = p.command
                           /\ shown' # 0 => p.command = "DONE"
    BY <1>1, <1>12, <1>14
  <1>16. \A j \in Cutting(faults') : faults'[j].cycle <= Answering'
    BY <1>11, <1>13, <1>14
  <1>17. p.tag \in {"T", "D"} /\ truncate' # None => Owed(faults', truncate' + shown')
    BY <1>1, <1>13, <1>14
  <1>18. QED
    BY <1>1, <1>10, <1>14, <1>15, <1>16, <1>17 DEF Streaming

(***************************************************************************)
(* A server step: what is the same for every reply.                        *)
(***************************************************************************)
LEMMA ServerTurns ==
    ASSUME Orderly, AlignedInv, ServerStep, NEW p, Streaming(p), NEW g, g = replies[1].frame
    PROVE  /\ conn = "open" /\ TypeOK /\ TypeOK' /\ g \in ServerFrames /\ g \in BackendFrame
           /\ Backend(g) /\ ServerFrame(g) /\ Observed(g) /\ shown' = RowsShown(to_client', shown)
           /\ Succeeds(p, g) /\ Ordered(g, replies)' /\ Latest(g, replies)'.tag = Pause(srv)'
           /\ Answering \in Nat /\ Answering' \in Nat /\ Answering <= Answering'
           /\ g.tag # "Z" => Answering' = Answering
           /\ g.tag \notin {"S", "Z"} => cycles # <<>>
           /\ \A k \in DOMAIN events' : events'[k].cycle = Answering
  <1>1. /\ conn = "open" /\ replies # <<>> /\ Backend(Head(replies).frame)
        /\ reply' = Head(replies) /\ replies' = Tail(replies) /\ srv' = srv
    BY ServerReads
  <1>2. /\ TypeOK /\ Structure /\ srv \in ServerState /\ replies \in Seq(ServerReply) /\ InStep
    BY <1>1 DEF AlignedInv, Connected
  <1>3. /\ Head(replies) = replies[1] /\ replies[1] \in ServerReply
        /\ Answering' = NextCycle(replies[1]) /\ Answering = replies[1].cycle
        /\ replies[1].cycle <= next_cycle
        /\ replies[1].cycle = 0 => g.tag \in {"S", "Z"}
    BY <1>1, <1>2, ChainTail DEF InStep, Answering
  <1>4. g \in ServerFrames /\ g \in BackendFrame /\ replies[1].cycle \in Nat
    BY <1>3, ReplyFields DEF ServerFrames
  <1>5. ServerFrame(g) /\ Observed(g) /\ shown' = RowsShown(to_client', shown)
    BY <1>3 DEF ServerStep, ServerFrame
  <1>6. /\ Succeeds(p, g) /\ Ordered(g, Tail(replies))
        /\ Latest(g, Tail(replies)) = Latest(p, replies)
    BY <1>1, <1>2, OrderedTail DEF Streaming
  <1>7. Ordered(g, replies)' /\ Latest(g, replies)'.tag = Pause(srv)'
    BY <1>1, <1>6 DEF Streaming
  <1>8. /\ Answering \in Nat /\ Answering' \in Nat /\ Answering <= Answering'
        /\ g.tag # "Z" => Answering' = Answering
    BY <1>3, <1>4 DEF NextCycle
  <1>9. g.tag \notin {"S", "Z"} => cycles # <<>>
    <2>1. cycles \in Seq(Cycle) /\ Len(cycles) \in Nat /\ next_cycle \in Nat
      BY <1>2 DEF TypeOK
    <2>2. Answering > 0 => Len(cycles) + Answering = next_cycle + 1
      BY <1>2 DEF InStep
    <2>3. Answering > 0 => Len(cycles) # 0
      BY <1>3, <1>8, <2>1, <2>2
    <2>4. g.tag \notin {"S", "Z"} => Answering > 0
      BY <1>3, <1>8
    <2>5. QED
      BY <2>1, <2>3, <2>4
  <1>10. \A k \in DOMAIN events' : events'[k].cycle = Answering
    <2>1. Handled
      <3>1. Len(Tail(replies)) < Len(replies)
        BY <1>1, <1>2
      <3>2. QED
        BY <1>1, <3>1 DEF Handled
    <2>2. [SessionNext]_sessionVars
      BY DEF SessionNext
    <2>3. \A e \in NewEvents : e.cycle = reply'.cycle
      BY <2>1, <2>2, CycleNamed
    <2>4. QED
      BY <1>1, <1>3, <2>3 DEF NewEvents
  <1>11. TypeOK'
    BY <1>1, <1>2, <1>3, <1>4, StateKept
  <1>12. QED
    BY <1>1, <1>2, <1>3, <1>4, <1>5, <1>6, <1>7, <1>8, <1>9, <1>10, <1>11

(***************************************************************************)
(* And what is the same for every reply but RowDescription.                *)
(***************************************************************************)
LEMMA ServerUncut ==
    ASSUME TypeOK, NEW g \in ServerFrames, Observed(g),
           g.tag \in {"D", "C", "E", "N", "S", "Z"}
    PROVE  /\ TruncateNow = truncate
           /\ Cutting(faults') = Cutting(faults)
           /\ \A j \in Cutting(faults) : faults'[j] = faults[j]
           /\ \A n : Owed(faults, n) => Owed(faults', n)
  <1>1. /\ Backend(g) /\ fired' = Fired(matchers, events')
        /\ faults' = RecordFaults(faults, matchers, events')
    BY DEF Observed
  <1> DEFINE es == events'
  <1>2. \A k \in DOMAIN es : es[k].event # "result.started"
    BY <1>1, StartedByHeader
  <1>3. TruncateNow = truncate
    BY <1>1, <1>2, Uncut DEF TruncateNow
  <1>4. \A i \in DOMAIN Config : Cuts(i) => faults'[i] = faults[i]
    BY <1>1, <1>2, UncutFault
  <1>5. QED
    BY <1>3, <1>4, OwedKept

(***************************************************************************)
(* The server step, reply by reply.                                        *)
(***************************************************************************)
Onward(p, g) ==
    /\ conn' = "open" =>
         /\ shown' \in Nat
         /\ g.tag # "C" => held' = <<>>
         /\ g.tag \notin {"D", "C"} => shown' = 0
         /\ g.tag \in {"Z", "N", "S"} => truncate' = None
         /\ g.tag \in {"T", "D"} /\ truncate' # None => Owed(faults', truncate' + shown')
         /\ g.tag = "C" => /\ cycles' # <<>> /\ cycles'[1].command = g.command
                           /\ shown' # 0 => g.command = "DONE"
    /\ conn' = "truncated" => Owed(faults', shown')
    /\ \A j \in Cutting(faults') : faults'[j].cycle <= Answering

LEMMA HeaderOnward ==
    ASSUME Orderly, Unbroken, AlignedInv, ProxyTypeOK, ServerStep, NEW p, Streaming(p),
           NEW g, g = replies[1].frame, g.tag = "T"
    PROVE  Onward(p, g)
  <1>1. /\ conn = "open" /\ TypeOK /\ TypeOK' /\ g \in ServerFrames
        /\ ServerFrame(g) /\ Observed(g) /\ shown' = RowsShown(to_client', shown)
        /\ Succeeds(p, g) /\ Answering \in Nat
        /\ \A k \in DOMAIN events' : events'[k].cycle = Answering
    BY ServerTurns
  <1>2. p.tag = "Z" /\ held = <<>> /\ shown = 0 /\ truncate = None
    BY <1>1 DEF Succeeds, Streaming
  <1>3. /\ conn' = "open" => truncate' = RowsLeft(g) /\ held' = <<>> /\ to_client' = <<g>>
        /\ conn' # "truncated"
    BY <1>1, <1>2, ServerRelays
  <1>4. conn' = "open" => shown' = 0
    <2>1. <<>> \in Seq(BackendFrame) /\ 0 \in Nat
      OBVIOUS
    <2>2. RowsShown(<<g>>, 0) = 0
      BY <2>1, RowsShownIs
    <2>3. QED
      BY <1>1, <1>2, <1>3, <2>2
  <1>5. fired' = Fired(matchers, events') /\ faults' = RecordFaults(faults, matchers, events')
    BY <1>1 DEF Observed
  <1> DEFINE cut == Truncates(Fired(matchers, events'), None)
  <1>6. RowsLeft(g) = cut
    BY <1>2, <1>5 DEF RowsLeft, TruncateNow
  <1>7. /\ \A j \in Cutting(faults') : faults'[j].cycle <= Answering
        /\ cut # None => Owed(faults', cut)
    <2>1. /\ matchers \in [DOMAIN Config -> Matcher]
          /\ faults \in [DOMAIN Config -> Event \cup {None}]
          /\ events' \in Seq(Event)
      BY <1>1 DEF ProxyTypeOK, TypeOK
    <2>2. \A j \in Cutting(faults) : faults[j].cycle <= Answering
      BY DEF Streaming
    <2> DEFINE es == events'
    <2>3. es \in Seq(Event) /\ \A k \in DOMAIN es : es[k].cycle = Answering
      BY <1>1, <2>1
    <2>4. faults' = RecordFaults(faults, matchers, es) /\ cut = Truncates(Fired(matchers, es), None)
      BY <1>5
    <2> HIDE DEF es, cut
    <2>5. QED
      BY <1>1, <2>1, <2>2, <2>3, <2>4, HeaderOwes
  <1> HIDE DEF cut
  <1>8. fired' \in SUBSET DOMAIN Config /\ None \in Nat \cup {None}
    BY <1>5 DEF Fired
  <1>9. cut \in Nat \cup {None}
    BY <1>5, <1>8, TruncatesType DEF cut
  <1>10. conn' = "open" /\ truncate' # None => Owed(faults', truncate' + shown')
    <2> SUFFICES ASSUME conn' = "open", truncate' # None PROVE Owed(faults', truncate' + shown')
      OBVIOUS
    <2>1. truncate' = cut /\ cut \in Nat /\ cut # None
      BY <1>3, <1>6, <1>9
    <2>2. truncate' + shown' = cut
      BY <1>4, <2>1
    <2>3. QED
      BY <1>7, <2>1, <2>2
  <1>11. QED
    BY <1>3, <1>4, <1>7, <1>10 DEF Onward

LEMMA RowOnward ==
    ASSUME Orderly, Unbroken, AlignedInv, ProxyTypeOK, ServerStep, NEW p, Streaming(p),
           NEW g, g = replies[1].frame, g.tag = "D"
    PROVE  Onward(p, g)
  <1>1. /\ conn = "open" /\ TypeOK /\ g \in ServerFrames
        /\ ServerFrame(g) /\ Observed(g) /\ shown' = RowsShown(to_client', shown)
        /\ Succeeds(p, g) /\ Answering \in Nat
    BY ServerTurns
  <1>2. /\ p.tag \in {"T", "D"} /\ held = <<>> /\ shown \in Nat
        /\ truncate # None => Owed(faults, truncate + shown)
        /\ \A j \in Cutting(faults) : faults[j].cycle <= Answering
    BY <1>1 DEF Succeeds, Streaming
  <1>3. /\ conn' = "open" => truncate' = RowsLeft(g) /\ held' = <<>> /\ to_client' = <<g>>
        /\ conn' = "truncated" =>
                \/ TruncateNow = 0 /\ to_client' = <<>>
                \/ TruncateNow # 0 /\ RowsLeft(g) = 0 /\ to_client' = <<g>>
    BY <1>1, <1>2, ServerRelays
  <1>4. /\ TruncateNow = truncate /\ Cutting(faults') = Cutting(faults)
        /\ \A j \in Cutting(faults) : faults'[j] = faults[j]
        /\ \A n : Owed(faults, n) => Owed(faults', n)
    BY <1>1, ServerUncut
  <1>5. RowsShown(<<>>, shown) = shown /\ RowsShown(<<g>>, shown) = shown + 1
    <2>1. <<>> \in Seq(BackendFrame)
      OBVIOUS
    <2>2. QED
      BY <1>2, <2>1, RowsShownIs
  <1>6. truncate \in Nat \cup {None} /\ None \notin Nat
    BY NameAssumption DEF ProxyTypeOK
  <1>7. RowsLeft(g) = IF truncate # None THEN truncate - 1 ELSE None
    BY <1>4 DEF RowsLeft
  <1>8. conn' = "open" => /\ shown' \in Nat
                          /\ truncate' # None => Owed(faults', truncate' + shown')
    <2> SUFFICES ASSUME conn' = "open"
                 PROVE  /\ shown' \in Nat
                        /\ truncate' # None => Owed(faults', truncate' + shown')
      OBVIOUS
    <2>1. shown' = shown + 1 /\ shown' \in Nat /\ truncate' = RowsLeft(g)
      BY <1>1, <1>2, <1>3, <1>5
    <2>2. truncate' # None => truncate # None /\ truncate \in Nat /\ truncate' = truncate - 1
      BY <1>6, <1>7, <2>1
    <2>3. truncate' # None => truncate' + shown' = truncate + shown
      BY <1>2, <2>1, <2>2
    <2>4. truncate' # None => Owed(faults', truncate + shown)
      BY <1>2, <1>4, <2>2
    <2>5. QED
      BY <2>1, <2>3, <2>4
  <1>9. conn' = "truncated" => Owed(faults', shown')
    <2> SUFFICES ASSUME conn' = "truncated" PROVE Owed(faults', shown')
      OBVIOUS
    <2>1. truncate # None /\ truncate \in Nat /\ Owed(faults', truncate + shown)
      BY <1>2, <1>3, <1>4, <1>6, <1>7
    <2>2. shown' = truncate + shown
      <3>1. CASE TruncateNow = 0 /\ to_client' = <<>>
        BY <1>1, <1>2, <1>4, <1>5, <3>1
      <3>2. CASE TruncateNow # 0 /\ RowsLeft(g) = 0 /\ to_client' = <<g>>
        <4>1. truncate = 1 /\ shown' = shown + 1
          BY <1>1, <1>5, <1>7, <2>1, <3>2
        <4>2. QED
          BY <1>2, <4>1
      <3>3. QED
        BY <1>3, <3>1, <3>2
    <2>3. QED
      BY <2>1, <2>2
  <1>10. \A j \in Cutting(faults') : faults'[j].cycle <= Answering
    BY <1>2, <1>4
  <1>11. QED
    BY <1>3, <1>8, <1>9, <1>10 DEF Onward

LEMMA OtherOnward ==
    ASSUME Orderly, Unbroken, AlignedInv, ProxyTypeOK, ServerStep, NEW p, Streaming(p),
           NEW g, g = replies[1].frame, g.tag \in {"C", "E", "N", "S"}
    PROVE  Onward(p, g)
  <1>1. /\ conn = "open" /\ TypeOK /\ g \in ServerFrames /\ g \in BackendFrame /\ Backend(g)
        /\ ServerFrame(g) /\ Observed(g) /\ shown' = RowsShown(to_client', shown)
        /\ Succeeds(p, g) /\ (g.tag = "C" => cycles # <<>>)
    BY ServerTurns
  <1>2. /\ p.tag # "C" /\ held = <<>> /\ shown \in Nat
        /\ p.tag # "D" => shown = 0
        /\ g.tag \in {"N", "S"} => truncate = None /\ shown = 0
        /\ g.tag = "C" => g.command = "DONE" \/ shown = 0
        /\ \A j \in Cutting(faults) : faults[j].cycle <= Answering
    <2>1. p.tag # "C" /\ (g.tag \in {"N", "S"} => p.tag = "Z")
          /\ (g.tag = "C" => g.command = "DONE" \/ p.tag \in {"Z", "N"})
      BY <1>1 DEF Succeeds
    <2>2. QED
      BY <2>1 DEF Streaming
  <1>3. /\ conn' = "open" => /\ truncate' = RowsLeft(g) /\ to_client' \in {<<>>, <<g>>}
                             /\ g.tag # "C" => held' = <<>> /\ to_client' = <<g>>
        /\ conn' # "truncated"
    BY <1>1, <1>2, ServerRelays
  <1>4. /\ TruncateNow = truncate /\ Cutting(faults') = Cutting(faults)
        /\ \A j \in Cutting(faults) : faults'[j] = faults[j]
    BY <1>1, ServerUncut
  <1>5. /\ RowsShown(<<>>, shown) = shown
        /\ g.tag \in {"C", "E"} => RowsShown(<<g>>, shown) = 0
        /\ g.tag \in {"N", "S"} => RowsShown(<<g>>, shown) = shown
    <2>1. <<>> \in Seq(BackendFrame)
      OBVIOUS
    <2>2. QED
      BY <1>2, <2>1, RowsShownIs
  <1>6. RowsLeft(g) = truncate
    BY <1>4 DEF RowsLeft
  <1>7. conn' = "open" => /\ shown' \in {0, shown}
                          /\ g.tag # "C" => shown' = 0
    BY <1>1, <1>2, <1>3, <1>5
  <1>8. g.tag = "C" => cycles' # <<>> /\ cycles'[1].command = g.command
    BY <1>1, BackendFront DEF FrontCommand
  <1>9. QED
    BY <1>2, <1>3, <1>4, <1>6, <1>7, <1>8 DEF Onward

LEMMA ReadyOnward ==
    ASSUME Orderly, Unbroken, AlignedInv, ProxyTypeOK, ServerStep, NEW p, Streaming(p),
           NEW g, g = replies[1].frame, g.tag = "Z"
    PROVE  Onward(p, g)
  <1>1. /\ conn = "open" /\ TypeOK /\ g \in ServerFrames /\ g \in BackendFrame /\ Backend(g)
        /\ ServerFrame(g) /\ Observed(g) /\ shown' = RowsShown(to_client', shown)
        /\ Succeeds(p, g)
    BY ServerTurns
  <1>2. /\ shown \in Nat /\ p.tag # "D"
        /\ p.tag # "C" => shown = 0
        /\ p.tag = "C" => /\ cycles # <<>> /\ cycles[1].command = p.command
                          /\ shown # 0 => p.command = "DONE"
        /\ \A j \in Cutting(faults) : faults[j].cycle <= Answering
    <2>1. p.tag # "D"
      BY <1>1 DEF Succeeds
    <2>2. QED
      BY <2>1 DEF Streaming
  <1>3. /\ Cutting(faults') = Cutting(faults)
        /\ \A j \in Cutting(faults) : faults'[j] = faults[j]
    BY <1>1, ServerUncut
  <1>4. /\ conn' # "truncated"
        /\ conn' = "open" => /\ held' = <<>> /\ truncate' = None
                             /\ \/ Suppresses(fired') /\ to_client' = <<>>
                                \/ to_client' = Append(held, g)
    <2>1. CASE ServerDisconnected
      BY <2>1 DEF ServerDisconnected, Return
    <2>2. CASE ServerReady(g)
      BY <1>1, <2>2 DEF ServerReady, Return, StayOpen, Released
    <2>3. ~ServerCut(g) /\ ~ServerRelayed(g) /\ ~ServerWriteFails(g)
      BY DEF ServerCut, CutsHere, ServerRelayed, ServerWriteFails
    <2>4. QED
      BY <1>1, <2>1, <2>2, <2>3 DEF ServerFrame
  <1>5. Suppresses(fired') => shown = 0
    <2> SUFFICES ASSUME Suppresses(fired'), shown # 0 PROVE FALSE
      OBVIOUS
    <2>1. fired' = Fired(matchers, events')
      BY <1>1 DEF Observed
    <2>2. PICK k \in DOMAIN events' : events'[k].event \in BlockEnd
      <3> DEFINE es == events'
      <3>1. Suppresses(Fired(matchers, es))
        BY <2>1
      <3> HIDE DEF es
      <3>2. \E k \in DOMAIN es : es[k].event \in BlockEnd
        BY <3>1, NothingSuppressed
      <3>3. QED
        BY <3>2 DEF es
    <2>3. Completed(StatusOf(g)) \in BlockEnd
      BY <1>1, <2>2, StartedByHeader
    <2>4. cycles[1].command \in {"COMMIT", "ROLLBACK"}
      <3>1. cycles \in Seq(Cycle)
        BY <1>1 DEF TypeOK
      <3>2. QED
        BY <2>3, <3>1, BlockCommand
    <2>5. cycles[1].command = "DONE"
      BY <1>2
    <2>6. QED
      BY <2>4, <2>5
  <1>6. conn' = "open" => shown' = 0
    <2>1. held \in Seq(BackendFrame)
      BY DEF ProxyTypeOK
    <2>2. RowsShown(<<>>, shown) = shown /\ RowsShown(Append(held, g), shown) = 0
      BY <1>1, <1>2, <2>1, RowsShownIs
    <2>3. QED
      BY <1>1, <1>4, <1>5, <2>2
  <1>7. QED
    BY <1>2, <1>3, <1>4, <1>6 DEF Onward

LEMMA ServerStreams ==
    ASSUME Orderly, Unbroken, AlignedInv, ProxyTypeOK, ServerStep, NEW p, Streaming(p)
    PROVE  /\ conn' = "open" => \E g : Streaming(g)'
           /\ conn' = "truncated" => Owed(faults', shown')
  <1>1. PICK g : g = replies[1].frame
    OBVIOUS
  <1>2. /\ Succeeds(p, g) /\ Ordered(g, replies)' /\ Latest(g, replies)'.tag = Pause(srv)'
        /\ Answering \in Nat /\ Answering' \in Nat /\ Answering <= Answering'
    BY <1>1, ServerTurns
  <1>3. g.tag \in {"T", "D", "C", "E", "N", "S", "Z"}
    BY <1>2 DEF Succeeds
  <1>4. Onward(p, g)
    BY <1>1, <1>3, HeaderOnward, RowOnward, OtherOnward, ReadyOnward
  <1>5. AlignedInv' /\ faults' \in [DOMAIN Config -> Event \cup {None}]
    <2>1. TypeOK' /\ Observed(g)
      BY <1>1, ServerTurns
    <2>2. QED
      BY <2>1, ServerInStep, ProxyTypeSplit, ServerApplyType
  <1>6. \A j \in Cutting(faults') : faults'[j].cycle <= Answering'
    <2> SUFFICES ASSUME NEW j \in Cutting(faults') PROVE faults'[j].cycle <= Answering'
      OBVIOUS
    <2>1. faults'[j] \in Event
      BY <1>5 DEF Cutting
    <2>2. faults'[j].cycle \in Nat
      BY <2>1 DEF Event
    <2>3. faults'[j].cycle <= Answering
      BY <1>4 DEF Onward
    <2>4. \A x, y, z \in Nat : x <= y /\ y <= z => x <= z
      OBVIOUS
    <2>5. QED
      BY <1>2, <2>2, <2>3, <2>4
  <1>7. ASSUME conn' = "open" PROVE Streaming(g)'
    BY <1>2, <1>4, <1>6, <1>7 DEF Streaming, Onward
  <1>8. QED
    BY <1>4, <1>7 DEF Onward

(***************************************************************************)
(* The inductive invariant.                                                *)
(***************************************************************************)
LEMMA RowInit == SessionInit => RowInv
  <1> SUFFICES ASSUME SessionInit PROVE RowInv
    OBVIOUS
  <1>1. AlignedInv
    BY AlignedInit
  <1>2. ProxyTypeOK
    <2>1. NewMatcher \in Matcher
      BY DEF NewMatcher, Matcher
    <2>2. <<>> \in Seq(BackendFrame) /\ <<>> \in Seq(FrontendFrame)
      OBVIOUS
    <2>3. QED
      BY <2>1, <2>2 DEF SessionInit, ProxyInit, ProxyTypeOK, Sockets
  <1>3. PICK p : p = [tag |-> "Z"]
    OBVIOUS
  <1>4. p.tag = "Z"
    BY <1>3
  <1>5. /\ srv = NewServer /\ replies \in Seq(ServerReply) /\ Len(replies) = 2
        /\ replies[1].frame.tag = "S" /\ replies[2].frame.tag = "Z"
    BY WelcomeIs DEF SessionInit
  <1>6. replies # <<>>
    <2>1. Len(replies) = 2 /\ Len(<<>>) = 0
      BY <1>5
    <2>2. QED
      BY <2>1
  <1>7. Ordered(p, replies) /\ Latest(p, replies).tag = Pause(srv)
    <2>1. srv.copy = "no"
      BY <1>5 DEF NewServer
    <2>2. Latest(p, replies).tag = Pause(srv)
      BY <1>5, <1>6, <2>1 DEF Latest, Pause
    <2>3. ASSUME NEW k \in 1 .. Len(replies)
          PROVE  Succeeds(IF k = 1 THEN p ELSE replies[k - 1].frame, replies[k].frame)
      <3>1. k = 1 \/ (k = 2 /\ k - 1 = 1 /\ k # 1)
        BY <1>5
      <3>2. QED
        BY <1>4, <1>5, <3>1 DEF Succeeds
    <2>4. QED
      BY <2>2, <2>3 DEF Ordered
  <1>8. /\ shown = 0 /\ held = <<>> /\ truncate = None /\ conn = "open"
        /\ Cutting(faults) = {}
    BY DEF SessionInit, ProxyInit, Cutting
  <1>9. Streaming(p)
    BY <1>4, <1>7, <1>8 DEF Streaming
  <1>10. ExactRows
    BY <1>8, ExactRowsIs
  <1>11. QED
    BY <1>1, <1>2, <1>9, <1>10 DEF RowInv

LEMMA RowStep ==
    ASSUME Orderly, SimpleOnly, Short, Unbroken, RowInv, [SessionNext]_sessionVars
    PROVE  RowInv'
  <1>1. AlignedInv /\ AlignedInv' /\ TypeOK /\ TypeOK' /\ ProxyTypeOK
        /\ (conn = "open" => \E p : Streaming(p))
    BY AlignedStep DEF RowInv, AlignedInv
  <1>2. ExactRows' <=> (conn' = "truncated" => Owed(faults', shown'))
    BY DEF ExactRows, Owed, Cutting, Cuts
  <1>3. CASE UNCHANGED sessionVars
    <2>1. UNCHANGED proxyVars /\ UNCHANGED <<srv, replies, shown>>
      BY <1>3 DEF sessionVars
    <2>2. UNCHANGED <<matchers, held, truncate, conn, sockets, input, to_server, to_client,
                      fired, faults, ack, cycles>>
      BY <2>1 DEF proxyVars, relayVars, stateVars
    <2>3. ProxyTypeOK'
      BY <1>1, <2>2 DEF ProxyTypeOK
    <2>4. ExactRows'
      BY <1>2, <2>1, <2>2, ExactRowsIs DEF RowInv
    <2>5. ASSUME NEW p, Streaming(p) PROVE Streaming(p)'
      BY <2>1, <2>2, <2>5 DEF Streaming, Answering
    <2>6. QED
      BY <1>1, <2>2, <2>3, <2>4, <2>5 DEF RowInv
  <1>4. ASSUME NEW f \in ClientFrames, ClientStep(f) PROVE RowInv'
    <2>1. conn = "open" /\ ClientFrame(f) /\ f \in FrontendFrame
      BY <1>1, <1>4, ClientTurn, SessionAssumption DEF ClientStep
    <2>2. PICK p : Streaming(p)
      BY <1>1, <2>1
    <2>3. conn' # "truncated" /\ (conn' = "open" => Streaming(p)')
      BY <1>1, <1>4, <2>2, ClientStreams
    <2>4. ProxyTypeOK'
      BY <1>1, <2>1, ProxyTypeStep DEF ProxyNext
    <2>5. QED
      BY <1>1, <1>2, <2>3, <2>4 DEF RowInv
  <1>5. CASE ServerStep
    <2>1. conn = "open"
      BY <1>5, ServerReads
    <2>2. PICK p : Streaming(p)
      BY <1>1, <2>1
    <2>3. /\ conn' = "open" => \E g : Streaming(g)'
          /\ conn' = "truncated" => Owed(faults', shown')
      BY <1>1, <1>5, <2>2, ServerStreams
    <2>4. ProxyTypeOK'
      <3>1. PICK g : g = replies[1].frame
        OBVIOUS
      <3>2. g \in ServerFrames /\ g \in BackendFrame /\ ServerFrame(g) /\ Succeeds(p, g)
        BY <1>1, <1>5, <2>2, <3>1, ServerTurns
      <3>3. ServerMaySend(g)
        BY <3>2 DEF ServerMaySend, ServerFrames, Succeeds
      <3>4. QED
        BY <1>1, <3>2, <3>3, ProxyTypeStep DEF ProxyNext
    <2>5. QED
      BY <1>1, <1>2, <2>3, <2>4 DEF RowInv
  <1>6. CASE Break
    <2>1. conn' \notin {"open", "truncated"}
      BY <1>6 DEF Break, ClientEof, UpstreamEof, Failure, Return
    <2>2. ProxyTypeOK'
      BY <1>1, <1>6, ProxyTypeStep DEF Break, ProxyNext
    <2>3. QED
      BY <1>1, <1>2, <2>1, <2>2 DEF RowInv
  <1>7. QED
    BY <1>3, <1>4, <1>5, <1>6 DEF SessionNext, Finished

(***************************************************************************)
(* When the proxy cuts a result short, the client has received exactly as  *)
(* many of its rows as the scenario that fired last asks for: for every    *)
(* list of scenarios that suppress at most the end of a transaction block, *)
(* every client of the simple protocol, pipelining or not, that sends one  *)
(* statement at a time, and every number of rows (truncate_result in       *)
(* connection()).                                                          *)
(***************************************************************************)
THEOREM ExactRowsCorrect ==
    ASSUME Orderly, SimpleOnly, Short, Unbroken
    PROVE  SessionSpec => []ExactRows
  <1>1. RowInv /\ [SessionNext]_sessionVars => RowInv'
    BY RowStep
  <1>2. RowInv => ExactRows
    BY DEF RowInv
  <1>3. QED
    BY <1>1, <1>2, RowInit, PTL DEF SessionSpec

-----------------------------------------------------------------------------
(***************************************************************************)
(* Part 2.  The acknowledgement of a transaction.                          *)
(*                                                                         *)
(* The server: a statement that began a transaction leaves it open, and no *)
(* portal is suspended.                                                    *)
(***************************************************************************)
Opens(x) == ClassOf(x.last) = "Begin" /\ ~x.failed => x.tx # "I"

Sober(r) ==
    /\ r.frame.tag # "s"
    /\ r.frame.tag = "Z" => r.frame.status = r.tx /\ Opens(r)

Steady(a) == Opens(a.srv) /\ \A k \in 1 .. Len(a.out) : Sober(a.out[k])

LEMMA OneSteady ==
    ASSUME NEW t \in ServerState, NEW r \in ServerReply, Opens(t), r.frame.tag \notin {"s", "Z"}
    PROVE  Steady(Answer(t, <<r>>))
  <1> DEFINE a == Answer(t, <<r>>)
  <1>1. a.srv = t /\ Len(a.out) = 1 /\ a.out[1] = r
    BY OneReply
  <1> HIDE DEF a
  <1>2. Sober(r)
    BY DEF Sober
  <1>3. \A k \in 1 .. Len(a.out) : k = 1
    BY <1>1
  <1>4. Steady(a)
    BY <1>1, <1>2, <1>3 DEF Steady
  <1>5. QED
    BY <1>4 DEF a

LEMMA StillSteady ==
    ASSUME NEW t \in ServerState, Opens(t)
    PROVE  Steady(Answer(t, <<>>))
  <1> DEFINE a == Answer(t, <<>>)
  <1>1. a.srv = t /\ Len(a.out) = 0
    BY NoReply
  <1> HIDE DEF a
  <1>2. \A k \in 1 .. Len(a.out) : FALSE
    BY <1>1
  <1>3. Steady(a)
    BY <1>1, <1>2 DEF Steady
  <1>4. QED
    BY <1>3 DEF a

LEMMA FailSteady ==
    ASSUME NEW s \in ServerState, NEW sql \in Statement
    PROVE  Steady(Fail(s, sql))
  <1> DEFINE a == Fail(s, sql)
             t == a.srv
             r == Reply(t, Tagged("E"), sql)
  <1>1. t \in ServerState /\ t.failed /\ a.out = <<r>> /\ r \in ServerReply
    BY FailIs
  <1>2. a = Answer(t, <<r>>)
    BY <1>1 DEF Fail, Answer
  <1> HIDE DEF a, t
  <1>3. r.frame.tag = "E"
    BY <1>1, ReplyIs, FrameTypes
  <1> HIDE DEF r
  <1>4. Opens(t)
    BY <1>1 DEF Opens
  <1>5. Steady(Answer(t, <<r>>))
    BY <1>1, <1>3, <1>4, OneSteady
  <1>6. QED
    BY <1>2, <1>5 DEF a

LEMMA AckSteady ==
    ASSUME NEW s \in ServerState, Opens(s), NEW tag \in {"1", "2", "3"}
    PROVE  Steady(Acknowledge(s, tag))
  <1> DEFINE a == Acknowledge(s, tag)
             t == a.srv
             r == Reply(t, Tagged(tag), NoSql)
  <1>1. /\ t \in ServerState /\ t.tx = s.tx /\ t.last = s.last /\ t.failed = s.failed
        /\ a = Answer(t, <<r>>) /\ r \in ServerReply
    BY AcknowledgeIs
  <1>2. r.frame.tag = tag
    <2>1. NoSql \in Statement /\ Tagged(tag) \in ServerFrames /\ Tagged(tag).tag = tag
      BY FrameTypes DEF Statement, Tagged
    <2> HIDE DEF t
    <2>2. QED
      BY <1>1, <2>1, ReplyIs
  <1> HIDE DEF a, t, r
  <1>3. Opens(t)
    BY <1>1 DEF Opens
  <1>4. QED
    BY <1>1, <1>2, <1>3, OneSteady DEF a

LEMMA RanSteady ==
    ASSUME NEW s \in ServerState, NEW text \in Statement, NEW sql \in Statement,
           NEW frames, CompletesWith(s, sql, frames)
    PROVE  Steady(Ran(s, text, sql, frames))
  <1> DEFINE a == Ran(s, text, sql, frames)
             t == a.srv
  <1>1. frames \in Seq(ServerFrames) /\ Len(frames) \in Nat
        /\ \A k \in 1 .. Len(frames) : frames[k].tag \in {"T", "D", "C"} /\ frames[k] \in ServerFrames
    <2>1. frames \in Seq(ServerFrames) /\ Len(frames) \in Nat
      BY DEF CompletesWith
    <2>2. \A k \in 1 .. Len(frames) : k \in 1 .. Len(frames) - 1 \/ k = Len(frames)
      BY <2>1
    <2>3. QED
      BY <2>1, <2>2 DEF CompletesWith
  <1>2. /\ t \in ServerState /\ t.last = sql /\ t.tx = TxAfter(s.tx, ClassOf(sql))
        /\ Len(a.out) = Len(frames)
        /\ \A k \in 1 .. Len(frames) :
              a.out[k] = Reply(IF frames[k].tag = "C" THEN t ELSE s, frames[k], text)
    BY <1>1, RanIs
  <1> HIDE DEF a, t
  <1>3. Opens(t)
    BY <1>2 DEF Opens, TxAfter
  <1>4. ASSUME NEW k \in 1 .. Len(frames) PROVE Sober(a.out[k])
    <2> DEFINE x == IF frames[k].tag = "C" THEN t ELSE s
    <2>1. x \in ServerState /\ a.out[k] = Reply(x, frames[k], text)
      BY <1>2
    <2> HIDE DEF x
    <2>2. a.out[k].frame = frames[k]
      BY <1>1, <2>1, ReplyIs
    <2>3. QED
      BY <1>1, <2>2 DEF Sober
  <1>5. Steady(a)
    BY <1>2, <1>3, <1>4 DEF Steady, t
  <1>6. QED
    BY <1>5 DEF a

LEMMA OutcomeSteady ==
    ASSUME ~MaySuspend, NEW s \in ServerState, NEW text \in Statement, NEW sql \in Statement,
           NEW mode \in {"Q", "E"}, NEW a, Outcome(s, text, sql, mode, a)
    PROVE  Steady(a)
  <1>1. CASE a = Fail(s, text)
    BY <1>1, FailSteady
  <1>2. ASSUME NEW frames, CompletesWith(s, sql, frames), a = Ran(s, text, sql, frames)
        PROVE  Steady(a)
    BY <1>2, RanSteady
  <1>3. CASE ClassOf(sql) \notin {"Begin", "Commit", "Rollback"} /\ a = Copying(s, text, sql, mode)
    <2> DEFINE t == a.srv
               r == Reply(s, Tagged("N"), text)
    <2>1. t \in ServerState /\ t.last = sql /\ a.out = <<r>> /\ r \in ServerReply
      BY <1>3, CopyingIs
    <2>2. a = Answer(t, <<r>>)
      BY <1>3, <2>1 DEF Copying, Answer
    <2> HIDE DEF t
    <2>3. r.frame.tag = "N"
      BY ReplyIs, FrameTypes
    <2> HIDE DEF r
    <2>4. Opens(t)
      BY <1>3, <2>1 DEF Opens
    <2>5. QED
      BY <2>1, <2>2, <2>3, <2>4, OneSteady
  <1>4. QED
    BY <1>1, <1>2, <1>3 DEF Outcome

LEMMA JoinSteady ==
    ASSUME NEW a, NEW b, IsAnswer(a), IsAnswer(b), Steady(a), Steady(b)
    PROVE  Steady(Answer(b.srv, a.out \o b.out))
  <1> DEFINE q == a.out
             o == b.out
             j == q \o o
             c == Answer(b.srv, j)
  <1>1. /\ q \in Seq(ServerReply) /\ o \in Seq(ServerReply) /\ Opens(b.srv)
        /\ \A k \in 1 .. Len(q) : Sober(q[k])
        /\ \A k \in 1 .. Len(o) : Sober(o[k])
    BY DEF Steady, IsAnswer
  <1>2. c.srv = b.srv /\ c.out = j
    BY DEF Answer
  <1> HIDE DEF q, o
  <1>3. \A k \in 1 .. Len(j) : \/ k \in 1 .. Len(q) /\ j[k] = q[k]
                               \/ \E i \in 1 .. Len(o) : k = Len(q) + i /\ j[k] = o[i]
    BY <1>1, Joined
  <1> HIDE DEF c, j
  <1>4. Steady(c)
    BY <1>1, <1>2, <1>3 DEF Steady
  <1>5. QED
    BY <1>4 DEF c, j, q, o

LEMMA RunTextSteady ==
    ASSUME ~MaySuspend, NEW s \in ServerState, Opens(s), NEW text \in Sql,
           NEW header \in {<<>>, <<Tagged("T")>>}, NEW a \in RunText(s, text, header)
    PROVE  Steady(a)
  <1> DEFINE sqls == StatementsOf(text)
             n == Len(sqls)
  <1>1. CASE sqls = <<>>
    <2> DEFINE r == Reply(s, Tagged("N"), text)
    <2>1. a = Answer(s, <<r>>) /\ r \in ServerReply
      BY <1>1, EmptyTextIs
    <2>2. r.frame.tag = "N"
      BY ReplyIs, FrameTypes DEF Statement
    <2> HIDE DEF r
    <2>3. QED
      BY <2>1, <2>2, OneSteady
  <1>2. CASE sqls # <<>>
    <2>1. PICK f : /\ f = Progress(s, text, sqls, header, f)
                   /\ RunText(s, text, header) = f[n]
      BY <1>2, RunTextIs
    <2>2. sqls \in Seq(Statement) /\ n \in Nat /\ text \in Statement
      BY StatementsType
    <2>3. \A k \in 0 .. n : f[k] = IF k = 0 THEN {Answer(s, <<>>)}
                                   ELSE NextAnswers(text, header, sqls[k], f[k - 1])
      BY <2>1 DEF Progress
    <2> DEFINE T == {m \in Nat : m <= n => \A x \in f[m] : IsAnswer(x) /\ Steady(x)}
    <2>4. 0 \in T
      <3>1. \A x \in f[0] : x = Answer(s, <<>>)
        BY <2>2, <2>3
      <3>2. QED
        BY <3>1, NoReply, StillSteady
    <2>5. ASSUME NEW m \in Nat, m \in T
          PROVE  m + 1 \in T
      <3> SUFFICES ASSUME m + 1 <= n, NEW x \in f[m + 1] PROVE IsAnswer(x) /\ Steady(x)
        OBVIOUS
      <3>1. x \in NextAnswers(text, header, sqls[m + 1], f[m]) /\ m + 1 \in 1 .. n
        BY <2>2, <2>3
      <3>2. sqls[m + 1] \in Statement
        BY <2>2, <3>1
      <3>3. PICK y \in f[m] : \/ y.srv.skip /\ x = y
                              \/ /\ ~y.srv.skip
                                 /\ \E b \in Run(Began(y.srv), text, sqls[m + 1], header) :
                                       x = Answer(b.srv, y.out \o b.out)
        BY <3>1 DEF NextAnswers
      <3>4. IsAnswer(y) /\ Steady(y) /\ Began(y.srv) \in ServerState
        BY <2>2, <2>5, BeganIs DEF IsAnswer
      <3>5. ASSUME NEW b \in Run(Began(y.srv), text, sqls[m + 1], header),
                   x = Answer(b.srv, y.out \o b.out)
            PROVE  IsAnswer(x) /\ Steady(x)
        <4>1. Outcome(Began(y.srv), text, sqls[m + 1], Mode(header), b) /\ Mode(header) \in {"Q", "E"}
          BY <3>2, <3>4, RunOutcome, HeaderMode
        <4>2. IsAnswer(b) /\ Steady(b)
          BY <2>2, <3>2, <3>4, <4>1, OutcomeWithin, OutcomeSteady DEF Within
        <4>3. Steady(x)
          BY <3>4, <3>5, <4>2, JoinSteady
        <4>4. b.srv \in ServerState /\ y.out \o b.out \in Seq(ServerReply)
          BY <3>4, <4>2 DEF IsAnswer
        <4>5. IsAnswer(x)
          BY <3>5, <4>4 DEF IsAnswer, Answer
        <4>6. QED
          BY <4>3, <4>5
      <3>6. QED
        BY <3>3, <3>4, <3>5
    <2> HIDE DEF T
    <2>6. n \in T
      BY <2>2, <2>4, <2>5, InductionOverNat
    <2>7. QED
      BY <2>1, <2>2, <2>6 DEF T
  <1>3. QED
    BY <1>1, <1>2

LEMMA ReadySteady ==
    ASSUME NEW c, IsAnswer(c), Steady(c)
    PROVE  Steady(Ready(c))
  <1> DEFINE s == c.srv
             q == c.out
             a == Ready(Answer(s, q))
             z == a.out[Len(q) + 1]
  <1>1. s \in ServerState /\ q \in Seq(ServerReply) /\ c = Answer(s, q) /\ Opens(s)
        /\ \A k \in 1 .. Len(q) : Sober(q[k])
    BY DEF IsAnswer, Steady
  <1> HIDE DEF s, q
  <1>2. /\ a.srv.last = NoSql /\ Len(a.out) = Len(q) + 1 /\ a.out \in Seq(ServerReply)
        /\ \A k \in 1 .. Len(q) : a.out[k] = q[k]
    BY <1>1, ReadyIs
  <1>3. /\ z.frame.tag = "Z" /\ z.frame.status = s.tx /\ z.last = s.last
        /\ z.failed = s.failed /\ z.tx = s.tx
    BY <1>1, ReadyIs
  <1> HIDE DEF a, z
  <1>4. Sober(z)
    BY <1>1, <1>3 DEF Sober, Opens
  <1>5. \A k \in 1 .. Len(a.out) : k \in 1 .. Len(q) \/ k = Len(q) + 1
    BY <1>1, <1>2
  <1>6. Opens(a.srv)
    BY <1>2 DEF Opens, ClassOf
  <1>7. Steady(a)
    BY <1>1, <1>2, <1>4, <1>5, <1>6 DEF Steady, z
  <1>8. QED
    BY <1>1, <1>7 DEF a

LEMMA AnswersSteady ==
    ASSUME ~MaySuspend, NEW s \in ServerState, s.copy = "no", Opens(s), NEW f \in ClientFrames,
           NEW a \in Answers(s, f), f.tag # "D"
    PROVE  Steady(a)
  <1> DEFINE t == Numbered(s, f)
  <1>0. t \in ServerState /\ t.copy = "no" /\ Opens(t)
    <2>1. t \in ServerState /\ t.copy = s.copy /\ t.last = s.last /\ t.failed = s.failed /\ t.tx = s.tx
      BY NumberedIs
    <2> HIDE DEF t
    <2>2. QED
      BY <2>1 DEF Opens
  <1>1. a \in AnswersTo(t, f)
    BY DEF Answers
  <1> HIDE DEF t
  <1>2. NoSql \in Statement /\ Sql \subseteq Statement
    BY DEF Statement
  <1>3. ASSUME NEW u \in ServerState, SameButMaps(t, u) PROVE Opens(u)
    BY <1>0, <1>3 DEF SameButMaps, Opens
  <1>4. Steady(Answer(t, <<>>)) /\ IsAnswer(Answer(t, <<>>))
    BY <1>0, StillSteady, NoReply
  <1>5. CASE f.tag = "S"
    <2>1. a = Ready(Answer(t, <<>>))
      BY <1>1, <1>5 DEF AnswersTo
    <2>2. QED
      BY <1>4, <2>1, ReadySteady
  <1>6. CASE f.tag # "S" /\ (t.skip \/ f.tag \in {"H", "c", "X"})
    <2>1. a = Answer(t, <<>>)
      BY <1>1, <1>6 DEF AnswersTo
    <2>2. QED
      BY <1>4, <2>1
  <1>7. CASE f.tag = "P" /\ ~t.skip
    <2>1. f.name \in Name /\ f.sql \in Statement
      BY <1>2, <1>7, ClientFields
    <2>2. a \in ParseAnswers(t, f)
      BY <1>1, <1>7 DEF AnswersTo
    <2>3. PICK v, u : /\ v \in ServerState
                      /\ u \in ServerState /\ SameButMaps(t, u)
                      /\ a = Fail(v, f.sql) \/ a = Acknowledge(u, "1")
      BY <1>0, <1>7, <2>2, ParseIs
    <2>4. QED
      BY <1>3, <2>1, <2>3, FailSteady, AckSteady
  <1>8. CASE f.tag = "B" /\ ~t.skip
    <2> DEFINE sql == t.stmts[f.stmt]
               u == [t EXCEPT !.portals[f.portal] = sql]
    <2>1. f.portal \in Name /\ f.stmt \in Name /\ sql \in Statement
      BY <1>0, <1>8, ClientFields, ServerFields
    <2>2. a = Fail(t, sql) \/ a = Acknowledge(u, "2")
      BY <1>1, <1>8 DEF AnswersTo, BindAnswers
    <2> HIDE DEF sql
    <2>3. u \in ServerState /\ SameButMaps(t, u)
      BY <1>0, <2>1, StoreIs
    <2> HIDE DEF u
    <2>4. QED
      BY <1>0, <1>3, <2>1, <2>2, <2>3, FailSteady, AckSteady
  <1>9. CASE f.tag = "C" /\ ~t.skip
    <2> DEFINE u == IF f.kind = "S" THEN [t EXCEPT !.stmts[f.name] = NoSql]
                    ELSE [t EXCEPT !.portals[f.name] = NoSql]
    <2>1. a = Acknowledge(u, "3")
      BY <1>1, <1>9 DEF AnswersTo, CloseAnswers
    <2>2. f.name \in Name
      BY <1>9, ClientFields
    <2>3. u \in ServerState /\ SameButMaps(t, u)
      BY <1>0, <1>2, <2>2, StoreIs
    <2> HIDE DEF u
    <2>4. QED
      BY <1>3, <2>1, <2>3, AckSteady
  <1>10. CASE f.tag = "E" /\ ~t.skip
    <2> DEFINE sql == t.portals[f.portal]
    <2>1. f.portal \in Name /\ sql \in Statement
      BY <1>0, <1>10, ClientFields, ServerFields
    <2>2. \/ a = Fail(t, sql)
          \/ sql # NoSql /\ a \in RunText(t, sql, <<>>)
      BY <1>1, <1>10 DEF AnswersTo, ExecuteAnswers
    <2> HIDE DEF sql
    <2>3. sql # NoSql => sql \in Sql
      BY <2>1 DEF Statement
    <2>4. QED
      BY <1>0, <2>1, <2>2, <2>3, FailSteady, RunTextSteady
  <1>11. CASE f.tag = "Q" /\ ~t.skip
    <2> DEFINE u == [t EXCEPT !.stmts[Unnamed] = NoSql, !.portals[Unnamed] = NoSql]
               h == <<Tagged("T")>>
    <2>1. PICK b \in RunText(u, f.sql, h) : a = IF b.srv.copy = "no" THEN Ready(b) ELSE b
      BY <1>1, <1>11 DEF AnswersTo, QueryAnswers
    <2>2. u \in ServerState /\ SameButMaps(t, u)
      BY <1>0, ClearedIs
    <2> HIDE DEF u
    <2>3. u.copy = "no" /\ Opens(u)
      BY <1>0, <1>3, <2>2 DEF SameButMaps
    <2>4. h \in {<<>>, <<Tagged("T")>>} /\ f.sql \in Sql
      BY <1>11, ClientFields
    <2> HIDE DEF h
    <2>5. IsAnswer(b) /\ Steady(b)
      BY <2>1, <2>2, <2>3, <2>4, RunTextWithin, RunTextSteady DEF Within
    <2>6. QED
      BY <2>1, <2>5, ReadySteady
  <1>12. QED
    BY <1>5, <1>6, <1>7, <1>8, <1>9, <1>10, <1>11, ClientFields

LEMMA CopySteady ==
    ASSUME NEW s \in ServerState, s.copy = "Q", NEW f, f.tag = "c", NEW a \in Answers(s, f)
    PROVE  Steady(a)
  <1> DEFINE t == [s EXCEPT !.copy = "no"]
             c == Complete("DONE")
             b == Ran(t, s.last, s.last, <<c>>)
             x == b.srv
             r == Reply(x, c, s.last)
  <1>1. a = Ready(b)
    BY DEF Answers, CopyAnswers
  <1>2. t \in ServerState /\ s.last \in Statement
    BY ServerFields DEF ServerState
  <1>3. c \in ServerFrames /\ c.tag = "C"
    BY FrameTypes DEF CommandTag
  <1> HIDE DEF t, c
  <1>4. /\ x \in ServerState /\ x.last = s.last /\ x.tx = TxAfter(t.tx, ClassOf(s.last))
        /\ b.out \in Seq(ServerReply) /\ Len(b.out) = 1 /\ b.out[1] = r
    <2> DEFINE q == <<c>>
    <2>1. q \in Seq(ServerFrames) /\ Len(q) = 1 /\ q[1] = c
      BY <1>3
    <2> HIDE DEF q
    <2>2. b = Ran(t, s.last, s.last, q)
      BY DEF q
    <2>3. x = Ran(t, s.last, s.last, q).srv
      BY <2>2
    <2> HIDE DEF b, x
    <2>4. QED
      BY <1>2, <1>3, <2>1, <2>2, <2>3, RanIs DEF r
  <1>5. b = Answer(x, b.out)
    BY DEF Ran, Answer
  <1> HIDE DEF b, x
  <1>6. IsAnswer(b)
    BY <1>4, <1>5 DEF IsAnswer, x
  <1>7. Opens(x)
    BY <1>4 DEF Opens, TxAfter
  <1>8. Sober(r)
    BY <1>2, <1>3, <1>4, ReplyIs DEF Sober
  <1> HIDE DEF r
  <1>9. \A k \in 1 .. Len(b.out) : Sober(b.out[k])
    BY <1>4, <1>8
  <1>10. Steady(b)
    BY <1>7, <1>9 DEF Steady, x
  <1>11. QED
    BY <1>1, <1>6, <1>10, ReadySteady

-----------------------------------------------------------------------------
(***************************************************************************)
(* The gate, for implicit transactions as well: what the oldest cycle will *)
(* report if it ends outside a transaction.                                *)
(***************************************************************************)
Imminent ==
    LET class == ClassOf(FrontLast(cycles))
        command == FrontCommand(cycles)
    IN  IF ~reliable THEN None
        ELSE TransactionEnd(class, command, /\ tx_state = "Idle" /\ command # ""
                                            /\ class \notin {"Begin", "Other"})

Guarded ==
    \A i \in DOMAIN Config :
        ~matchers[i].fired /\ Imminent # None /\ Config[i].when.event = Imminent
        => ack \in {"held", "dropped"}

LEMMA ImminentIs == Imminent \in CompletedEvent \cup {None}
  BY DEF Imminent, TransactionEnd, CompletedEvent

LEMMA ImminentKept ==
    ASSUME SameFront(cycles, cycles'), reliable' => reliable, tx_state' = tx_state,
           Imminent' # None
    PROVE  Imminent = Imminent'
  <1>1. reliable' /\ reliable
    BY DEF Imminent
  <1>2. QED
    BY <1>1 DEF Imminent, SameFront

LEMMA ClientGuarded ==
    ASSUME TypeOK, Guarded, NEW f \in ClientFrames, ClientFrame(f)
    PROVE  Guarded'
  <1>1. PICK ok \in BOOLEAN : ClientRelay(f, ok)
    BY DEF ClientFrame
  <1>2. ack' = ack /\ Frontend(f) /\ f \in FrontendFrame
    BY <1>1, SessionAssumption DEF ClientRelay
  <1>3. SameFront(cycles, cycles') /\ reliable' = reliable /\ tx_state' = tx_state
    BY <1>2, FrontendFront, FrontendWork
  <1> SUFFICES ASSUME NEW i \in DOMAIN Config, ~matchers'[i].fired, Imminent' # None,
                      Config[i].when.event = Imminent'
               PROVE  ack' \in {"held", "dropped"}
    BY DEF Guarded
  <1>4. Imminent = Imminent'
    BY <1>3, ImminentKept
  <1>5. matchers'[i] = matchers[i]
    BY <1>1, <1>4, ImminentIs, WaitingMatchersKept
  <1>6. QED
    BY <1>2, <1>4, <1>5 DEF Guarded

(***************************************************************************)
(* The gate looks at CommandComplete for what ReadyForQuery will report.   *)
(***************************************************************************)
LEMMA BoundaryIsImminent ==
    ASSUME TypeOK, TypeOK', NEW f \in ServerFrames, f.tag = "C", Backend(f), Imminent' # None
    PROVE  CompletionBoundary(f) = Imminent'
  <1> DEFINE last == FrontLast(cycles')
             command == FrontCommand(cycles')
  <1>1. f \in BackendFrame
    BY DEF ServerFrames
  <1>2. tx_state' = tx_state
    BY BackendWork
  <1>3. reliable
    BY <1>1, BackendFront DEF Imminent
  <1>4. cycles # <<>>
    <2> SUFFICES ASSUME cycles = <<>> PROVE FALSE
      OBVIOUS
    <2>1. cycles' = <<>>
      BY <1>1, BackendFront
    <2>2. last = NoSql
      BY <2>1 DEF FrontLast
    <2>3. ClassOf(last) = "Other"
      BY <2>2 DEF ClassOf
    <2> HIDE DEF last
    <2>4. QED
      BY <2>3 DEF Imminent, TransactionEnd, last
  <1>5. last = CurrentStatement(Head(cycles)) /\ command = f.command
    BY <1>1, <1>4, BackendFront
  <1>6. Imminent' = TransactionEnd(ClassOf(last), command,
                       /\ tx_state = "Idle" /\ command # ""
                       /\ ClassOf(last) \notin {"Begin", "Other"})
    BY <1>2 DEF Imminent
  <1> HIDE DEF last, command
  <1>7. command # ""
    BY <1>6 DEF TransactionEnd
  <1>8. QED
    BY <1>3, <1>4, <1>5, <1>6, <1>7 DEF CompletionBoundary, TransactionEnd

LEMMA ServerGuarded ==
    ASSUME TypeOK, TypeOK', Structure, Guarded, NEW f \in ServerFrames, f.tag # "s",
           ServerFrame(f), conn' = "open"
    PROVE  Guarded'
  <1>1. f \in BackendFrame /\ Backend(f)
    BY DEF ServerFrames, ServerFrame, Observed
  <1>2. \/ f.tag = "Z"
        \/ ServerRelayed(f) /\ Disposal(f) # "overflow" /\ f.tag # "Z"
    BY DEF ServerFrame, ServerDisconnected, ServerCut, ServerReady, ServerRelayed,
           ServerWriteFails, Return
  <1> SUFFICES ASSUME NEW i \in DOMAIN Config, ~matchers'[i].fired, Imminent' # None,
                      Config[i].when.event = Imminent'
               PROVE  ack' \in {"held", "dropped"}
    BY DEF Guarded
  <1>3. (Imminent \in CompletedEvent \cup {None})'
    BY ImminentIs, PTL
  <1>4. Config[i].when.event \in CompletedEvent
    BY <1>3
  <1>5. CASE f.tag = "Z"
    <2>1. cycles' = Rest(cycles)
      BY <1>5, <1>1, BackendWork
    <2>2. cycles \in Seq(Cycle) /\ cycles' \in Seq(Cycle)
      BY DEF TypeOK
    <2>3. FrontCommand(cycles') = ""
      <3>1. CASE cycles' = <<>>
        BY <3>1 DEF FrontCommand
      <3>2. CASE cycles' # <<>>
        <4>1. cycles # <<>> /\ cycles' = Tail(cycles)
          BY <2>1, <3>2 DEF Rest
        <4>2. 2 \in 2 .. Len(cycles) /\ cycles'[1] = cycles[2]
          <5>1. 1 \in 1 .. Len(Tail(cycles)) /\ Len(Tail(cycles)) = Len(cycles) - 1
            BY <2>2, <3>2, <4>1, EndsType
          <5>2. QED
            BY <2>2, <4>1, <5>1
        <4>3. cycles[2].command = ""
          BY <4>2 DEF Structure, LaterCyclesUnanswered
        <4>4. QED
          BY <3>2, <4>2, <4>3 DEF FrontCommand
      <3>3. QED
        BY <3>1, <3>2
    <2>4. QED
      BY <2>3 DEF Imminent, TransactionEnd
  <1>6. CASE f.tag # "Z"
    <2>1. matchers'[i] = matchers[i] /\ tx_state' = tx_state /\ ServerRelayed(f)
          /\ Disposal(f) # "overflow"
      BY <1>1, <1>2, <1>4, <1>6, WaitingMatchersKept, BackendWork
    <2>2. CASE f.tag # "C"
      <3>1. SameFront(cycles, cycles') /\ (reliable' => reliable) /\ ack' = ack
        BY <1>1, <1>6, <2>1, <2>2, BackendFront DEF ServerRelayed
      <3>2. Imminent = Imminent'
        BY <2>1, <3>1, ImminentKept
      <3>3. QED
        BY <2>1, <3>1, <3>2 DEF Guarded
    <2>3. CASE f.tag = "C"
      <3>1. CompletionBoundary(f) = Imminent'
        BY <1>1, <2>3, BoundaryIsImminent
      <3>2. Gate(f)
        BY <2>1, <3>1 DEF Gate, NeedsGate
      <3>3. ack' = Disposal(f)
        BY <2>1, <2>3 DEF ServerRelayed
      <3>4. QED
        BY <2>1, <3>2, <3>3, GateFacts
    <2>4. QED
      BY <2>2, <2>3
  <1>7. QED
    BY <1>5, <1>6

-----------------------------------------------------------------------------
(***************************************************************************)
(* The inductive invariant of a session.                                   *)
(***************************************************************************)
WithheldInv ==
    /\ AlignedInv
    /\ conn = "open" => /\ Guarded /\ Opens(srv)
                        /\ \A k \in 1 .. Len(replies) : Sober(replies[k])

LEMMA WithheldInit == SessionInit => WithheldInv
  <1> SUFFICES ASSUME SessionInit PROVE WithheldInv
    OBVIOUS
  <1>1. AlignedInv
    BY AlignedInit
  <1>2. cycles = <<>>
    BY DEF SessionInit, ProxyInit, Init
  <1>3. Imminent = None
    BY <1>2 DEF Imminent, FrontLast, ClassOf, TransactionEnd
  <1>4. Guarded
    BY <1>3 DEF Guarded
  <1>5. Opens(srv)
    <2>1. srv.last = NoSql
      BY DEF SessionInit, NewServer
    <2>2. QED
      BY <2>1 DEF Opens, ClassOf
  <1>6. /\ Len(replies) = 2 /\ replies[1].frame.tag = "S" /\ replies[2].frame.tag = "Z"
        /\ replies[2].frame.status = "I" /\ replies[2].tx = "I" /\ replies[2].last = NoSql
    <2> DEFINE q == Welcome(NewServer, Startup.application_name)
    <2>1. /\ Len(q) = 2 /\ q[1].frame.tag = "S" /\ q[2].frame.tag = "Z"
          /\ q[2].frame.status = "I"
          /\ \A k \in 1 .. 2 : q[k].tx = "I" /\ q[k].last = NoSql
      BY WelcomeIs
    <2>2. replies = q
      BY DEF SessionInit
    <2>3. q[2].tx = "I" /\ q[2].last = NoSql
      BY <2>1
    <2> HIDE DEF q
    <2>4. QED
      BY <2>1, <2>2, <2>3
  <1>7. Sober(replies[1])
    BY <1>6 DEF Sober
  <1>8. Sober(replies[2])
    BY <1>6 DEF Sober, Opens, ClassOf
  <1>9. \A k \in 1 .. Len(replies) : k = 1 \/ k = 2
    BY <1>6
  <1>10. QED
    BY <1>1, <1>4, <1>5, <1>7, <1>8, <1>9 DEF WithheldInv

LEMMA WithheldKept ==
    ASSUME Orderly, ~MaySuspend, WithheldInv, [SessionNext]_sessionVars
    PROVE  WithheldInv'
  <1>1. AlignedInv /\ AlignedInv' /\ TypeOK /\ TypeOK' /\ Structure
    BY AlignedStep DEF WithheldInv, AlignedInv
  <1> SUFFICES ASSUME conn' = "open"
               PROVE  /\ Guarded' /\ Opens(srv)'
                      /\ \A k \in 1 .. Len(replies') : Sober(replies'[k])
    BY <1>1 DEF WithheldInv, Sober, Opens
  <1>2. CASE UNCHANGED sessionVars
    <2>1. UNCHANGED proxyVars /\ UNCHANGED <<srv, replies>>
      BY <1>2 DEF sessionVars
    <2>2. UNCHANGED <<matchers, conn, ack, cycles, reliable, tx_state>>
      BY <2>1 DEF proxyVars, relayVars, stateVars
    <2>3. Imminent' = Imminent
      BY <2>2 DEF Imminent
    <2>4. Guarded /\ Opens(srv) /\ \A k \in 1 .. Len(replies) : Sober(replies[k])
      BY <2>2 DEF WithheldInv
    <2>5. QED
      BY <2>1, <2>2, <2>3, <2>4 DEF Guarded, Opens
  <1>3. ASSUME NEW f \in ClientFrames, ClientStep(f)
        PROVE  /\ Guarded' /\ Opens(srv)'
               /\ \A k \in 1 .. Len(replies') : Sober(replies'[k])
    <2>1. /\ conn = "open" /\ Connected /\ f.tag # "D"
          /\ srv.copy # "no" => f.tag = "c"
          /\ \E a : Joins(f, a)
      BY <1>1, <1>3, ClientTurn
    <2>2. PICK a : Joins(f, a)
      BY <2>1
    <2>3. /\ a \in Answers(srv, f) /\ srv' = a.srv /\ replies' = replies \o a.out
          /\ a.out \in Seq(ServerReply)
      BY <2>2 DEF Joins, Turn, IsAnswer
    <2>4. /\ Guarded /\ Opens(srv) /\ \A k \in 1 .. Len(replies) : Sober(replies[k])
      BY <2>1 DEF WithheldInv
    <2>5. srv \in ServerState /\ replies \in Seq(ServerReply) /\ (srv.copy # "no" => srv.copy = "Q")
      BY <2>1 DEF Connected, InStep
    <2>6. Steady(a)
      BY <2>1, <2>3, <2>4, <2>5, AnswersSteady, CopySteady
    <2>7. Guarded'
      BY <1>1, <1>3, <2>4, ClientGuarded DEF ClientStep
    <2> DEFINE o == a.out
               j == replies \o o
    <2>8. /\ o \in Seq(ServerReply) /\ \A k \in 1 .. Len(o) : Sober(o[k])
      BY <2>3, <2>6 DEF Steady
    <2> HIDE DEF o
    <2>9. \A k \in 1 .. Len(j) : \/ k \in 1 .. Len(replies) /\ j[k] = replies[k]
                                 \/ \E i \in 1 .. Len(o) : k = Len(replies) + i /\ j[k] = o[i]
      BY <2>5, <2>8, Joined
    <2>10. replies' = j
      BY <2>3 DEF o
    <2> HIDE DEF j
    <2>11. \A k \in 1 .. Len(replies') : Sober(replies'[k])
      BY <2>4, <2>8, <2>9, <2>10
    <2>12. Opens(srv')
      BY <2>3, <2>6 DEF Steady
    <2>13. QED
      BY <2>7, <2>11, <2>12 DEF Opens
  <1>4. CASE ServerStep
    <2>1. /\ conn = "open" /\ replies # <<>> /\ replies' = Tail(replies) /\ srv' = srv
      BY <1>4, ServerReads
    <2>2. /\ Guarded /\ Opens(srv) /\ \A k \in 1 .. Len(replies) : Sober(replies[k])
          /\ replies \in Seq(ServerReply)
      BY <1>1, <2>1 DEF WithheldInv, AlignedInv, Connected
    <2>3. /\ Head(replies) = replies[1] /\ replies[1] \in ServerReply /\ 1 \in 1 .. Len(replies)
          /\ \A k \in 1 .. Len(replies') : k + 1 \in 1 .. Len(replies)
                                             /\ replies'[k] = replies[k + 1]
      BY <2>1, <2>2, Dequeued
    <2>4. PICK g : g = replies[1].frame
      OBVIOUS
    <2>5. g \in ServerFrames /\ g.tag # "s" /\ ServerFrame(g)
      BY <1>4, <2>2, <2>3, <2>4, ReplyFields DEF Sober, ServerStep
    <2>6. Guarded'
      BY <1>1, <2>2, <2>5, ServerGuarded
    <2>7. \A k \in 1 .. Len(replies') : Sober(replies'[k])
      BY <2>2, <2>3
    <2>8. QED
      BY <2>1, <2>2, <2>6, <2>7 DEF Opens
  <1>5. CASE Break
    BY <1>5 DEF Break, ClientEof, UpstreamEof, Failure, Return
  <1>6. QED
    BY <1>2, <1>3, <1>4, <1>5 DEF SessionNext, Finished

LEMMA WithheldInvariant ==
    ASSUME Orderly, ~MaySuspend
    PROVE  SessionSpec => []WithheldInv
  <1>1. WithheldInv /\ [SessionNext]_sessionVars => WithheldInv'
    BY WithheldKept
  <1>2. QED
    BY <1>1, WithheldInit, PTL DEF SessionSpec

(***************************************************************************)
(* A completed event fires at ReadyForQuery only.                          *)
(***************************************************************************)
LEMMA CompletionFires ==
    ASSUME Orderly, AlignedInv, SessionNext, NEW i \in fired',
           Config[i].when.event \in CompletedEvent, ~(UNCHANGED sessionVars)
    PROVE  /\ ServerStep /\ i \in DOMAIN Config /\ ~matchers[i].fired
           /\ replies[1].frame.tag = "Z" /\ replies[1].frame \in ServerFrames
           /\ ServerFrame(replies[1].frame)
           /\ Completed(StatusOf(replies[1].frame)) = Config[i].when.event
  <1>1. ASSUME NEW ms, NEW es, i \in Fired(ms, es)
        PROVE  /\ i \in DOMAIN Config /\ ~ms[i].fired
               /\ \E k \in DOMAIN es : es[k].event = Config[i].when.event
    BY <1>1 DEF Fired, Fires, MatchesOne, Matches
  <1>2. ASSUME NEW ms, NEW es, Silent(es) PROVE i \notin Fired(ms, es)
    BY <1>1, <1>2 DEF Silent
  <1>3. ASSUME NEW f \in ClientFrames, ClientStep(f) PROVE FALSE
    <2>1. PICK ok \in BOOLEAN : ClientRelay(f, ok)
      BY <1>3 DEF ClientStep, ClientFrame
    <2>2. PICK forwarded : ClientApplies(f, ok, forwarded)
      BY <2>1, ClientArm
    <2>3. Silent(events')
      BY <2>1, SilentStep DEF ClientRelay
    <2>4. Silent(forwarded)
      <3>1. Forwarded(cycles', tx_epoch').event \notin CompletedEvent
        BY DEF Forwarded, FrontendEvent, CompletedEvent
      <3>2. forwarded = <<>> \/ forwarded = <<Forwarded(cycles', tx_epoch')>>
        BY <2>2 DEF ClientApplies
      <3>3. QED
        BY <3>1, <3>2 DEF Silent
    <2>5. fired' = Fired(matchers, events') \cup Fired(ObserveAll(matchers, events'), forwarded)
      BY <2>2 DEF ClientApplies
    <2>6. QED
      BY <1>2, <2>3, <2>4, <2>5
  <1>4. ~Break
    BY DEF Break, ClientEof, UpstreamEof, Failure, Unrelayed
  <1>5. ServerStep
    BY <1>3, <1>4 DEF SessionNext, Finished
  <1>6. /\ conn = "open" /\ replies # <<>>
    BY <1>5, ServerReads
  <1>7. TypeOK /\ replies \in Seq(ServerReply)
    BY <1>6 DEF AlignedInv, Connected
  <1>8. PICK g : g = replies[1].frame
    OBVIOUS
  <1>9. g \in ServerFrames /\ ServerFrame(g) /\ Backend(g) /\ fired' = Fired(matchers, events')
    <2>1. Head(replies) = replies[1] /\ replies[1] \in ServerReply
      BY <1>6, <1>7, Dequeued
    <2>2. g \in ServerFrames /\ ServerFrame(g)
      BY <1>5, <1>8, <2>1, ReplyFields DEF ServerStep
    <2>3. QED
      BY <2>2 DEF ServerFrame, Observed
  <1>10. g.tag = "Z"
    BY <1>2, <1>9, SilentStep
  <1>11. /\ i \in DOMAIN Config /\ ~matchers[i].fired /\ Config[i].when.event \in Named(events')
    BY <1>1, <1>9 DEF Named
  <1>12. PICK failed \in {"transaction.failed", None} :
            Named(events') = {"backend.ready", failed, Completed(StatusOf(g)),
                              "connection.ready"} \ {None}
    BY <1>7, <1>9, <1>10, BackendEventsAre
  <1>13. Completed(StatusOf(g)) = Config[i].when.event
    BY <1>11, <1>12 DEF CompletedEvent
  <1>14. QED
    BY <1>5, <1>8, <1>9, <1>10, <1>11, <1>13

(***************************************************************************)
(* No end of an implicit transaction is reported for a BEGIN.              *)
(***************************************************************************)
Unbegun ==
    replies[1].frame.tag = "Z" /\ replies[1].frame.status = "I" /\ cycles # <<>>
    /\ ~cycles[1].error => ClassOf(cycles[1].last) # "Begin"

LEMMA Withholds ==
    ASSUME Orderly, WithheldInv, [SessionNext]_sessionVars, ~(UNCHANGED sessionVars),
           NEW i \in fired', Config[i].when.event \in CompletedEvent,
           Config[i].when.event = "transaction.implicit.completed" /\ ServerStep => Unbegun
    PROVE  /\ ack # "written"
           /\ Config[i].action.suppress = TRUE \/ Config[i].action.disconnect # None
              => to_client' = <<>> /\ (held' = <<>> \/ conn' # "open")
  <1>1. PICK g : g = replies[1].frame
    OBVIOUS
  <1>2. /\ ServerStep /\ i \in DOMAIN Config /\ ~matchers[i].fired
        /\ g.tag = "Z" /\ g \in ServerFrames /\ ServerFrame(g)
        /\ Completed(StatusOf(g)) = Config[i].when.event
    BY <1>1, CompletionFires DEF WithheldInv
  <1>3. conn = "open" /\ TypeOK /\ Guarded
    BY <1>2, ServerReads DEF WithheldInv, AlignedInv
  <1> DEFINE c == cycles[1]
             class == ClassOf(c.last)
  <1>4. /\ cycles # <<>> /\ StatusOf(g) = "Idle" /\ reliable /\ ~c.error
        /\ Config[i].when.event
              = TransactionEnd(class, c.command,
                               tx_state = "Idle" /\ c.command # "" /\ class # "Other")
    <2>1. None \notin CompletedEvent
      BY EventAssumption DEF EventName
    <2>2. cycles \in Seq(Cycle)
      BY <1>3 DEF TypeOK
    <2>3. cycles # <<>> => Head(cycles) = c
      BY <2>2
    <2> HIDE DEF c
    <2>4. QED
      BY <1>2, <2>1, <2>3 DEF Completed
  <1>5. FrontLast(cycles) = c.last /\ FrontCommand(cycles) = c.command
    BY <1>4 DEF FrontLast, FrontCommand
  <1>6. g.status = "I"
    BY <1>4, NameAssumption DEF StatusOf, TxState
  <1>7. Config[i].when.event = "transaction.implicit.completed" => class # "Begin"
    BY <1>1, <1>2, <1>4, <1>6 DEF Unbegun
  <1> HIDE DEF c, class
  <1>8. Imminent = Config[i].when.event
    <2>1. Imminent = TransactionEnd(class, c.command,
                        /\ tx_state = "Idle" /\ c.command # ""
                        /\ class \notin {"Begin", "Other"})
      BY <1>4, <1>5 DEF Imminent, class
    <2>2. CASE class \in {"Commit", "Rollback"}
      BY <1>4, <2>1, <2>2 DEF TransactionEnd
    <2>3. CASE class \notin {"Commit", "Rollback"}
      <3>1. Config[i].when.event = IF tx_state = "Idle" /\ c.command # "" /\ class # "Other"
                                   THEN "transaction.implicit.completed" ELSE None
        BY <1>4, <2>3 DEF TransactionEnd
      <3>2. None \notin CompletedEvent
        BY EventAssumption DEF EventName
      <3>3. tx_state = "Idle" /\ c.command # "" /\ class # "Other"
            /\ Config[i].when.event = "transaction.implicit.completed"
        BY <3>1, <3>2
      <3>4. QED
        BY <1>7, <2>1, <2>3, <3>3 DEF TransactionEnd
    <2>4. QED
      BY <2>2, <2>3
  <1>9. ack # "written"
    <2>1. None \notin CompletedEvent
      BY EventAssumption DEF EventName
    <2>2. QED
      BY <1>2, <1>3, <1>8, <2>1 DEF Guarded
  <1>10. ASSUME Config[i].action.suppress = TRUE \/ Config[i].action.disconnect # None
         PROVE  to_client' = <<>> /\ (held' = <<>> \/ conn' # "open")
    <2>1. Suppresses(fired') \/ Disconnects(fired')
      BY <1>10 DEF Suppresses, Disconnects
    <2>2. QED
      BY <1>2, <2>1 DEF ServerFrame, ServerDisconnected, ServerCut, ServerReady, ServerRelayed,
                        ServerWriteFails, Return
  <1>11. QED
    BY <1>9, <1>10

LEMMA NothingBegun ==
    ASSUME LockInv, Settled, Noted, WithheldInv, ServerStep
    PROVE  Unbegun
  <1> DEFINE r == replies[1]
  <1> SUFFICES ASSUME r.frame.tag = "Z", r.frame.status = "I", cycles # <<>>, ~cycles[1].error,
                      ClassOf(cycles[1].last) = "Begin"
               PROVE  FALSE
    BY DEF Unbegun
  <1>1. conn = "open" /\ TypeOK /\ replies \in Seq(ServerReply) /\ replies # <<>>
    BY WorkReplied
  <1>2. 1 \in 1 .. Len(replies)
    BY <1>1, Dequeued
  <1>3. Notes(Seen, r) /\ Sober(r)
    BY <1>1, <1>2 DEF Noted, Trail, WithheldInv
  <1>4. Work \in Cycle /\ Work = cycles[1]
    BY <1>1, WorkType
  <1>5. Seen.last = Work.last /\ Seen.failed = Work.error
    BY <1>4, SeenIs DEF Seen
  <1>6. r.last = Work.last /\ (r.failed <=> Work.error)
    BY <1>3, <1>5 DEF Notes
  <1>7. QED
    BY <1>3, <1>4, <1>6 DEF Sober, Opens

(***************************************************************************)
(* Scenarios that wait for the end of a transaction wait for the end of a  *)
(* block.                                                                  *)
(***************************************************************************)
Explicit == \A i \in DOMAIN Config : Config[i].when.event # "transaction.implicit.completed"

(***************************************************************************)
(* A scenario for the end of a transaction block fires before the client   *)
(* has seen the acknowledgement, and keeps it back if it says so: for      *)
(* every client that sends no Describe, however it pipelines, with scripts *)
(* and COPY in the simple protocol and whatever fails, and a server that   *)
(* suspends no portal (completion_boundary(), which looks ahead at         *)
(* CommandComplete, and the gate of connection()).                         *)
(***************************************************************************)
THEOREM BlockEndWithheldCorrect ==
    ASSUME Orderly, ~MaySuspend, Explicit
    PROVE  SessionSpec => CompletionWithheld
  <1>1. ASSUME WithheldInv, [SessionNext]_sessionVars, ~(UNCHANGED sessionVars),
               NEW i \in fired', Config[i].when.event \in CompletedEvent
        PROVE  /\ ack # "written"
               /\ Config[i].action.suppress = TRUE \/ Config[i].action.disconnect # None
                  => to_client' = <<>> /\ (held' = <<>> \/ conn' # "open")
    <2>1. i \in DOMAIN Config
      BY <1>1, CompletionFires DEF WithheldInv
    <2>2. QED
      BY <1>1, <2>1, Withholds DEF Explicit
  <1>2. WithheldInv /\ [SessionNext]_sessionVars
          => [\A i \in fired' : Config[i].when.event \in CompletedEvent =>
                /\ ack # "written"
                /\ Config[i].action.suppress = TRUE \/ Config[i].action.disconnect # None
                   => to_client' = <<>> /\ (held' = <<>> \/ conn' # "open")]_sessionVars
    BY <1>1
  <1>3. QED
    BY <1>2, WithheldInvariant, PTL DEF SessionSpec, CompletionWithheld

(***************************************************************************)
(* The same for implicit transactions too, whose end the gate guesses from *)
(* the last statement alone: for every client that waits for ReadyForQuery *)
(* and binds the unnamed portal, one statement to a text, and a server     *)
(* that suspends no portal.                                                *)
(***************************************************************************)
THEOREM CompletionWithheldCorrect ==
    ASSUME Lockstep, UnnamedPortals, OneStatement, ~MaySuspend
    PROVE  SessionSpec => CompletionWithheld
  <1>1. Orderly
    BY DEF Lockstep
  <1>2. ASSUME WithheldInv, NoteInv, [SessionNext]_sessionVars, ~(UNCHANGED sessionVars),
               NEW i \in fired', Config[i].when.event \in CompletedEvent
        PROVE  /\ ack # "written"
               /\ Config[i].action.suppress = TRUE \/ Config[i].action.disconnect # None
                  => to_client' = <<>> /\ (held' = <<>> \/ conn' # "open")
    <2>1. ASSUME ServerStep PROVE Unbegun
      <3>1. conn = "open" /\ MapInv /\ LockInv
        BY <1>2, <2>1, ServerReads DEF NoteInv, MapInv
      <3>2. Noted /\ Settled
        BY <1>2, <3>1 DEF NoteInv, MapInv
      <3>3. QED
        BY <1>2, <2>1, <3>1, <3>2, NothingBegun
    <2>2. QED
      BY <1>1, <1>2, <2>1, Withholds
  <1>3. WithheldInv /\ NoteInv /\ [SessionNext]_sessionVars
          => [\A i \in fired' : Config[i].when.event \in CompletedEvent =>
                /\ ack # "written"
                /\ Config[i].action.suppress = TRUE \/ Config[i].action.disconnect # None
                   => to_client' = <<>> /\ (held' = <<>> \/ conn' # "open")]_sessionVars
    BY <1>2
  <1>4. SessionSpec => []WithheldInv
    BY <1>1, WithheldInvariant
  <1>5. QED
    BY <1>3, <1>4, NoteInvariant, PTL DEF SessionSpec, CompletionWithheld

-----------------------------------------------------------------------------
(***************************************************************************)
(* Part 3.  The statement_index of a fault's coordinate.  It counts the    *)
(* completions of an extended cycle; as long as no portal is suspended     *)
(* those are the executions already answered.                              *)
(***************************************************************************)
Indexed ==
    /\ \A k \in 1 .. Len(replies) : replies[k].frame.tag # "s"
    /\ Work.extended => Work.statement_index = Seen.over
    /\ ~Work.extended => /\ Work.statement_index = 0 /\ Work.executions = 1
                         /\ Work.sealed /\ cycles # <<>>

LEMMA FreshIndexed ==
    ASSUME NEW n, NEW extended
    PROVE  LET c == FreshCycle(n, extended) IN
           c.extended = extended /\ c.statement_index = 0 /\ c.sealed = ~extended
  BY DEF FreshCycle

LEMMA ClientIndexed ==
    ASSUME Lockstep, OneStatement, ~MaySuspend, LockInv, Noted, Indexed,
           NEW f \in ClientFrames, ClientStep(f), conn' = "open"
    PROVE  Indexed'
  <1> DEFINE x == f.tag # "Q"
             c == Only(x)
             d == cycles'[1]
             w == Work
             v == Work'
  <1>1. /\ TypeOK /\ Frontend(f) /\ Len(cycles) <= 1 /\ (cycles = <<>> \/ NewestOpen)
        /\ f.tag \in {"P", "B", "C", "E", "S", "Q", "H"}
        /\ f.tag = "Q" => cycles = <<>>
    BY ClientAlone DEF InTurn
  <1>2. PICK a : Speaks(f, a)
    BY ClientSays
  <1>3. /\ a.out \in Seq(ServerReply) /\ replies \in Seq(ServerReply)
        /\ replies' = replies \o a.out
        /\ \A k \in 1 .. Len(a.out) : a.out[k].frame.tag # "s"
    BY <1>2, ClientReady DEF Speaks, IsAnswer, Voices
  <1>4. \A k \in 1 .. Len(replies') : replies'[k].frame.tag # "s"
    <2> DEFINE o == a.out
               j == replies \o o
    <2>1. \A k \in 1 .. Len(j) : \/ k \in 1 .. Len(replies) /\ j[k] = replies[k]
                                 \/ \E i \in 1 .. Len(o) : k = Len(replies) + i /\ j[k] = o[i]
      BY <1>3, Joined
    <2> HIDE DEF j
    <2>2. \A k \in 1 .. Len(j) : j[k].frame.tag # "s"
      BY <1>3, <2>1 DEF Indexed
    <2>3. QED
      BY <1>3, <2>2 DEF j
  <1>5. /\ f.tag # "H" => cycles' # <<>> /\ SameShape(c, d) /\ d.sealed = (f.tag \in {"S", "Q"})
        /\ f.tag = "Q" => d.executions = c.executions + 1 /\ c.executions = 0
        /\ f.tag = "H" => UNCHANGED <<cycles, next_cycle>>
    BY <1>1, OnlyWork
  <1>6. Seen' = Seen
    BY ClientWorks
  <1>7. f.tag # "H" => v = d
    BY <1>5 DEF Work, Only
  <1>8. CASE f.tag = "H"
    <2>1. v = w /\ (cycles # <<>> => cycles' # <<>>)
      BY <1>5, <1>8 DEF Work, Only
    <2>2. QED
      BY <1>4, <1>6, <2>1 DEF Indexed
  <1>9. CASE f.tag = "Q"
    <2>1. c = FreshCycle(next_cycle + 1, x) /\ x = FALSE
      BY <1>1, <1>9 DEF Only
    <2>2. c.extended = x /\ c.statement_index = 0
      BY <2>1, FreshIndexed
    <2> HIDE DEF c, d, v
    <2>3. d.extended = FALSE /\ d.statement_index = 0 /\ d.sealed = TRUE
      BY <1>5, <1>9, <2>1, <2>2 DEF SameShape
    <2>4. d.executions = 1
      BY <1>5, <1>9
    <2>5. QED
      BY <1>4, <1>5, <1>7, <1>9, <2>3, <2>4 DEF Indexed, v
  <1>10. CASE f.tag \notin {"H", "Q"}
    <2>1. c = w
      BY <1>10 DEF Work
    <2>2. w.extended = TRUE
      <3>1. CASE cycles = <<>>
        <4>1. w = FreshCycle(next_cycle + 1, TRUE)
          BY <3>1 DEF Work, Only
        <4>2. QED
          BY <4>1, FreshIndexed
      <3>2. CASE cycles # <<>>
        <4>1. cycles \in Seq(Cycle) /\ Len(cycles) = 1
          BY <1>1, <3>2, Single DEF TypeOK
        <4>2. w = cycles[1] /\ ~cycles[1].sealed
          BY <1>1, <3>2, <4>1 DEF Work, Only, NewestOpen
        <4>3. w.extended \in BOOLEAN
          BY <1>1, WorkType DEF Cycle
        <4>4. QED
          BY <4>2, <4>3 DEF Indexed
      <3>3. QED
        BY <3>1, <3>2
    <2> HIDE DEF c, d, v, w
    <2>3. v.extended = TRUE /\ v.statement_index = w.statement_index
      BY <1>5, <1>7, <1>10, <2>1, <2>2 DEF SameShape
    <2>4. QED
      BY <1>4, <1>6, <2>2, <2>3 DEF Indexed, v, w
  <1>11. QED
    BY <1>8, <1>9, <1>10

LEMMA ServerIndexed ==
    ASSUME LockInv, Noted, Indexed, NEW T, Filed(T), ServerStep
    PROVE  Indexed'
  <1> DEFINE r == replies[1]
             f == r.frame
             c == Work
             d == Work'
  <1>1. /\ TypeOK /\ replies \in Seq(ServerReply) /\ replies # <<>>
        /\ r \in ServerReply /\ f \in ServerFrames /\ Backend(f) /\ replies' = Tail(replies)
        /\ f.tag # "Z" => d = Replied(f, c)
        /\ f.tag = "Z" => cycles' = <<>>
    BY WorkReplied
  <1>2. /\ 1 \in 1 .. Len(replies)
        /\ \A k \in 1 .. Len(replies') :
              k + 1 \in 1 .. Len(replies) /\ replies'[k] = replies[k + 1]
    BY <1>1, Dequeued
  <1>3. f.tag # "s" /\ \A k \in 1 .. Len(replies') : replies'[k].frame.tag # "s"
    BY <1>2 DEF Indexed
  <1>4. Seen = SeenOf(c) /\ Seen' = SeenOf(d)
    BY DEF Seen, SeenOf
  <1>5. CASE f.tag = "Z"
    <2>1. d = FreshCycle(next_cycle' + 1, TRUE) /\ next_cycle' + 1 \in Nat
      BY <1>1, <1>5, BackendWork DEF Work, Only, TypeOK
    <2>2. d.extended = TRUE /\ d.statement_index = 0
      BY <2>1, FreshIndexed
    <2>3. d \in Cycle /\ d.executions = 0 /\ Len(d.statements) = 0
      BY <2>1, FreshIs
    <2> HIDE DEF d
    <2>4. SeenOf(d).over = 0
      BY <2>3, SeenIs
    <2>5. QED
      BY <1>3, <1>4, <2>2, <2>4 DEF Indexed, d
  <1>6. CASE f.tag # "Z"
    <2>1. c \in Cycle
      BY <1>1, WorkType
    <2>2. cycles # <<>> => cycles' # <<>>
      <3>1. cycles \in Seq(Cycle) /\ cycles' \in Seq(Cycle) /\ Len(cycles') = Len(cycles)
        BY <1>1, <1>6, BackendWork DEF TypeOK
      <3>2. QED
        BY <3>1
    <2>3. f.tag = "C" => c.statements # <<>>
      BY <1>1, CurrentIs DEF Tells
    <2> HIDE DEF c, d
    <2>4. /\ d \in Cycle /\ d.executions = c.executions /\ d.sealed = c.sealed
          /\ d.extended = c.extended
          /\ d.statements = IF f.tag = "C" THEN Rest(c.statements) ELSE c.statements
          /\ d.statement_index = IF f.tag = "C" /\ c.extended THEN c.statement_index + 1
                                 ELSE c.statement_index
      BY <1>1, <1>3, <1>6, <2>1, RepliedIs
    <2>5. /\ c.executions \in Nat /\ c.statements \in Seq(Statement) /\ Len(c.statements) \in Nat
          /\ SeenOf(c).over = c.executions - Len(c.statements)
      BY <2>1, SeenIs
    <2>6. SeenOf(d).over = d.executions - Len(d.statements)
      BY <2>4, SeenIs
    <2>7. SeenOf(d).over = IF f.tag = "C" THEN SeenOf(c).over + 1 ELSE SeenOf(c).over
      <3>1. CASE f.tag = "C"
        <4> DEFINE q == c.statements
                   p == d.statements
        <4>1. q \in Seq(Statement) /\ q # <<>> /\ p = Tail(q)
          BY <2>3, <2>4, <2>5, <3>1 DEF Rest
        <4> HIDE DEF q, p
        <4>2. Len(q) \in Nat /\ Len(q) = Len(p) + 1 /\ Len(p) \in Nat
          BY <4>1, Dequeued
        <4>3. QED
          BY <2>4, <2>5, <2>6, <3>1, <4>2 DEF p, q
      <3>2. CASE f.tag # "C"
        BY <2>4, <2>5, <2>6, <3>2
      <3>3. QED
        BY <3>1, <3>2
    <2>8. QED
      BY <1>3, <1>4, <2>2, <2>4, <2>7 DEF Indexed, c, d
  <1>7. QED
    BY <1>5, <1>6

IndexInv == NoteInv /\ (conn = "open" => Indexed)

LEMMA IndexInvariant ==
    ASSUME Lockstep, UnnamedPortals, OneStatement, ~MaySuspend
    PROVE  SessionSpec => []IndexInv
  <1>1. SessionInit => IndexInv
    <2> SUFFICES ASSUME SessionInit PROVE Indexed
      BY NoteInit DEF IndexInv
    <2>1. /\ Len(replies) = 2 /\ replies[1].frame.tag = "S" /\ replies[2].frame.tag = "Z"
      BY WelcomeIs DEF SessionInit
    <2>2. \A k \in 1 .. Len(replies) : k = 1 \/ k = 2
      BY <2>1
    <2>3. cycles = <<>> /\ TypeOK
      BY LockInit DEF LockInv, AlignedInv, SessionInit, ProxyInit, Init
    <2>4. Work = FreshCycle(next_cycle + 1, TRUE) /\ next_cycle + 1 \in Nat
      BY <2>3 DEF Work, Only, TypeOK
    <2>5. Work.extended = TRUE /\ Work.statement_index = 0
      BY <2>4, FreshIndexed
    <2>6. Work \in Cycle /\ Work.executions = 0 /\ Len(Work.statements) = 0
      BY <2>4, FreshIs
    <2>7. Seen.over = Work.executions - Len(Work.statements)
      BY <2>6, SeenIs DEF Seen
    <2>8. Seen.over = 0
      BY ONLY <2>6, <2>7
    <2>9. QED
      BY <2>1, <2>2, <2>5, <2>8 DEF Indexed
  <1>2. ASSUME IndexInv, [SessionNext]_sessionVars PROVE IndexInv'
    <2>1. NoteInv /\ NoteInv' /\ MapInv /\ LockInv
      BY <1>2, NoteKept DEF IndexInv, NoteInv, MapInv
    <2> SUFFICES ASSUME conn' = "open" PROVE Indexed'
      BY <2>1 DEF IndexInv
    <2>2. CASE UNCHANGED sessionVars
      <3>1. UNCHANGED proxyVars /\ UNCHANGED <<srv, replies>>
        BY <2>2 DEF sessionVars
      <3>2. UNCHANGED stateVars /\ UNCHANGED conn
        BY <3>1 DEF proxyVars, relayVars
      <3>3. Work' = Work /\ cycles' = cycles
        BY <3>2 DEF stateVars, Work, Only
      <3>4. Seen' = Seen
        BY <3>3 DEF Seen, SeenOf
      <3>5. QED
        BY <1>2, <3>1, <3>2, <3>3, <3>4 DEF IndexInv, Indexed
    <2>3. ASSUME NEW f \in ClientFrames, ClientStep(f) PROVE Indexed'
      <3>1. conn = "open"
        BY <2>1, <2>3, ClientTurn DEF Lockstep, LockInv
      <3>2. QED
        BY <1>2, <2>1, <2>3, <3>1, ClientIndexed DEF IndexInv, NoteInv
    <2>4. CASE ServerStep
      <3>1. conn = "open"
        BY <2>4, ServerReads
      <3>2. PICK T : Noted /\ Filed(T) /\ Indexed
        BY <1>2, <3>1 DEF IndexInv, NoteInv
      <3>3. QED
        BY <2>1, <2>4, <3>2, ServerIndexed
    <2>5. CASE Break
      BY <2>5 DEF Break, ClientEof, UpstreamEof, Failure, Return, Unrelayed
    <2>6. QED
      BY <1>2, <2>2, <2>3, <2>4, <2>5 DEF SessionNext, Finished
  <1>3. IndexInv /\ [SessionNext]_sessionVars => IndexInv'
    BY <1>2
  <1>4. QED
    BY <1>1, <1>3, PTL DEF SessionSpec

(***************************************************************************)
(* The statement_index of a row or a completion is the position of the     *)
(* statement in its cycle, for the same clients and a server that suspends *)
(* no portal: executions, counted where the client's frames are read, and  *)
(* statement_index, counted where the server's are, tell the same story.   *)
(***************************************************************************)
THEOREM IndicesExactCorrect ==
    ASSUME Lockstep, UnnamedPortals, OneStatement, ~MaySuspend
    PROVE  SessionSpec => IndicesExact
  <1>1. ASSUME IndexInv, [SessionNext]_sessionVars, Handled,
               NEW e \in NewEvents,
               e.event \in {"result.row", "statement.execution_completed"}
        PROVE  e.index = reply'.index
    <2> DEFINE r == replies[1]
               c == Work
    <2>1. LockInv /\ AlignedInv /\ Orderly /\ NoteInv
      BY <1>1 DEF IndexInv, NoteInv, MapInv, LockInv, Lockstep
    <2>2. ServerStep
      BY <1>1, <2>1, HandledIs
    <2>3. /\ conn = "open" /\ TypeOK /\ reply' = r /\ r \in ServerReply
          /\ replies \in Seq(ServerReply) /\ replies # <<>>
      BY <2>1, <2>2, WorkReplied
    <2>4. PICK T : Noted /\ Filed(T) /\ Indexed
      BY <1>1, <2>3 DEF IndexInv, NoteInv
    <2>5. r.frame.tag \in {"D", "C"} /\ cycles # <<>> /\ Describes(e)
      BY <1>1, <2>1, <2>2, RowOrCompletion
    <2>6. 1 \in 1 .. Len(replies) /\ r.index \in Nat
      BY <2>3, Dequeued, ReplyFields
    <2>7. Notes(Seen, r) /\ r.index <= c.executions
      BY <2>4, <2>6 DEF Noted, Trail
    <2>8. Seen.over = r.index - 1
      BY <2>5, <2>7 DEF Notes, Tells
    <2>9. c = cycles[1] /\ c \in Cycle /\ c.statements # <<>>
      BY <2>3, <2>4, <2>5, CurrentIs, WorkType DEF Tells
    <2>10. e.index = c.statement_index + 1
      BY <2>5, <2>9 DEF Describes, BackendIndex
    <2>11. c.statement_index = r.index - 1
      <3>1. CASE c.extended
        BY <2>4, <2>8, <3>1 DEF Indexed
      <3>2. CASE ~c.extended
        <4>1. c.statement_index = 0 /\ c.executions = 1
          BY <2>4, <3>2 DEF Indexed
        <4>2. c.executions \in Nat /\ Len(c.statements) \in Nat
              /\ Seen.over = c.executions - Len(c.statements)
          BY <2>9, SeenIs DEF Seen
        <4>3. Len(c.statements) <= c.executions
          BY <2>4 DEF Noted
        <4>4. QED
          BY ONLY <2>6, <2>7, <2>8, <4>1, <4>2, <4>3
      <3>3. QED
        BY <3>1, <3>2
    <2>12. r.index = c.statement_index + 1
      BY ONLY <2>6, <2>11
    <2>13. QED
      BY <2>3, <2>10, <2>12
  <1>2. IndexInv /\ [SessionNext]_sessionVars
          => [Handled => \A e \in NewEvents :
                e.reliable /\ e.event \in {"result.row", "statement.execution_completed"}
                => e.index = reply'.index]_sessionVars
    BY <1>1
  <1>3. QED
    BY <1>2, IndexInvariant, PTL DEF SessionSpec, IndicesExact
=============================================================================
