---------------------------- MODULE ServerProofs ----------------------------
(***************************************************************************)
(* Proofs about the accept loop and the negotiation before the relay loop, *)
(* for any number of connections and either use of TLS; and about the      *)
(* command line around them.                                               *)
(***************************************************************************)
EXTENDS Cli, SequenceFacts

-----------------------------------------------------------------------------
(***************************************************************************)
(* The events of one connection in the trace: EventsIn, one record at a    *)
(* time.                                                                   *)
(***************************************************************************)
LifeEvent == {"startup", "connection.closed", "result.truncated", "cancel.forwarded"}

Records == [id : Connection, event : LifeEvent]

Upto(records, c, f) ==
    [k \in 0 .. Len(records) |->
        IF k = 0 THEN <<>>
        ELSE IF records[k].id = c THEN Append(f[k - 1], records[k].event)
        ELSE f[k - 1]]

LEMMA UptoExists ==
    ASSUME NEW records \in Seq(Records), NEW c
    PROVE  \E f \in [0 .. Len(records) -> Seq(LifeEvent)] : f = Upto(records, c, f)
<1> DEFINE n == Len(records)
           S == Seq(LifeEvent)
           h == [p \in (1 .. n) \X S |->
                   IF records[p[1]].id = c THEN Append(p[2], records[p[1]].event) ELSE p[2]]
<1>1. n \in Nat /\ <<>> \in S
  OBVIOUS
<1>2. h \in [(1 .. n) \X S -> S]
  <2> SUFFICES ASSUME NEW k \in 1 .. n, NEW s \in S
               PROVE  (IF records[k].id = c THEN Append(s, records[k].event) ELSE s) \in S
    OBVIOUS
  <2>1. records[k] \in Records
    OBVIOUS
  <2>2. \A r \in Records : r.event \in LifeEvent
    BY DEF Records
  <2> QED BY <2>1, <2>2, AppendProperties
<1>a. \A k \in 1 .. n, s \in S :
        h[<<k, s>>] = IF records[k].id = c THEN Append(s, records[k].event) ELSE s
  OBVIOUS
<1> HIDE DEF S, h
<1>3. PICK f \in [0 .. n -> S] : Follows(f, n, <<>>, h)
  BY <1>1, <1>2, RecursionExists
<1>4. \A k \in 0 .. n : f[k] = IF k = 0 THEN <<>>
                               ELSE IF records[k].id = c THEN Append(f[k - 1], records[k].event)
                               ELSE f[k - 1]
  <2> SUFFICES ASSUME NEW k \in 0 .. n
               PROVE  f[k] = IF k = 0 THEN <<>>
                             ELSE IF records[k].id = c THEN Append(f[k - 1], records[k].event)
                             ELSE f[k - 1]
    OBVIOUS
  <2>1. CASE k = 0
    BY <1>3, <2>1 DEF Follows
  <2>2. CASE k # 0
    <3>1. k \in 1 .. n /\ k - 1 \in 0 .. n
      BY <1>1, <2>2
    <3>2. f[k] = h[<<k, f[k - 1]>>] /\ f[k - 1] \in S
      BY <1>3, <3>1 DEF Follows
    <3> QED BY <1>a, <2>2, <3>1, <3>2
  <2> QED BY <2>1, <2>2
<1>5. f = Upto(records, c, f)
  BY <1>3, <1>4 DEF Upto
<1> QED BY <1>3, <1>5 DEF S

LEMMA UptoUnique ==
    ASSUME NEW records \in Seq(Records), NEW c, NEW f, NEW g,
           f = Upto(records, c, f), g = Upto(records, c, g)
    PROVE  f = g
<1> DEFINE n == Len(records)
           T == {m \in Nat : m <= n => f[m] = g[m]}
<1>0. n \in Nat
  OBVIOUS
<1>1. \A k \in 0 .. n :
        /\ f[k] = IF k = 0 THEN <<>>
                  ELSE IF records[k].id = c THEN Append(f[k - 1], records[k].event)
                  ELSE f[k - 1]
        /\ g[k] = IF k = 0 THEN <<>>
                  ELSE IF records[k].id = c THEN Append(g[k - 1], records[k].event)
                  ELSE g[k - 1]
  BY DEF Upto
<1>2. 0 \in T
  BY <1>0, <1>1
<1>3. ASSUME NEW m \in Nat, m \in T PROVE m + 1 \in T
  <2> SUFFICES ASSUME m + 1 <= n PROVE f[m + 1] = g[m + 1]
    OBVIOUS
  <2>1. f[m] = g[m] /\ m + 1 \in 0 .. n /\ (m + 1) - 1 = m /\ m + 1 # 0
    BY <1>0, <1>3
  <2>2. /\ f[m + 1] = IF records[m + 1].id = c THEN Append(f[m], records[m + 1].event) ELSE f[m]
        /\ g[m + 1] = IF records[m + 1].id = c THEN Append(g[m], records[m + 1].event) ELSE g[m]
    BY <1>1, <2>1
  <2> QED BY <2>1, <2>2
<1> HIDE DEF T
<1>4. Nat \subseteq T
  BY <1>2, <1>3, InductionOverNat
<1>5. \A k \in 0 .. n : f[k] = g[k]
  BY <1>0, <1>4 DEF T
<1>6. f = [k \in 0 .. n |-> f[k]] /\ g = [k \in 0 .. n |-> g[k]]
  BY DEF Upto
<1> QED BY <1>5, <1>6

LEMMA EventsInIs ==
    ASSUME NEW records \in Seq(Records), NEW c, NEW f, f = Upto(records, c, f)
    PROVE  EventsIn(records, c) = f[Len(records)]
<1> DEFINE u == CHOOSE u : u = Upto(records, c, u)
<1>1. EventsIn(records, c) = u[Len(records)]
  BY DEF EventsIn, Upto
<1>2. u = Upto(records, c, u)
  OBVIOUS
<1> HIDE DEF u
<1>3. u = f
  BY <1>2, UptoUnique
<1> QED BY <1>1, <1>3

LEMMA EventsInFacts ==
    ASSUME NEW records \in Seq(Records), NEW c
    PROVE  /\ EventsIn(records, c) \in Seq(LifeEvent)
           /\ records = <<>> => EventsIn(records, c) = <<>>
           /\ \A r \in Records :
                 EventsIn(Append(records, r), c)
                   = IF r.id = c THEN Append(EventsIn(records, c), r.event)
                     ELSE EventsIn(records, c)
<1> DEFINE n == Len(records)
<1>0. n \in Nat
  OBVIOUS
<1>1. PICK f \in [0 .. n -> Seq(LifeEvent)] : f = Upto(records, c, f)
  BY UptoExists
<1>2. EventsIn(records, c) = f[n] /\ f[n] \in Seq(LifeEvent)
  BY <1>0, <1>1, EventsInIs
<1>3. ASSUME records = <<>> PROVE EventsIn(records, c) = <<>>
  <2>1. n = 0 /\ 0 \in 0 .. n
    BY <1>3
  <2>2. f[0] = <<>>
    BY <1>1, <2>1 DEF Upto
  <2> QED BY <1>2, <2>1, <2>2
<1>4. ASSUME NEW r \in Records
      PROVE  EventsIn(Append(records, r), c)
               = IF r.id = c THEN Append(EventsIn(records, c), r.event)
                 ELSE EventsIn(records, c)
  <2> DEFINE more == Append(records, r)
             g == [k \in 0 .. n + 1 |->
                     IF k = n + 1
                     THEN IF r.id = c THEN Append(f[n], r.event) ELSE f[n]
                     ELSE f[k]]
  <2>1. /\ more \in Seq(Records) /\ Len(more) = n + 1 /\ more[n + 1] = r
        /\ \A k \in 1 .. n : more[k] = records[k]
    BY AppendProperties
  <2> HIDE DEF more
  <2>2. \A k \in 0 .. n + 1 :
          g[k] = IF k = 0 THEN <<>>
                 ELSE IF more[k].id = c THEN Append(g[k - 1], more[k].event)
                 ELSE g[k - 1]
    <3> SUFFICES ASSUME NEW k \in 0 .. n + 1
                 PROVE  g[k] = IF k = 0 THEN <<>>
                               ELSE IF more[k].id = c THEN Append(g[k - 1], more[k].event)
                               ELSE g[k - 1]
      OBVIOUS
    <3>1. CASE k = n + 1
      <4>1. g[k] = (IF r.id = c THEN Append(f[n], r.event) ELSE f[n]) /\ g[k - 1] = f[n] /\ k # 0
        BY <1>0, <3>1
      <4> QED BY <2>1, <3>1, <4>1
    <3>2. CASE k # n + 1
      <4>1. k \in 0 .. n /\ g[k] = f[k]
        BY <1>0, <3>2
      <4>2. f[k] = IF k = 0 THEN <<>>
                   ELSE IF records[k].id = c THEN Append(f[k - 1], records[k].event)
                   ELSE f[k - 1]
        BY <1>1, <4>1 DEF Upto
      <4>3. k # 0 => k \in 1 .. n /\ g[k - 1] = f[k - 1] /\ more[k] = records[k]
        BY <1>0, <2>1, <4>1
      <4> QED BY <4>1, <4>2, <4>3
    <3> QED BY <3>1, <3>2
  <2>3. g = Upto(more, c, g)
    <3>1. g = [k \in 0 .. n + 1 |-> g[k]]
      OBVIOUS
    <3> HIDE DEF g
    <3> QED BY <2>1, <2>2, <3>1 DEF Upto
  <2>4. EventsIn(more, c) = g[n + 1]
    <3> HIDE DEF g
    <3> QED BY <2>1, <2>3, EventsInIs
  <2>5. g[n + 1] = IF r.id = c THEN Append(f[n], r.event) ELSE f[n]
    BY <1>0
  <2> QED BY <1>2, <2>4, <2>5 DEF more
<1> QED BY <1>2, <1>3, <1>4
-----------------------------------------------------------------------------
(***************************************************************************)
(* serve() and the negotiation: where a task stands tells what its         *)
(* connection has written to the server and to the trace.                  *)
(***************************************************************************)
Stages == {"negotiating", "tls accept", "cancel connect", "cancel shutdown", "connect",
           "read ssl reply", "tls connect", "write startup", "relay", "unrecorded"}

Tasks == {"none", "running", "aborting", "finished", "joined", "panicked", "aborted"}

Packets == [packet : {"cancel", "ssl request", "startup"}, layer : {"none", "plain", "tls"}]

ServerTypeOK ==
    /\ next_id \in Nat
    /\ task \in [Connection -> Tasks]
    /\ stage \in [Connection -> Stages]
    /\ upstream \in [Connection -> {"none", "plain", "tls"}]
    /\ written \in [Connection -> Seq(Packets)]
    /\ trace \in Seq(Records)
    /\ lost \subseteq Connection

Unaccepted == \A c \in Connection : c > next_id => task[c] = "none"

StartupPackets ==
    IF UpstreamTls THEN <<Plain("ssl request"), [packet |-> "startup", layer |-> "tls"]>>
    ELSE <<Plain("startup")>>

WrittenAt(s) ==
    CASE s = "cancel shutdown" -> <<Plain("cancel")>>
      [] s \in {"read ssl reply", "tls connect"} -> <<Plain("ssl request")>>
      [] s = "write startup" -> IF UpstreamTls THEN <<Plain("ssl request")>> ELSE <<>>
      [] s \in {"relay", "unrecorded"} -> StartupPackets
      [] OTHER -> <<>>

WrittenSoFar(c) ==
    /\ written[c] = WrittenAt(stage[c])
    /\ stage[c] \in {"read ssl reply", "tls connect"} => UpstreamTls
    /\ stage[c] = "write startup" => upstream[c] = IF UpstreamTls THEN "tls" ELSE "plain"

RecordedAt(s) == IF s = "relay" THEN <<"startup">> ELSE <<>>

RecordsAt(s) ==
    CASE s = "relay" -> {<<"startup">>, <<"startup", "result.truncated">>}
      [] s = "cancel shutdown" -> {<<>>, <<"cancel.forwarded">>}
      [] OTHER -> {<<>>}

Ended(c) == task[c] \in {"finished", "joined"}

RecordedSoFar(c) ==
    IF Ended(c)
    THEN \E r \in RecordsAt(stage[c]) :
            \/ Events(c) = Append(r, "connection.closed") /\ stage[c] # "unrecorded"
            \/ Events(c) = Append(r, "connection.closed") /\ c \in lost
            \/ Events(c) = r /\ c \in lost
    ELSE Events(c) = RecordedAt(stage[c]) /\ stage[c] # "unrecorded"

ServerInvariant ==
    /\ ServerTypeOK
    /\ Unaccepted
    /\ \A c \in Connection : WrittenSoFar(c) /\ RecordedSoFar(c)

(***************************************************************************)
(* What the invariant is for.                                              *)
(***************************************************************************)
LEMMA InvariantImplies == ServerInvariant => StartupPassedOnce /\ LifeRecorded
<1> SUFFICES ASSUME ServerInvariant PROVE StartupPassedOnce /\ LifeRecorded
  OBVIOUS
<1>1. ASSUME NEW c \in Connection
      PROVE  /\ stage[c] \in Stages /\ WrittenSoFar(c) /\ RecordedSoFar(c)
             /\ task[c] \in Tasks
  BY DEF ServerInvariant, ServerTypeOK
<1>2. \A c \in Connection :
        \/ ~Ended(c) /\ stage[c] = "relay" /\ Events(c) = <<"startup">>
        \/ ~Ended(c) /\ stage[c] \notin {"relay", "unrecorded"} /\ Events(c) = <<>>
        \/ /\ Ended(c) /\ stage[c] = "relay"
           /\ \/ Events(c) = <<"startup", "connection.closed">>
              \/ Events(c) = <<"startup", "result.truncated", "connection.closed">>
              \/ c \in lost /\ Events(c) = <<"startup">>
              \/ c \in lost /\ Events(c) = <<"startup", "result.truncated">>
        \/ /\ Ended(c) /\ stage[c] # "relay" /\ (stage[c] = "unrecorded" => c \in lost)
           /\ \/ Events(c) = <<"connection.closed">>
              \/ Events(c) = <<"cancel.forwarded", "connection.closed">>
              \/ c \in lost /\ Events(c) = <<>>
              \/ c \in lost /\ Events(c) = <<"cancel.forwarded">>
  <2> SUFFICES ASSUME NEW c \in Connection, RecordedSoFar(c)
               PROVE  \/ /\ ~Ended(c) /\ Events(c) = RecordedAt(stage[c])
                         /\ stage[c] # "unrecorded"
                      \/ /\ Ended(c)
                         /\ \E r \in RecordsAt(stage[c]) :
                               \/ /\ Events(c) = Append(r, "connection.closed")
                                  /\ stage[c] # "unrecorded" \/ c \in lost
                               \/ Events(c) = r /\ c \in lost
    <3>1. ASSUME NEW c \in Connection, ~Ended(c), Events(c) = RecordedAt(stage[c]),
                 stage[c] # "unrecorded"
          PROVE  \/ stage[c] = "relay" /\ Events(c) = <<"startup">>
                 \/ stage[c] \notin {"relay", "unrecorded"} /\ Events(c) = <<>>
      BY <3>1, Zenon DEF RecordedAt
    <3>2. ASSUME NEW c \in Connection, NEW r \in RecordsAt(stage[c])
          PROVE  /\ stage[c] = "relay" => r = <<"startup">> \/ r = <<"startup", "result.truncated">>
                 /\ stage[c] # "relay" => r = <<>> \/ r = <<"cancel.forwarded">>
      BY <3>2, Zenon DEF RecordsAt
    <3>3. /\ Append(<<>>, "connection.closed") = <<"connection.closed">>
          /\ Append(<<"cancel.forwarded">>, "connection.closed")
               = <<"cancel.forwarded", "connection.closed">>
          /\ Append(<<"startup">>, "connection.closed") = <<"startup", "connection.closed">>
          /\ Append(<<"startup", "result.truncated">>, "connection.closed")
               = <<"startup", "result.truncated", "connection.closed">>
      BY TupleAppend, Zenon
    <3> QED BY <1>1, <3>1, <3>2, <3>3, Zenon
  <2> QED BY Zenon DEF RecordedSoFar
<1>3. StartupPassedOnce
  <2> SUFFICES ASSUME NEW c \in Connection
               PROVE  /\ written[c] \in {<<>>, <<Plain("cancel")>>,
                                         SubSeq(StartupPackets, 1, 1), StartupPackets}
                      /\ "startup" \in Recorded(c) => written[c] = StartupPackets
                      /\ written[c] = StartupPackets => "startup" \in Recorded(c) \/ c \in lost
    BY DEF StartupPassedOnce, StartupPackets
  <2>1. SubSeq(StartupPackets, 1, 1) =
          IF UpstreamTls THEN <<Plain("ssl request")>> ELSE <<Plain("startup")>>
    BY DEF StartupPackets
  <2>2. written[c] = WrittenAt(stage[c]) /\ stage[c] \in Stages
    BY <1>1 DEF WrittenSoFar
  <2>3. written[c] \in {<<>>, <<Plain("cancel")>>, SubSeq(StartupPackets, 1, 1), StartupPackets}
    BY <1>1, <2>1, <2>2 DEF WrittenAt, WrittenSoFar
  <2>4. written[c] = StartupPackets <=> stage[c] \in {"relay", "unrecorded"}
    <3>1. CASE stage[c] \in {"relay", "unrecorded"}
      BY <2>2, <3>1 DEF WrittenAt
    <3>2. CASE stage[c] \notin {"relay", "unrecorded"} /\ UpstreamTls
      <4>1. WrittenAt(stage[c]) \in {<<>>, <<Plain("cancel")>>, <<Plain("ssl request")>>}
        BY <3>2 DEF WrittenAt
      <4>2. Len(WrittenAt(stage[c])) # 2 /\ Len(StartupPackets) = 2
        <5> DEFINE w == WrittenAt(stage[c])
        <5>1. w = <<>> \/ w = <<Plain("cancel")>> \/ w = <<Plain("ssl request")>>
          BY <4>1
        <5> HIDE DEF w
        <5>2. Len(w) # 2
          <6> DEFINE p == Plain("cancel")
                     q == Plain("ssl request")
          <6> HIDE DEF p, q
          <6>1. w = <<>> \/ w = <<p>> \/ w = <<q>>
            BY <5>1 DEF p, q
          <6> QED BY <6>1
        <5>3. Len(StartupPackets) = 2
          BY <3>2 DEF StartupPackets
        <5> QED BY <5>2, <5>3 DEF w
      <4> QED BY <2>2, <3>2, <4>2
    <3>3. CASE stage[c] \notin {"relay", "unrecorded"} /\ ~UpstreamTls
      <4>1. WrittenAt(stage[c]) \in {<<>>, <<Plain("cancel")>>}
        BY <1>1, <3>3 DEF WrittenAt, WrittenSoFar
      <4>2. StartupPackets = <<Plain("startup")>> /\ Plain("startup") # Plain("cancel")
        BY <3>3 DEF StartupPackets, Plain
      <4>3. <<Plain("startup")>> # <<>> /\ <<Plain("startup")>> # <<Plain("cancel")>>
        <5> DEFINE p == Plain("startup")
                   q == Plain("cancel")
        <5>1. p # q
          BY <4>2
        <5> HIDE DEF p, q
        <5>2. <<p>> # <<>> /\ <<p>> # <<q>>
          BY <5>1
        <5> QED BY <5>2 DEF p, q
      <4> QED BY <2>2, <3>3, <4>1, <4>2, <4>3, Zenon
    <3> QED BY <3>1, <3>2, <3>3
  <2>5. "startup" \in Recorded(c) <=> stage[c] = "relay"
    <3> DEFINE e == Events(c)
    <3> HIDE DEF e
    <3>1. \/ /\ stage[c] = "relay"
             /\ \/ e = <<"startup">> \/ e = <<"startup", "connection.closed">>
                \/ e = <<"startup", "result.truncated">>
                \/ e = <<"startup", "result.truncated", "connection.closed">>
          \/ /\ stage[c] # "relay"
             /\ \/ e = <<>> \/ e = <<"connection.closed">>
                \/ e = <<"cancel.forwarded">>
                \/ e = <<"cancel.forwarded", "connection.closed">>
      BY <1>2, Zenon DEF e
    <3>2. (\E k \in DOMAIN e : e[k] = "startup") <=> stage[c] = "relay"
      BY <3>1
    <3> QED BY <3>2 DEF e, Recorded
  <2>6. stage[c] = "unrecorded" => c \in lost
    BY <1>2, Zenon
  <2> QED BY <2>3, <2>4, <2>5, <2>6
<1>4. LifeRecorded
  <2> SUFFICES ASSUME NEW c \in Connection
               PROVE  /\ Events(c) \in Lives
                      /\ IF Ended(c)
                         THEN \/ Events(c) # <<>> /\ Events(c)[Len(Events(c))] = "connection.closed"
                              \/ c \in lost
                         ELSE Events(c) \in {<<>>, <<"startup">>}
    BY DEF LifeRecorded, Ended
  <2> DEFINE e == Events(c)
  <2> HIDE DEF e
  <2>1. \/ ~Ended(c) /\ e = <<"startup">>
        \/ ~Ended(c) /\ e = <<>>
        \/ Ended(c) /\ e = <<"startup", "connection.closed">>
        \/ Ended(c) /\ e = <<"startup", "result.truncated", "connection.closed">>
        \/ Ended(c) /\ e = <<"connection.closed">>
        \/ Ended(c) /\ e = <<"cancel.forwarded", "connection.closed">>
        \/ Ended(c) /\ c \in lost /\ e = <<"startup">>
        \/ Ended(c) /\ c \in lost /\ e = <<"startup", "result.truncated">>
        \/ Ended(c) /\ c \in lost /\ e = <<>>
        \/ Ended(c) /\ c \in lost /\ e = <<"cancel.forwarded">>
    BY <1>2, Zenon DEF e
  <2>2. IF Ended(c) THEN (e # <<>> /\ e[Len(e)] = "connection.closed") \/ c \in lost
        ELSE e = <<>> \/ e = <<"startup">>
    <3>1. ASSUME Ended(c) PROVE (e # <<>> /\ e[Len(e)] = "connection.closed") \/ c \in lost
      <4>1. \/ e = <<"startup", "connection.closed">>
            \/ e = <<"startup", "result.truncated", "connection.closed">>
            \/ e = <<"connection.closed">>
            \/ e = <<"cancel.forwarded", "connection.closed">>
            \/ c \in lost
        BY <2>1, <3>1, Zenon
      <4> QED BY <4>1
    <3>2. ASSUME ~Ended(c) PROVE e = <<>> \/ e = <<"startup">>
      BY <2>1, <3>2, Zenon
    <3> QED BY <3>1, <3>2, Zenon
  <2>3. e \in Lives
    BY <2>1, Zenon DEF Lives
  <2> QED BY <2>2, <2>3, Zenon DEF e
<1> QED BY <1>3, <1>4
-----------------------------------------------------------------------------
(***************************************************************************)
(* A record appended to the trace is one more event of its connection.     *)
(***************************************************************************)
LEMMA RecordAdded ==
    ASSUME NEW records \in Seq(Records), NEW c \in Connection, NEW e \in LifeEvent
    PROVE  /\ Append(records, Record(c, e)) \in Seq(Records)
           /\ \A d : EventsIn(Append(records, Record(c, e)), d)
                     = IF c = d THEN Append(EventsIn(records, d), e) ELSE EventsIn(records, d)
<1>1. Record(c, e) \in Records /\ Record(c, e).id = c /\ Record(c, e).event = e
  BY DEF Record, Records
<1> HIDE DEF Records
<1>2. \A d : EventsIn(Append(records, Record(c, e)), d)
              = IF Record(c, e).id = d THEN Append(EventsIn(records, d), Record(c, e).event)
                ELSE EventsIn(records, d)
  BY <1>1, EventsInFacts
<1> QED BY <1>1, <1>2, AppendProperties

LEMMA ConcatIsAppend ==
    ASSUME NEW S
    PROVE  \A s \in Seq(S), x \in S :
               s \o <<>> = s /\ s \o <<x>> = Append(s, x) /\ Append(s, x) \in Seq(S)
  OBVIOUS

(***************************************************************************)
(* A step leaves alone what is said of a connection whose variables it     *)
(* does not change.                                                        *)
(***************************************************************************)
LEMMA Undisturbed ==
    ASSUME NEW d \in Connection, WrittenSoFar(d), RecordedSoFar(d),
           stage'[d] = stage[d], upstream'[d] = upstream[d], written'[d] = written[d],
           Ended(d)' <=> Ended(d), Events(d)' = Events(d), d \in lost' <=> d \in lost
    PROVE  WrittenSoFar(d)' /\ RecordedSoFar(d)'
<1>1. WrittenSoFar(d)'
  BY DEF WrittenSoFar, WrittenAt, StartupPackets
<1>2. RecordedSoFar(d)'
  BY Zenon DEF RecordedSoFar, RecordedAt, RecordsAt
<1> QED BY <1>1, <1>2

LEMMA TraceUnchanged ==
    ASSUME trace' = trace
    PROVE  \A d : Events(d)' = Events(d)
  BY DEF Events

(***************************************************************************)
(* A step of one connection has only that connection to answer for.        *)
(***************************************************************************)
LEMMA OneConnection ==
    ASSUME ServerInvariant, ServerTypeOK', NEW c \in Connection,
           next_id' = next_id, task[c] # "none",
           \A d \in Connection \ {c} :
               /\ task'[d] = task[d] /\ stage'[d] = stage[d]
               /\ upstream'[d] = upstream[d] /\ written'[d] = written[d]
               /\ Events(d)' = Events(d) /\ (d \in lost' <=> d \in lost),
           WrittenSoFar(c)', RecordedSoFar(c)'
    PROVE  ServerInvariant'
<1>1. Unaccepted'
  BY DEF ServerInvariant, Unaccepted
<1>2. ASSUME NEW d \in Connection \ {c} PROVE WrittenSoFar(d)' /\ RecordedSoFar(d)'
  <2>1. WrittenSoFar(d) /\ RecordedSoFar(d)
    BY DEF ServerInvariant
  <2>2. Ended(d)' <=> Ended(d)
    BY DEF Ended
  <2> QED BY <2>1, <2>2, Undisturbed
<1>3. \A d \in Connection : WrittenSoFar(d)' /\ RecordedSoFar(d)'
  BY <1>2
<1> QED BY <1>1, <1>3 DEF ServerInvariant

(***************************************************************************)
(* A task that goes from one await to another, writing nothing.            *)
(***************************************************************************)
LEMMA StageChanged ==
    ASSUME ServerInvariant, NEW c \in Connection, NEW s \in Stages \ {"relay", "unrecorded"},
           task[c] \in {"running", "aborting"}, stage[c] # "relay",
           stage' = [stage EXCEPT ![c] = s],
           NEW u \in {"none", "plain", "tls"}, upstream' = [upstream EXCEPT ![c] = u],
           UNCHANGED <<next_id, task, written, trace, lost>>,
           WrittenAt(s) = WrittenAt(stage[c]),
           s \in {"read ssl reply", "tls connect"} => UpstreamTls,
           s = "write startup" => u = IF UpstreamTls THEN "tls" ELSE "plain"
    PROVE  ServerInvariant'
<1>0. ServerTypeOK /\ WrittenSoFar(c) /\ RecordedSoFar(c)
  BY DEF ServerInvariant
<1>1. ServerTypeOK'
  BY <1>0 DEF ServerTypeOK
<1>2. stage'[c] = s /\ upstream'[c] = u
  BY <1>0 DEF ServerTypeOK
<1>3. WrittenSoFar(c)'
  <2>1. written'[c] = WrittenAt(s)
    BY <1>0 DEF WrittenSoFar
  <2>2. WrittenAt(stage[c])' = WrittenAt(s)
    BY <1>2 DEF WrittenAt, StartupPackets
  <2> QED BY <1>2, <2>1, <2>2 DEF WrittenSoFar
<1>4. RecordedSoFar(c)'
  <2>1. ~Ended(c) /\ ~Ended(c)'
    BY DEF Ended
  <2>2. Events(c)' = <<>>
    BY <1>0, <2>1, TraceUnchanged, Zenon DEF RecordedSoFar, RecordedAt
  <2> QED BY <1>2, <2>1, <2>2, Zenon DEF RecordedSoFar, RecordedAt
<1>5. \A d \in Connection \ {c} :
        /\ task'[d] = task[d] /\ stage'[d] = stage[d]
        /\ upstream'[d] = upstream[d] /\ written'[d] = written[d]
        /\ Events(d)' = Events(d)
  <2>1. \A d \in Connection \ {c} : stage'[d] = stage[d] /\ upstream'[d] = upstream[d]
    BY <1>0 DEF ServerTypeOK
  <2> QED BY <2>1, TraceUnchanged
<1> QED BY <1>1, <1>3, <1>4, <1>5, OneConnection

(***************************************************************************)
(* A task whose state changes, without it being the end of connection().   *)
(***************************************************************************)
LEMMA TaskChanged ==
    ASSUME ServerInvariant, NEW c \in Connection, NEW s \in Tasks,
           task[c] # "none", task[c] \in {"finished", "joined"} <=> s \in {"finished", "joined"},
           task' = [task EXCEPT ![c] = s],
           UNCHANGED <<next_id, stage, upstream, written, trace, lost>>
    PROVE  ServerInvariant'
<1>0. ServerTypeOK /\ WrittenSoFar(c) /\ RecordedSoFar(c)
  BY DEF ServerInvariant
<1>1. ServerTypeOK'
  BY <1>0 DEF ServerTypeOK
<1>2. task'[c] = s /\ \A d \in Connection \ {c} : task'[d] = task[d]
  BY <1>0 DEF ServerTypeOK
<1>3. WrittenSoFar(c)' /\ RecordedSoFar(c)'
  <2>1. Ended(c)' <=> Ended(c)
    BY <1>2 DEF Ended
  <2> QED BY <1>0, <2>1, Undisturbed, TraceUnchanged
<1> QED BY <1>1, <1>2, <1>3, OneConnection, TraceUnchanged

(***************************************************************************)
(* A call of lifecycle(): one more event of its connection, or none.       *)
(***************************************************************************)
LEMMA LifecycleAdds ==
    ASSUME NEW records \in Seq(Records), NEW c \in Connection, NEW e \in LifeEvent,
           NEW w \in Lifecycle(c, e)
    PROVE  /\ records \o w \in Seq(Records)
           /\ \A d : EventsIn(records \o w, d)
                     = IF c = d /\ w # <<>> THEN Append(EventsIn(records, d), e)
                       ELSE EventsIn(records, d)
<1>1. Record(c, e) \in Records
  BY DEF Record, Records
<1>2. CASE w = <<>>
  <2>1. records \o w = records
    BY <1>2
  <2> QED BY <1>2, <2>1
<1>3. CASE w = <<Record(c, e)>>
  <2> DEFINE r == Record(c, e)
  <2>1. /\ Append(records, r) \in Seq(Records)
        /\ \A d : EventsIn(Append(records, r), d)
                  = IF c = d THEN Append(EventsIn(records, d), e) ELSE EventsIn(records, d)
    BY RecordAdded
  <2>2. r \in Records
    BY <1>1
  <2> HIDE DEF r
  <2>3. records \o <<r>> = Append(records, r) /\ <<r>> # <<>>
    BY <2>2, ConcatIsAppend
  <2> QED BY <1>3, <2>1, <2>3 DEF r
<1> QED BY <1>2, <1>3 DEF Lifecycle

(***************************************************************************)
(* The end of connection(): its last records and connection.closed.        *)
(***************************************************************************)
LEMMA FinishRecords ==
    ASSUME ServerInvariant, NEW c \in Connection, task[c] \in {"running", "aborting"},
           NEW e \in LifeEvent, NEW records \in Lifecycle(c, e), NEW missed \in SUBSET {c},
           Finish(c, records, missed)
    PROVE  /\ task' = [task EXCEPT ![c] = "finished"] /\ task' \in [Connection -> Tasks]
           /\ Ended(c)' /\ lost' \subseteq Connection
           /\ trace' \in Seq(Records)
           /\ \A d \in Connection \ {c} :
                 Events(d)' = Events(d) /\ (d \in lost' <=> d \in lost) /\ task'[d] = task[d]
           /\ missed = {c} => c \in lost'
           /\ \E r \in {Events(c), Append(Events(c), e)} :
                 /\ r = IF records = <<>> THEN Events(c) ELSE Append(Events(c), e)
                 /\ \/ Events(c)' = Append(r, "connection.closed")
                    \/ Events(c)' = r /\ c \in lost'
<1>0. trace \in Seq(Records) /\ task \in [Connection -> Tasks] /\ lost \subseteq Connection
  BY DEF ServerInvariant, ServerTypeOK
<1>1. PICK closing \in Lifecycle(c, "connection.closed") :
        /\ trace' = trace \o records \o closing
        /\ lost' = lost \cup missed \cup Missed(c, closing)
        /\ task' = [task EXCEPT ![c] = "finished"]
  BY DEF Finish
<1>2. /\ task' \in [Connection -> Tasks] /\ task'[c] = "finished"
      /\ \A d \in Connection \ {c} : task'[d] = task[d]
  BY <1>0, <1>1 DEF Tasks
<1>3. "connection.closed" \in LifeEvent
  BY DEF LifeEvent
<1> DEFINE mid == trace \o records
<1>4. /\ mid \in Seq(Records)
      /\ \A d : EventsIn(mid, d) = IF c = d /\ records # <<>> THEN Append(EventsIn(trace, d), e)
                                   ELSE EventsIn(trace, d)
  BY <1>0, LifecycleAdds
<1>5. trace' = mid \o closing
  BY <1>1
<1> HIDE DEF mid
<1>6. /\ mid \o closing \in Seq(Records)
      /\ \A d : EventsIn(mid \o closing, d)
                = IF c = d /\ closing # <<>> THEN Append(EventsIn(mid, d), "connection.closed")
                  ELSE EventsIn(mid, d)
  BY <1>1, <1>3, <1>4, LifecycleAdds
<1>7. \A d \in Connection \ {c} : Events(d)' = Events(d)
  BY <1>4, <1>5, <1>6 DEF Events
<1>8. Events(c)' = IF closing # <<>> THEN Append(EventsIn(mid, c), "connection.closed")
                   ELSE EventsIn(mid, c)
  BY <1>5, <1>6 DEF Events
<1>9. EventsIn(mid, c) = IF records # <<>> THEN Append(Events(c), e) ELSE Events(c)
  BY <1>4 DEF Events
<1>10. closing = <<>> => c \in lost'
  BY <1>1 DEF Missed
<1>11. Ended(c)' /\ lost' \subseteq Connection /\ (missed = {c} => c \in lost')
       /\ \A d \in Connection \ {c} : d \in lost' <=> d \in lost
  BY <1>0, <1>1, <1>2 DEF Ended, Missed
<1>12. \E r \in {Events(c), Append(Events(c), e)} :
          /\ r = IF records = <<>> THEN Events(c) ELSE Append(Events(c), e)
          /\ \/ Events(c)' = Append(r, "connection.closed")
             \/ Events(c)' = r /\ c \in lost'
  BY <1>8, <1>9, <1>10, Zenon
<1> QED BY <1>1, <1>2, <1>5, <1>6, <1>7, <1>11, <1>12

LEMMA Finished ==
    ASSUME ServerInvariant, NEW c \in Connection, task[c] \in {"running", "aborting"},
           NEW e \in LifeEvent, NEW records \in Lifecycle(c, e), NEW missed \in SUBSET {c},
           Finish(c, records, missed),
           \/ records = <<>>
           \/ e = "cancel.forwarded" /\ stage[c] = "cancel shutdown"
           \/ e = "result.truncated" /\ stage[c] = "relay",
           UNCHANGED <<next_id, stage, upstream, written>>
    PROVE  ServerInvariant'
<1>0. ServerTypeOK /\ WrittenSoFar(c) /\ RecordedSoFar(c)
  BY DEF ServerInvariant
<1>1. /\ task' \in [Connection -> Tasks]
      /\ Ended(c)' /\ lost' \subseteq Connection /\ trace' \in Seq(Records)
      /\ \A d \in Connection \ {c} :
            Events(d)' = Events(d) /\ (d \in lost' <=> d \in lost) /\ task'[d] = task[d]
  BY FinishRecords
<1>2. PICK r \in {Events(c), Append(Events(c), e)} :
        /\ r = IF records = <<>> THEN Events(c) ELSE Append(Events(c), e)
        /\ \/ Events(c)' = Append(r, "connection.closed")
           \/ Events(c)' = r /\ c \in lost'
  BY FinishRecords
<1>3. /\ Events(c) = IF stage[c] = "relay" THEN <<"startup">> ELSE <<>>
      /\ stage[c] # "unrecorded"
  <2>1. ~Ended(c)
    BY DEF Ended
  <2> QED BY <1>0, <2>1, Zenon DEF RecordedSoFar, RecordedAt
<1>4. r \in RecordsAt(stage[c])
  <2>1. CASE records = <<>>
    BY <1>2, <1>3, <2>1, Zenon DEF RecordsAt
  <2>2. CASE records # <<>> /\ e = "cancel.forwarded" /\ stage[c] = "cancel shutdown"
    <3>1. stage[c] # "relay"
      BY <2>2
    <3>2. r = <<"cancel.forwarded">>
      BY <1>2, <1>3, <2>2, <3>1, TupleAppend, Zenon
    <3> QED BY <2>2, <3>1, <3>2, Zenon DEF RecordsAt
  <2>3. CASE records # <<>> /\ e = "result.truncated" /\ stage[c] = "relay"
    <3>1. r = <<"startup", "result.truncated">>
      BY <1>2, <1>3, <2>3, TupleAppend, Zenon
    <3> QED BY <2>3, <3>1, Zenon DEF RecordsAt
  <2> QED BY <2>1, <2>2, <2>3
<1>5. RecordedSoFar(c)'
  BY <1>1, <1>2, <1>3, <1>4, Zenon DEF RecordedSoFar, RecordsAt
<1>6. WrittenSoFar(c)'
  BY <1>0 DEF WrittenSoFar, WrittenAt, StartupPackets
<1>7. ServerTypeOK'
  BY <1>0, <1>1 DEF ServerTypeOK
<1> QED BY <1>1, <1>5, <1>6, <1>7, OneConnection

(***************************************************************************)
(* A packet written to the server, and with a startup packet its record.   *)
(***************************************************************************)
LEMMA PacketWritten ==
    ASSUME ServerInvariant, NEW c \in Connection, NEW s \in Stages \ {"write startup", "unrecorded"},
           task[c] \in {"running", "aborting"}, stage[c] # "relay",
           stage' = [stage EXCEPT ![c] = s],
           NEW u \in {"none", "plain", "tls"}, upstream' = [upstream EXCEPT ![c] = u],
           NEW p \in Packets, written' = [written EXCEPT ![c] = Append(@, p)],
           Append(WrittenAt(stage[c]), p) = WrittenAt(s),
           s \in {"read ssl reply", "tls connect"} => UpstreamTls,
           trace' = IF s = "relay" THEN Append(trace, Record(c, "startup")) ELSE trace,
           UNCHANGED <<next_id, task, lost>>
    PROVE  ServerInvariant'
<1>0. /\ WrittenSoFar(c) /\ RecordedSoFar(c) /\ ServerTypeOK
      /\ trace \in Seq(Records) /\ written \in [Connection -> Seq(Packets)]
  BY DEF ServerInvariant, ServerTypeOK
<1>1. /\ stage'[c] = s /\ upstream'[c] = u
      /\ \A d \in Connection \ {c} :
            task'[d] = task[d] /\ stage'[d] = stage[d] /\ upstream'[d] = upstream[d]
  BY <1>0 DEF ServerTypeOK
<1>2. /\ written'[c] = Append(written[c], p) /\ written' \in [Connection -> Seq(Packets)]
      /\ \A d \in Connection \ {c} : written'[d] = written[d]
  <2>1. Append(written[c], p) \in Seq(Packets)
    BY <1>0, AppendProperties
  <2> QED BY <1>0, <2>1
<1>3. WrittenSoFar(c)'
  <2>1. WrittenAt(stage[c])' = WrittenAt(s)
    BY <1>1 DEF WrittenAt, StartupPackets
  <2>2. written'[c] = WrittenAt(s)
    BY <1>0, <1>2 DEF WrittenSoFar
  <2> QED BY <1>1, <2>1, <2>2 DEF WrittenSoFar
<1>4. ~Ended(c) /\ ~Ended(c)'
  BY DEF Ended
<1>5. Events(c) = <<>>
  BY <1>0, <1>4, Zenon DEF RecordedSoFar, RecordedAt
<1>6. /\ trace' \in Seq(Records)
      /\ \A d \in Connection \ {c} : Events(d)' = Events(d)
      /\ Events(c)' = IF s = "relay" THEN <<"startup">> ELSE <<>>
  <2>1. CASE s = "relay"
    <3>0. "startup" \in LifeEvent
      BY DEF LifeEvent
    <3>1. /\ Append(trace, Record(c, "startup")) \in Seq(Records)
          /\ \A d : EventsIn(Append(trace, Record(c, "startup")), d)
                    = IF c = d THEN Append(EventsIn(trace, d), "startup") ELSE EventsIn(trace, d)
      BY <1>0, <3>0, RecordAdded
    <3>2. trace' = Append(trace, Record(c, "startup"))
      BY <2>1
    <3>3. Events(c)' = Append(Events(c), "startup")
      BY <3>1, <3>2 DEF Events
    <3>4. Events(c)' = <<"startup">>
      BY <1>5, <3>3, TupleAppend, Zenon
    <3> QED BY <2>1, <3>1, <3>2, <3>4 DEF Events
  <2>2. CASE s # "relay"
    <3>1. trace' = trace
      BY <2>2
    <3> QED BY <1>0, <1>5, <2>2, <3>1, TraceUnchanged, Zenon
  <2> QED BY <2>1, <2>2
<1>7. RecordedSoFar(c)'
  BY <1>1, <1>4, <1>6, Zenon DEF RecordedSoFar, RecordedAt
<1>8. ServerTypeOK'
  BY <1>0, <1>2, <1>6 DEF ServerTypeOK
<1> QED BY <1>1, <1>2, <1>3, <1>6, <1>7, <1>8, OneConnection

(***************************************************************************)
(* The startup packet completes what the server gets of a connection.      *)
(***************************************************************************)
LEMMA StartupCompletes ==
    ASSUME ServerInvariant, NEW c \in Connection, At(c, "write startup"),
           UNCHANGED upstream, WriteUp(c, "startup")
    PROVE  \E p \in Packets :
              /\ written' = [written EXCEPT ![c] = Append(@, p)]
              /\ Append(WrittenAt("write startup"), p) = StartupPackets
<1> DEFINE p == [packet |-> "startup", layer |-> upstream[c]]
<1>0. ServerTypeOK /\ WrittenSoFar(c)
  BY DEF ServerInvariant
<1>1. upstream[c] = (IF UpstreamTls THEN "tls" ELSE "plain") /\ stage[c] = "write startup"
  BY <1>0 DEF WrittenSoFar, At
<1>2. Append(WrittenAt("write startup"), p) = StartupPackets
  <2>1. WrittenAt("write startup") = IF UpstreamTls THEN <<Plain("ssl request")>> ELSE <<>>
    BY DEF WrittenAt
  <2>2. p = IF UpstreamTls THEN [packet |-> "startup", layer |-> "tls"] ELSE Plain("startup")
    BY <1>1 DEF Plain
  <2> HIDE DEF p
  <2> QED BY <2>1, <2>2, TupleAppend, Zenon DEF StartupPackets
<1>3. p \in Packets
  BY <1>1 DEF Packets
<1>4. written' = [written EXCEPT ![c] = Append(@, p)]
  BY DEF WriteUp
<1> HIDE DEF p
<1> QED BY <1>2, <1>3, <1>4

LEMMA UnrecordedStep ==
    ASSUME ServerInvariant, NEW c \in Connection, StartupUnrecorded(c)
    PROVE  ServerInvariant'
<1>0. ServerTypeOK /\ WrittenSoFar(c) /\ RecordedSoFar(c) /\ written \in [Connection -> Seq(Packets)]
  BY DEF ServerInvariant, ServerTypeOK
<1>1. /\ At(c, "write startup") /\ UNCHANGED <<upstream, next_id>> /\ WriteUp(c, "startup")
      /\ Finish(c, <<>>, {c}) /\ stage' = [stage EXCEPT ![c] = "unrecorded"]
      /\ task[c] \in {"running", "aborting"} /\ stage[c] = "write startup"
  BY DEF StartupUnrecorded, At, Goto, serveVars
<1>2. PICK p \in Packets : /\ written' = [written EXCEPT ![c] = Append(@, p)]
                           /\ Append(WrittenAt("write startup"), p) = StartupPackets
  BY <1>1, StartupCompletes
<1>3. <<>> \in Lifecycle(c, "startup") /\ "startup" \in LifeEvent
  BY DEF Lifecycle, LifeEvent
<1>4. /\ task' \in [Connection -> Tasks]
      /\ Ended(c)' /\ lost' \subseteq Connection /\ trace' \in Seq(Records) /\ c \in lost'
      /\ \A d \in Connection \ {c} :
            Events(d)' = Events(d) /\ (d \in lost' <=> d \in lost) /\ task'[d] = task[d]
      /\ \/ Events(c)' = Append(Events(c), "connection.closed")
         \/ Events(c)' = Events(c)
  BY <1>1, <1>3, FinishRecords
<1>5. Events(c) = <<>>
  <2>1. ~Ended(c) /\ stage[c] # "relay"
    BY <1>1 DEF Ended
  <2> QED BY <1>0, <2>1, Zenon DEF RecordedSoFar, RecordedAt
<1>6. /\ stage'[c] = "unrecorded" /\ stage' \in [Connection -> Stages]
      /\ \A d \in Connection \ {c} : stage'[d] = stage[d]
  BY <1>0, <1>1 DEF ServerTypeOK, Stages
<1>7. /\ written'[c] = Append(written[c], p) /\ written' \in [Connection -> Seq(Packets)]
      /\ \A d \in Connection \ {c} : written'[d] = written[d]
  <2>1. Append(written[c], p) \in Seq(Packets)
    BY <1>0, AppendProperties
  <2> QED BY <1>0, <1>2, <2>1
<1>8. WrittenSoFar(c)'
  <2>1. WrittenAt(stage[c])' = StartupPackets
    BY <1>6 DEF WrittenAt, StartupPackets
  <2>2. written'[c] = StartupPackets
    BY <1>0, <1>1, <1>2, <1>7 DEF WrittenSoFar
  <2> QED BY <1>6, <2>1, <2>2 DEF WrittenSoFar
<1>9. RecordedSoFar(c)'
  <2>1. <<>> \in RecordsAt("unrecorded")
    BY DEF RecordsAt
  <2> QED BY <1>4, <1>5, <1>6, <2>1, Zenon DEF RecordedSoFar, RecordsAt
<1>10. ServerTypeOK'
  BY <1>0, <1>1, <1>4, <1>6, <1>7 DEF ServerTypeOK
<1> QED BY <1>1, <1>4, <1>6, <1>7, <1>8, <1>9, <1>10, OneConnection

(***************************************************************************)
(* A step of connection() up to the relay loop, and its end.               *)
(***************************************************************************)
LEMMA ConnectionStep ==
    ASSUME ServerInvariant, NEW c \in Connection, Step(c)
    PROVE  ServerInvariant'
<1>0. /\ ServerTypeOK /\ WrittenSoFar(c) /\ upstream[c] \in {"none", "plain", "tls"}
      /\ upstream' = upstream => upstream' = [upstream EXCEPT ![c] = upstream[c]]
  BY DEF ServerInvariant, ServerTypeOK
<1>1. CASE SslRequest(c)
  <2>1. CASE frontend[c] = "plain" /\ Goto(c, "tls accept") /\ UNCHANGED task
    <3>1. WrittenAt("tls accept") = WrittenAt("negotiating")
      BY DEF WrittenAt
    <3> QED BY <1>0, <1>1, <2>1, <3>1, StageChanged DEF SslRequest, At, Goto, Stages, serveVars
  <2>2. CASE task' = [task EXCEPT ![c] = "panicked"] /\ UNCHANGED stage
    BY <1>0, <1>1, <2>2, TaskChanged DEF SslRequest, At, Tasks, serveVars
  <2> QED BY <1>1, <2>1, <2>2 DEF SslRequest
<1>2. CASE TlsAccepted(c)
  <2>1. WrittenAt("tls accept") = WrittenAt("negotiating")
    BY DEF WrittenAt
  <2> QED BY <1>0, <1>2, <2>1, StageChanged DEF TlsAccepted, At, Goto, Stages, serveVars
<1>3. CASE CancelRequest(c)
  <2>1. WrittenAt("cancel connect") = WrittenAt("negotiating")
    BY DEF WrittenAt
  <2> QED BY <1>0, <1>3, <2>1, StageChanged DEF CancelRequest, At, Goto, Stages, serveVars
<1>4. CASE CancelConnected(c)
  <2>1. WrittenAt("cancel connect") = <<>> /\ WrittenAt("cancel shutdown") = <<Plain("cancel")>>
    BY DEF WrittenAt
  <2>2. Append(WrittenAt("cancel connect"), Plain("cancel")) = WrittenAt("cancel shutdown")
    BY <2>1, TupleAppend, Zenon
  <2>3. upstream'[c] = "plain"
    BY <1>0, <1>4 DEF CancelConnected, ServerTypeOK
  <2>4. written' = [written EXCEPT ![c] = Append(@, Plain("cancel"))]
    BY <1>4, <2>3 DEF CancelConnected, WriteUp, Plain
  <2>5. Plain("cancel") \in Packets
    BY DEF Plain, Packets
  <2>6. /\ task[c] \in {"running", "aborting"} /\ stage[c] = "cancel connect"
        /\ stage' = [stage EXCEPT ![c] = "cancel shutdown"]
        /\ upstream' = [upstream EXCEPT ![c] = "plain"]
        /\ UNCHANGED <<next_id, task, trace, lost>>
    BY <1>4 DEF CancelConnected, At, Goto, serveVars
  <2>7. "cancel shutdown" \in Stages \ {"write startup", "relay", "read ssl reply", "tls connect", "unrecorded"}
    BY DEF Stages
  <2> QED BY <2>2, <2>4, <2>5, <2>6, <2>7, PacketWritten
<1>5. CASE CancelForwarded(c)
  <2>1. PICK records \in Lifecycle(c, "cancel.forwarded") : Finish(c, records, Missed(c, records))
    BY <1>5 DEF CancelForwarded
  <2>2. "cancel.forwarded" \in LifeEvent /\ Missed(c, records) \in SUBSET {c}
    BY DEF LifeEvent, Missed
  <2> QED BY <1>5, <2>1, <2>2, Finished DEF CancelForwarded, At, serveVars
<1>6. CASE StartupMessage(c)
  <2>1. WrittenAt("connect") = WrittenAt("negotiating")
    BY DEF WrittenAt
  <2> QED BY <1>0, <1>6, <2>1, StageChanged DEF StartupMessage, At, Goto, Stages, serveVars
<1>7. CASE Connected(c)
  <2>1. CASE UpstreamTls
    <3>1. WrittenAt("connect") = <<>> /\ WrittenAt("read ssl reply") = <<Plain("ssl request")>>
      BY DEF WrittenAt
    <3>2. Append(WrittenAt("connect"), Plain("ssl request")) = WrittenAt("read ssl reply")
      BY <3>1, TupleAppend, Zenon
    <3>3. upstream'[c] = "plain"
      BY <1>0, <1>7 DEF Connected, ServerTypeOK
    <3>4. written' = [written EXCEPT ![c] = Append(@, Plain("ssl request"))]
      BY <1>7, <2>1, <3>3 DEF Connected, WriteUp, Plain
    <3>5. Plain("ssl request") \in Packets
      BY DEF Plain, Packets
    <3>6. /\ task[c] \in {"running", "aborting"} /\ stage[c] = "connect"
          /\ stage' = [stage EXCEPT ![c] = "read ssl reply"]
          /\ upstream' = [upstream EXCEPT ![c] = "plain"]
          /\ UNCHANGED <<next_id, task, trace, lost>>
      BY <1>7, <2>1 DEF Connected, At, Goto, serveVars
    <3>7. "read ssl reply" \in Stages \ {"write startup", "relay", "unrecorded"}
      BY DEF Stages
    <3> QED BY <2>1, <3>2, <3>4, <3>5, <3>6, <3>7, PacketWritten
  <2>2. CASE ~UpstreamTls
    <3>1. WrittenAt("connect") = WrittenAt("write startup")
      BY <2>2 DEF WrittenAt
    <3> QED BY <1>0, <1>7, <2>2, <3>1, StageChanged DEF Connected, At, Goto, Stages, serveVars
  <2> QED BY <2>1, <2>2
<1>8. CASE SslReply(c)
  <2>1. WrittenAt("read ssl reply") = WrittenAt("tls connect") /\ UpstreamTls
    BY <1>0, <1>8 DEF WrittenAt, WrittenSoFar, SslReply, At
  <2> QED BY <1>0, <1>8, <2>1, StageChanged DEF SslReply, At, Goto, Stages, serveVars
<1>9. CASE TlsConnected(c)
  <2>1. WrittenAt("tls connect") = WrittenAt("write startup") /\ UpstreamTls
    BY <1>0, <1>9 DEF WrittenAt, WrittenSoFar, TlsConnected, At
  <2> QED BY <1>0, <1>9, <2>1, StageChanged DEF TlsConnected, At, Goto, Stages, serveVars
<1>10. CASE StartupWritten(c)
  <2>1. /\ At(c, "write startup") /\ UNCHANGED upstream /\ WriteUp(c, "startup")
        /\ task[c] \in {"running", "aborting"} /\ stage[c] = "write startup"
        /\ stage' = [stage EXCEPT ![c] = "relay"]
        /\ upstream' = [upstream EXCEPT ![c] = upstream[c]]
        /\ trace' = Append(trace, Record(c, "startup"))
        /\ UNCHANGED <<next_id, task, lost>>
    BY <1>0, <1>10 DEF StartupWritten, At, Goto, serveVars
  <2>2. PICK p \in Packets : /\ written' = [written EXCEPT ![c] = Append(@, p)]
                             /\ Append(WrittenAt("write startup"), p) = StartupPackets
    BY <2>1, StartupCompletes
  <2>3. WrittenAt("relay") = StartupPackets
    BY DEF WrittenAt
  <2>4. "relay" \in Stages \ {"write startup", "read ssl reply", "tls connect", "unrecorded"}
    BY DEF Stages
  <2> QED BY <1>0, <2>1, <2>2, <2>3, <2>4, PacketWritten
<1>11. CASE Truncated(c)
  <2>1. PICK records \in Lifecycle(c, "result.truncated") : Finish(c, records, Missed(c, records))
    BY <1>11 DEF Truncated
  <2>2. "result.truncated" \in LifeEvent /\ Missed(c, records) \in SUBSET {c}
    BY DEF LifeEvent, Missed
  <2> QED BY <1>11, <2>1, <2>2, Finished DEF Truncated, At, serveVars
<1>12. CASE Returns(c)
  <2>1. <<>> \in Lifecycle(c, "startup") /\ "startup" \in LifeEvent
    BY DEF Lifecycle, LifeEvent
  <2> QED BY <1>12, <2>1, Finished DEF Returns, serveVars
<1>13. CASE StartupUnrecorded(c)
  BY <1>13, UnrecordedStep
<1> QED
  BY <1>1, <1>2, <1>3, <1>4, <1>5, <1>6, <1>7, <1>8, <1>9, <1>10, <1>11, <1>12, <1>13
  DEF Step

(***************************************************************************)
(* A step of serve() that ends no task: only tasks change, and none from   *)
(* or to the two states of a connection that has ended.                    *)
(***************************************************************************)
LEMMA TasksMoved ==
    ASSUME ServerInvariant, next_id' \in Nat, Unaccepted',
           task' \in [Connection -> Tasks],
           \A c \in Connection : Ended(c)' <=> Ended(c),
           UNCHANGED <<stage, upstream, written, trace, lost>>
    PROVE  ServerInvariant'
<1>1. ServerTypeOK'
  BY DEF ServerInvariant, ServerTypeOK
<1>2. ASSUME NEW c \in Connection PROVE WrittenSoFar(c)' /\ RecordedSoFar(c)'
  BY TraceUnchanged, Undisturbed DEF ServerInvariant
<1> QED BY <1>1, <1>2 DEF ServerInvariant

LEMMA AllAborted ==
    ASSUME ServerInvariant, AbortAll, UNCHANGED <<next_id, connectionVars>>
    PROVE  ServerInvariant'
<1>1. /\ task \in [Connection -> Tasks] /\ next_id \in Nat /\ Unaccepted
  BY DEF ServerInvariant, ServerTypeOK
<1>2. task' \in [Connection -> Tasks] /\ \A c \in Connection : Ended(c)' <=> Ended(c)
  BY <1>1 DEF AbortAll, Tasks, Ended
<1>3. Unaccepted'
  BY <1>1 DEF AbortAll, Unaccepted
<1> QED BY <1>1, <1>2, <1>3, TasksMoved DEF connectionVars

LEMMA ServerStep == ServerInvariant /\ [ServerNext]_vars => ServerInvariant'
<1> SUFFICES ASSUME ServerInvariant, [ServerNext]_vars PROVE ServerInvariant'
  OBVIOUS
<1>0. /\ task \in [Connection -> Tasks] /\ next_id \in Nat /\ Unaccepted
      /\ next_id' = next_id /\ UNCHANGED task =>
            next_id' \in Nat /\ task' \in [Connection -> Tasks] /\ Unaccepted'
            /\ \A c \in Connection : Ended(c)' <=> Ended(c)
  BY DEF ServerInvariant, ServerTypeOK, Unaccepted, Ended
<1>1. CASE Accept
  <2>1. next_id + 1 \in Connection /\ task[next_id + 1] = "none"
    BY <1>0, <1>1, ServerAssumption DEF Accept, Connection, Unaccepted
  <2>2. next_id' = next_id + 1 /\ task' = [task EXCEPT ![next_id + 1] = "running"]
    BY <1>1 DEF Accept
  <2>3. task' \in [Connection -> Tasks]
    BY <1>0, <2>2 DEF Tasks
  <2>4. Unaccepted'
    <3> SUFFICES ASSUME NEW c \in Connection, c > next_id + 1 PROVE task'[c] = "none"
      BY <2>2 DEF Unaccepted
    <3>1. c > next_id /\ c # next_id + 1
      BY <1>0 DEF Connection
    <3> QED BY <1>0, <2>2, <3>1 DEF Unaccepted
  <2>5. \A c \in Connection : Ended(c)' <=> Ended(c)
    BY <1>0, <2>1, <2>2 DEF Ended
  <2> QED BY <1>0, <1>1, <2>2, <2>3, <2>4, <2>5, TasksMoved DEF Accept, connectionVars
<1>2. CASE AcceptFails \/ JoinPanicked
  BY <1>2, AllAborted DEF AcceptFails, JoinPanicked, ServeFails
<1>3. CASE Stop
  BY <1>3, AllAborted DEF Stop
<1>4. CASE ServeReturns
  BY <1>0, <1>4, TasksMoved DEF ServeReturns, connectionVars
<1>5. CASE Shutdown
  BY <1>0, <1>5, TasksMoved DEF Shutdown, connectionVars
<1>6. ASSUME NEW c \in Connection, Step(c) \/ Join(c) \/ Aborted(c) PROVE ServerInvariant'
  <2>1. CASE Step(c)
    BY <2>1, ConnectionStep
  <2>2. CASE Join(c)
    BY <2>2, TaskChanged DEF Join, Tasks, serveVars, connectionVars
  <2>3. CASE Aborted(c)
    BY <2>3, TaskChanged DEF Aborted, Tasks, serveVars, connectionVars
  <2> QED BY <1>6, <2>1, <2>2, <2>3
<1>7. CASE UNCHANGED vars
  BY <1>0, <1>7, TasksMoved DEF vars
<1> QED BY <1>1, <1>2, <1>3, <1>4, <1>5, <1>6, <1>7 DEF ServerNext, Serve

LEMMA ServerInitially == ServerInit => ServerInvariant
<1> SUFFICES ASSUME ServerInit PROVE ServerInvariant
  OBVIOUS
<1>1. <<>> \in Seq(Records) /\ <<>> \in Seq(Packets)
  OBVIOUS
<1>2. ServerTypeOK /\ Unaccepted
  BY <1>1 DEF ServerInit, ServerTypeOK, Unaccepted, Tasks, Stages
<1>3. ASSUME NEW c \in Connection PROVE WrittenSoFar(c) /\ RecordedSoFar(c)
  <2>1. stage[c] = "negotiating" /\ written[c] = <<>> /\ task[c] = "none"
    BY DEF ServerInit
  <2>2. WrittenSoFar(c)
    BY <2>1 DEF WrittenSoFar, WrittenAt
  <2>3. Events(c) = <<>>
    BY <1>1, EventsInFacts DEF Events, ServerInit
  <2>4. ~Ended(c) /\ stage[c] # "relay" /\ stage[c] # "unrecorded"
    BY <2>1 DEF Ended
  <2>5. RecordedSoFar(c)
    BY <2>3, <2>4, Zenon DEF RecordedSoFar, RecordedAt
  <2> QED BY <2>2, <2>5
<1> QED BY <1>2, <1>3 DEF ServerInvariant

(***************************************************************************)
(* Whatever the clients and the server do, whenever tasks fail, panic or   *)
(* are aborted: the server gets from a connection one cancel, or one       *)
(* startup packet at the layer asked for, and the trace records a startup  *)
(* of those whose packet went out and of no other, unless that write fails *)
(* (connection(), the code before its loop).                               *)
(***************************************************************************)
THEOREM StartupPassedOnceCorrect == ServerSpec => []StartupPassedOnce
  BY ServerInitially, ServerStep, InvariantImplies, PTL DEF ServerSpec

(***************************************************************************)
(* And the trace tells the life of each connection in order, whichever of  *)
(* its writes fail: a connection that has not ended by itself has at most  *)
(* its startup, one that has ended has connection.closed as its last and   *)
(* only once, and lacks it only if a write failed (the task serve()        *)
(* spawns, which ignores the result of that write).                        *)
(***************************************************************************)
THEOREM LifeRecordedCorrect == ServerSpec => []LifeRecorded
  BY ServerInitially, ServerStep, InvariantImplies, PTL DEF ServerSpec

-----------------------------------------------------------------------------
(***************************************************************************)
(* The command line.  Only serve() and its tasks add to the trace, at its  *)
(* end.                                                                    *)
(***************************************************************************)
LEMMA PrefixOfConcat ==
    ASSUME NEW S, NEW s \in Seq(S), NEW t \in Seq(S)
    PROVE  IsPrefix(s, s \o t)
<1> DEFINE n == Len(s)
           q == s \o t
<1>1. q \in Seq(S) /\ Len(q) = n + Len(t) /\ n \in Nat /\ Len(t) \in Nat
  OBVIOUS
<1>2. \A i \in 1 .. n : q[i] = s[i]
  BY ConcatProperties
<1> HIDE DEF q
<1>3. n <= Len(q)
  BY <1>1
<1>4. SubSeq(s, 1, n) = s
  OBVIOUS
<1>5. /\ SubSeq(q, 1, n) \in Seq(S) /\ Len(SubSeq(q, 1, n)) = n
      /\ \A i \in 1 .. n : SubSeq(q, 1, n)[i] = q[i]
  <2> HIDE DEF n
  <2>1. 1 \in 1 .. Len(q) + 1 /\ n \in 1 - 1 .. Len(q)
    BY <1>1, <1>3
  <2>2. \A i \in 1 .. n : (1 + i) - 1 = i
    BY <1>1
  <2> QED BY <1>1, <2>1, <2>2
<1>6. SubSeq(q, 1, n) = s
  BY <1>1, <1>2, <1>5
<1> QED BY <1>3, <1>4, <1>6 DEF IsPrefix, q

LEMMA PrefixOfAppend ==
    ASSUME NEW S, NEW s \in Seq(S), NEW x \in S
    PROVE  IsPrefix(s, s) /\ IsPrefix(s, Append(s, x))
<1>1. s \o <<>> = s /\ s \o <<x>> = Append(s, x) /\ <<>> \in Seq(S) /\ <<x>> \in Seq(S)
  BY ConcatIsAppend
<1> QED BY <1>1, PrefixOfConcat

LEMMA FinishTrace ==
    ASSUME NEW c \in Connection, trace \in Seq(Records), NEW records \in Seq(Records), NEW missed,
           Finish(c, records, missed)
    PROVE  trace' \in Seq(Records) /\ IsPrefix(trace, trace')
<1>1. Record(c, "connection.closed") \in Records
  BY DEF Record, Records, LifeEvent
<1>2. PICK closing \in Lifecycle(c, "connection.closed") : trace' = trace \o records \o closing
  BY DEF Finish
<1>3. closing \in Seq(Records)
  <2>1. \A r \in Records : <<r>> \in Seq(Records)
    OBVIOUS
  <2>2. <<>> \in Seq(Records)
    OBVIOUS
  <2> QED BY <1>1, <1>2, <2>1, <2>2, Zenon DEF Lifecycle
<1> DEFINE more == records \o closing
<1>4. more \in Seq(Records) /\ trace' = trace \o more
  BY <1>2, <1>3
<1> HIDE DEF more
<1> QED BY <1>4, PrefixOfConcat

LEMMA ServeTrace ==
    ASSUME trace \in Seq(Records), task \in [Connection -> Tasks], Serve
    PROVE  /\ trace' \in Seq(Records) /\ IsPrefix(trace, trace')
           /\ task' \in [Connection -> Tasks]
<1>1. trace' = trace => trace' \in Seq(Records) /\ IsPrefix(trace, trace')
  <2>1. IsPrefix(trace, trace)
    BY DEF IsPrefix
  <2> QED BY <2>1
<1>2. ASSUME NEW c \in Connection, Step(c) PROVE trace' \in Seq(Records) /\ IsPrefix(trace, trace')
  <2>1. CASE CancelForwarded(c) \/ Truncated(c) \/ Returns(c) \/ StartupUnrecorded(c)
    <3>1. \A e \in LifeEvent : <<Record(c, e)>> \in Seq(Records)
      BY DEF Record, Records
    <3>2. <<>> \in Seq(Records) /\ {"cancel.forwarded", "result.truncated"} \subseteq LifeEvent
      BY DEF LifeEvent
    <3>3. \E records \in Seq(Records) : \E missed : Finish(c, records, missed)
      BY <2>1, <3>1, <3>2 DEF CancelForwarded, Truncated, Returns, StartupUnrecorded, Lifecycle
    <3> QED BY <3>3, FinishTrace
  <2>2. CASE StartupWritten(c)
    <3>1. Record(c, "startup") \in Records
      BY DEF Record, Records, LifeEvent
    <3>2. trace' = Append(trace, Record(c, "startup"))
      BY <2>2 DEF StartupWritten
    <3> QED BY <3>1, <3>2, PrefixOfAppend, AppendProperties
  <2>3. CASE SslRequest(c) \/ TlsAccepted(c) \/ CancelRequest(c) \/ CancelConnected(c)
             \/ StartupMessage(c) \/ Connected(c) \/ SslReply(c) \/ TlsConnected(c)
    BY <1>1, <2>3 DEF SslRequest, TlsAccepted, CancelRequest, CancelConnected,
                      StartupMessage, Connected, SslReply, TlsConnected
  <2> QED BY <1>2, <2>1, <2>2, <2>3 DEF Step
<1>3. CASE Accept \/ AcceptFails \/ JoinPanicked \/ Stop \/ ServeReturns
  <2>1. trace' = trace
    BY <1>3 DEF Accept, AcceptFails, JoinPanicked, ServeFails, Stop, ServeReturns, connectionVars
  <2>2. task' \in [Connection -> Tasks]
    <3>1. CASE Accept
      BY <3>1 DEF Accept, Tasks
    <3>2. CASE AcceptFails \/ JoinPanicked \/ Stop
      <4>1. AbortAll
        BY <3>2 DEF AcceptFails, JoinPanicked, ServeFails, Stop
      <4> QED BY <4>1 DEF AbortAll, Tasks
    <3>3. CASE ServeReturns
      BY <3>3 DEF ServeReturns
    <3> QED BY <1>3, <3>1, <3>2, <3>3
  <2> QED BY <1>1, <2>1, <2>2
<1>4. ASSUME NEW c \in Connection, Step(c) \/ Join(c) \/ Aborted(c)
      PROVE  /\ trace' \in Seq(Records) /\ IsPrefix(trace, trace')
             /\ task' \in [Connection -> Tasks]
  <2>1. CASE Join(c) \/ Aborted(c)
    BY <1>1, <2>1 DEF Join, Aborted, connectionVars, Tasks
  <2>2. CASE Step(c)
    <3>1. \/ task' = task
          \/ \E s \in {"panicked", "finished"} : task' = [task EXCEPT ![c] = s]
      BY <2>2 DEF Step, SslRequest, TlsAccepted, CancelRequest, CancelConnected, CancelForwarded,
           StartupMessage, Connected, SslReply, TlsConnected, StartupWritten, StartupUnrecorded, Truncated,
           Returns, Finish
    <3>2. task' \in [Connection -> Tasks]
      BY <3>1 DEF Tasks
    <3> QED BY <1>2, <2>2, <3>2
  <2> QED BY <1>4, <2>1, <2>2
<1> QED BY <1>3, <1>4 DEF Serve

(***************************************************************************)
(* The invariant of main(): where it stands tells whether the trace file   *)
(* exists, whether the proxy has returned, and what an exit code means.    *)
(***************************************************************************)
Works == {"none", "sent", "forwarded", "executed", "answered"}

CliTypeOK ==
    /\ task \in [Connection -> Tasks]
    /\ trace \in Seq(Records)
    /\ work \in [Connection -> Works]

FileAtPath ==
    /\ trace # <<>> => exists = TRUE
    /\ pc \in {"bind", "serve", "await", "verify", "verified", "unverified"} => exists = TRUE

CliInvariant ==
    /\ CliTypeOK
    /\ FileAtPath
    /\ Verifying => serving = "returned"
    /\ serving = "returned" => Drained
    /\ exit # "none" => pc = "exited"
    /\ SuccessMeans

(***************************************************************************)
(* A proxy that has returned does nothing more.                            *)
(***************************************************************************)
LEMMA NothingAfterReturn == serving = "returned" /\ Drained => ~Serve
<1> SUFFICES ASSUME serving = "returned", Drained, Serve PROVE FALSE
  OBVIOUS
<1>1. ~(Accept \/ AcceptFails \/ JoinPanicked \/ Stop \/ ServeReturns)
  BY DEF Accept, AcceptFails, JoinPanicked, ServeFails, Stop, ServeReturns
<1>2. ASSUME NEW c \in Connection PROVE ~(Step(c) \/ Join(c) \/ Aborted(c))
  <2>1. task[c] \notin {"running", "aborting"}
    BY DEF Drained
  <2>2. ~Join(c) /\ ~Aborted(c)
    BY <2>1 DEF Join, Aborted
  <2>3. ~Step(c)
    BY <2>1 DEF Step, At, SslRequest, TlsAccepted, CancelRequest, CancelConnected, CancelForwarded,
         StartupMessage, Connected, SslReply, TlsConnected, StartupWritten, StartupUnrecorded, Truncated, Returns
  <2> QED BY <2>2, <2>3
<1> QED BY <1>1, <1>2 DEF Serve

LEMMA ReturnsDrained ==
    ASSUME Serve, serving # "returned", serving' = "returned"
    PROVE  Drained'
<1>1. ASSUME NEW c \in Connection PROVE ~(Step(c) \/ Join(c) \/ Aborted(c))
  BY DEF Join, Aborted, Step, SslRequest, TlsAccepted, CancelRequest, CancelConnected,
     CancelForwarded, StartupMessage, Connected, SslReply, TlsConnected, StartupWritten, StartupUnrecorded,
     Truncated, Returns, serveVars
<1>2. ServeReturns
  BY <1>1 DEF Serve, Accept, AcceptFails, JoinPanicked, ServeFails, Stop
<1> QED BY <1>2 DEF ServeReturns, Drained

(***************************************************************************)
(* The end of the process, with 0 of a probe only when it may be.          *)
(***************************************************************************)
LEMMA Exits ==
    ASSUME CliInvariant, NEW code, ExitWith(code), UNCHANGED <<exists, child, work>>,
           code = "0" /\ subcommand = "probe" => child = "0" /\ Verifying
    PROVE  CliInvariant'
<1>0. task \in [Connection -> Tasks]
  BY DEF CliInvariant, CliTypeOK
<1>4. serving' = "returned" => Drained'
  BY <1>0 DEF CliInvariant, ExitWith, Drained
<1>1. CliTypeOK'
  BY DEF CliInvariant, CliTypeOK, ExitWith, Tasks, connectionVars
<1>2. FileAtPath'
  BY DEF CliInvariant, FileAtPath, ExitWith, connectionVars
<1>3. SuccessMeans'
  <2> SUFFICES ASSUME exit' = "0", subcommand' = "probe"
               PROVE  child' = "0" /\ serving' = "returned" /\ Drained'
    BY DEF SuccessMeans
  <2>1. child = "0" /\ serving = "returned" /\ Drained
    BY DEF CliInvariant, ExitWith, argumentVars
  <2> QED BY <1>0, <2>1 DEF ExitWith, Drained
<1> QED BY <1>1, <1>2, <1>3, <1>4 DEF CliInvariant, ExitWith, Verifying

(***************************************************************************)
(* A step of main() or of the probed command that leaves the proxy alone.  *)
(***************************************************************************)
LEMMA Proceeds ==
    ASSUME CliInvariant, UNCHANGED <<serving, task, trace, exit, subcommand>>,
           work' \in [Connection -> Works],
           exists' = exists \/ exists' = TRUE,
           pc' = pc \/ pc # "exited",
           pc' \in {"bind", "serve", "await", "verify", "verified", "unverified"} => exists' = TRUE,
           Verifying' => serving = "returned",
           child' = child \/ child # "0"
    PROVE  CliInvariant'
<1>1. CliTypeOK'
  BY DEF CliInvariant, CliTypeOK
<1>2. FileAtPath'
  BY DEF CliInvariant, FileAtPath
<1>3. Drained' <=> Drained
  BY DEF Drained
<1>4. exit' # "none" => pc' = "exited"
  BY DEF CliInvariant
<1>5. SuccessMeans'
  BY <1>3 DEF CliInvariant, SuccessMeans
<1> QED BY <1>1, <1>2, <1>3, <1>4, <1>5 DEF CliInvariant

LEMMA ChildStep ==
    ASSUME CliInvariant, NEW c \in Connection,
           SendStatement(c) \/ Forward(c) \/ Execute(c) \/ Answer(c)
    PROVE  /\ CliInvariant'
           /\ UNCHANGED <<trace, written>>
           /\ Verifying => Unsent \subseteq Unsent'
<1>1. work \in [Connection -> Works] /\ task \in [Connection -> Tasks]
  BY DEF CliInvariant, CliTypeOK
<1>2. /\ UNCHANGED <<vars, argumentVars, pc, exists, child, truth, exit>>
      /\ \E w \in Works : work' = [work EXCEPT ![c] = w]
  BY DEF SendStatement, Forward, Execute, Answer, Advance, Works
<1>3. CliInvariant'
  <2>1. work' \in [Connection -> Works]
    BY <1>1, <1>2
  <2>2. Verifying' => Verifying
    BY <1>2 DEF Verifying
  <2> QED BY <1>2, <2>1, <2>2, Proceeds DEF CliInvariant, FileAtPath, vars, argumentVars
<1>4. ASSUME Verifying PROVE Unsent \subseteq Unsent'
  <2>1. task[c] \notin {"running", "aborting"}
    BY <1>4 DEF CliInvariant, Drained
  <2>2. ~SendStatement(c) /\ ~Forward(c) /\ ~Answer(c)
    BY <2>1 DEF SendStatement, Forward, Answer, At
  <2>3. work[c] = "forwarded" /\ work' = [work EXCEPT ![c] = "executed"]
    BY <2>2 DEF Execute, Advance
  <2> QED BY <1>1, <2>3 DEF Unsent
<1> QED BY <1>2, <1>3, <1>4 DEF vars

LEMMA CliStep ==
    ASSUME CliInvariant, CliNext
    PROVE  /\ CliInvariant'
           /\ IsPrefix(trace, trace')
           /\ Verifying => UNCHANGED <<trace, written>> /\ Unsent \subseteq Unsent'
<1> DEFINE Kept == /\ IsPrefix(trace, trace')
                   /\ Verifying => UNCHANGED <<trace, written>> /\ Unsent \subseteq Unsent'
<1>0. /\ CliTypeOK /\ trace \in Seq(Records) /\ work \in [Connection -> Works]
      /\ task \in [Connection -> Tasks] /\ SuccessMeans
      /\ Verifying => serving = "returned"
      /\ serving = "returned" => Drained
      /\ exit # "none" => pc = "exited"
      /\ trace # <<>> => exists = TRUE
      /\ pc \in {"bind", "serve", "await", "verify", "verified", "unverified"} => exists = TRUE
  BY DEF CliInvariant, CliTypeOK, FileAtPath
<1>a. IsPrefix(trace, trace)
  BY <1>0 DEF IsPrefix
<1>b. UNCHANGED <<trace, written, work>> => Kept
  <2>1. UNCHANGED work => Unsent' = Unsent
    BY DEF Unsent
  <2> QED BY <1>a, <2>1
<1>c. \A code : ExitWith(code) => UNCHANGED <<trace, written>>
  BY DEF ExitWith, connectionVars
<1>d. UNCHANGED vars => UNCHANGED <<serving, task, trace, written>>
  BY DEF vars
<1> SUFFICES CliInvariant' /\ Kept
  OBVIOUS
<1> HIDE DEF Kept
<1>1. CASE Load
  <2>0. UNCHANGED <<exists, child, work, truth>> /\ pc = "load"
    BY <1>1 DEF Load
  <2>1. CASE ExitWith("1") \/ (subcommand = "validate" /\ ExitWith("0"))
    BY <1>b, <1>c, <2>0, <2>1, Exits
  <2>2. CASE pc' = "configure" /\ UNCHANGED <<vars, argumentVars, exit>>
    BY <1>0, <1>1, <1>b, <1>d, <2>2, Proceeds DEF Load, argumentVars, Verifying
  <2>3. \/ ExitWith("1")
        \/ subcommand = "validate" /\ ExitWith("0")
        \/ pc' = "configure" /\ UNCHANGED <<vars, argumentVars, exit>>
    BY <1>1, Zenon DEF Load
  <2> QED BY <2>1, <2>2, <2>3
<1>2. CASE Configure
  <2>1. CASE ExitWith("1")
    BY <1>2, <1>b, <1>c, <2>1, Exits DEF Configure
  <2>2. CASE pc' = "create" /\ UNCHANGED <<vars, argumentVars, exit>>
    BY <1>0, <1>2, <1>b, <1>d, <2>2, Proceeds DEF Configure, argumentVars, Verifying
  <2> QED BY <1>2, <2>1, <2>2 DEF Configure
<1>3. CASE Create
  <2>1. CASE exists
    BY <1>3, <1>b, <1>c, <2>1, Exits DEF Create
  <2>2. CASE ~exists
    <3>1. trace = <<>> /\ trace' = <<>>
      BY <1>0, <1>3, <2>2 DEF Create
    <3>2. CliInvariant'
      BY <1>0, <1>3, <2>2, <3>1, Proceeds DEF Create, argumentVars, serveVars, Verifying
    <3> QED BY <1>3, <1>b, <2>2, <3>1, <3>2 DEF Create
  <2> QED BY <2>1, <2>2
<1>4. CASE Bind
  <2>1. CASE ExitWith("1")
    BY <1>4, <1>b, <1>c, <2>1, Exits DEF Bind
  <2>2. CASE pc' = "serve" /\ UNCHANGED <<vars, argumentVars, exit>>
    BY <1>0, <1>4, <1>b, <1>d, <2>2, Proceeds DEF Bind, argumentVars, Verifying
  <2> QED BY <1>4, <2>1, <2>2 DEF Bind
<1>5. CASE Signal
  <2>1. UNCHANGED <<serving, task, trace, written>> /\ UNCHANGED <<cliVars, argumentVars>>
    BY <1>5 DEF Signal, Shutdown, connectionVars
  <2> QED BY <1>0, <1>5, <1>b, <2>1, Proceeds DEF Signal, cliVars, argumentVars, Verifying
<1>6. CASE RunEnds
  <2>1. \E code \in {"0", "1"} : ExitWith(code) /\ subcommand = "run"
    BY <1>6 DEF RunEnds
  <2> QED BY <1>6, <1>b, <1>c, <2>1, Exits DEF RunEnds
<1>7. CASE Spawn
  <2>1. CASE ExitWith("1") /\ UNCHANGED child
    BY <1>7, <1>b, <1>c, <2>1, Exits DEF Spawn
  <2>2. CASE child' = "running" /\ UNCHANGED <<vars, argumentVars, pc, exit>>
    BY <1>0, <1>7, <1>b, <1>d, <2>2, Proceeds DEF Spawn, argumentVars, Verifying
  <2> QED BY <1>7, <2>1, <2>2 DEF Spawn
<1>8. ASSUME NEW code \in Codes, ChildEnds(code) PROVE CliInvariant' /\ Kept
  <2>1. UNCHANGED <<vars, argumentVars, pc, exists, work, truth, exit>> /\ child = "running"
    BY <1>8 DEF ChildEnds
  <2> QED BY <1>0, <1>b, <1>d, <2>1, Proceeds DEF argumentVars, Verifying
<1>9. CASE SendShutdown
  <2>1. UNCHANGED <<trace, written, task, serving>>
    BY <1>9 DEF SendShutdown, connectionVars
  <2> QED BY <1>0, <1>9, <1>b, <2>1, Proceeds DEF SendShutdown, argumentVars, Verifying
<1>10. CASE ServerJoined
  <2>1. CASE ExitWith("1")
    BY <1>10, <1>b, <1>c, <2>1, Exits DEF ServerJoined
  <2>2. CASE ServerAwaited /\ pc' = "verify" /\ UNCHANGED <<vars, argumentVars, exit>>
    BY <1>0, <1>10, <1>b, <1>d, <2>2, Proceeds
       DEF ServerJoined, ServerAwaited, argumentVars, Verifying
  <2> QED BY <1>10, <2>1, <2>2 DEF ServerJoined
<1>11. CASE Verify
  BY <1>0, <1>11, <1>b, <1>d, Proceeds DEF Verify, argumentVars, Verifying
<1>12. CASE ProbeEnds
  BY <1>12, <1>b, <1>c, Exits DEF ProbeEnds, Verifying
<1>13. ASSUME NEW c \in Connection, SendStatement(c) \/ Forward(c) \/ Execute(c) \/ Answer(c)
       PROVE  CliInvariant' /\ Kept
  BY <1>13, <1>a, ChildStep DEF Kept
<1>14. CASE Proxying
  <2>1. /\ pc \in {"serve", "await", "verify", "verified", "unverified"} /\ Serve
        /\ UNCHANGED <<pc, exists, child, work, exit, subcommand>>
    BY <1>14 DEF Proxying, cliVars, argumentVars
  <2>2. ~Verifying /\ pc # "exited" /\ exit = "none"
    BY <1>0, <2>1, NothingAfterReturn
  <2>3. /\ trace' \in Seq(Records) /\ IsPrefix(trace, trace')
        /\ task' \in [Connection -> Tasks]
    BY <1>0, <2>1, ServeTrace
  <2>4. exists = TRUE /\ exit' = "none" /\ ~Verifying'
    BY <1>0, <2>1, <2>2 DEF Verifying
  <2>5. CliTypeOK' /\ FileAtPath' /\ SuccessMeans'
    BY <1>0, <2>1, <2>3, <2>4 DEF CliTypeOK, FileAtPath, SuccessMeans
  <2>6. serving' = "returned" => Drained'
    <3>1. serving # "returned"
      BY <1>0, <2>1, NothingAfterReturn
    <3> QED BY <2>1, <3>1, ReturnsDrained
  <2>7. CliInvariant'
    BY <2>4, <2>5, <2>6 DEF CliInvariant
  <2> QED BY <2>2, <2>3, <2>7 DEF Kept
<1>15. CASE Killed
  BY <1>15, <1>b, <1>c, Exits DEF Killed
<1>16. CASE StartAgain
  <2>1. /\ pc = "exited" /\ pc' = "load" /\ exit' = "none" /\ UNCHANGED <<trace, exists>>
        /\ task' = [c \in Connection |-> "none"] /\ work' = [c \in Connection |-> "none"]
    BY <1>16 DEF StartAgain
  <2>4. serving' = "accepting"
    BY <1>16 DEF StartAgain
  <2>2. CliTypeOK' /\ FileAtPath' /\ SuccessMeans' /\ ~Verifying' /\ ~Verifying
    BY <1>0, <2>1 DEF CliTypeOK, FileAtPath, SuccessMeans, Verifying, Tasks, Works
  <2>3. CliInvariant'
    BY <2>1, <2>2, <2>4 DEF CliInvariant
  <2> QED BY <1>a, <2>1, <2>2, <2>3 DEF Kept
<1> QED BY <1>1, <1>2, <1>3, <1>4, <1>5, <1>6, <1>7, <1>8, <1>9, <1>10, <1>11, <1>12, <1>13,
           <1>14, <1>15, <1>16 DEF CliNext

LEMMA CliStutters ==
    ASSUME CliInvariant, UNCHANGED allVars
    PROVE  CliInvariant'
<1>1. UNCHANGED <<serving, task, trace, exit, subcommand, work, exists, pc, child>>
  BY DEF allVars, vars, cliVars, argumentVars
<1> QED BY <1>1, Proceeds DEF CliInvariant, CliTypeOK, FileAtPath, Verifying

LEMMA CliInitially == CliInit => CliInvariant
<1> SUFFICES ASSUME CliInit PROVE CliInvariant
  OBVIOUS
<1>1. <<>> \in Seq(Records)
  OBVIOUS
<1>2. CliTypeOK
  BY <1>1 DEF CliInit, ServerInit, CliTypeOK, Tasks, Works
<1>3. FileAtPath /\ ~Verifying /\ SuccessMeans /\ exit = "none" /\ serving = "accepting"
  BY DEF CliInit, ServerInit, FileAtPath, Verifying, SuccessMeans
<1> QED BY <1>2, <1>3 DEF CliInvariant

LEMMA CliAlways == CliSpec => [](CliInvariant) /\ [][CliNext]_allVars
<1>1. CliSpec => CliInit /\ [][CliNext]_allVars
  BY PTL DEF CliSpec
<1>2. CliInvariant /\ [CliNext]_allVars => CliInvariant'
  BY CliStep, CliStutters
<1> QED BY <1>1, <1>2, CliInitially, PTL

(***************************************************************************)
(* A probe that exits with 0 ran a command that did, through a proxy that  *)
(* returned without an error and had handled every connection to its end,  *)
(* wherever pgfault was killed and started again before (main(), probe).   *)
(***************************************************************************)
THEOREM SuccessMeansCorrect == CliSpec => []SuccessMeans
<1>1. CliInvariant => SuccessMeans
  BY DEF CliInvariant
<1> QED BY <1>1, CliAlways, PTL

(***************************************************************************)
(* No step, a new start with the same --trace included, takes anything     *)
(* from the trace file (create_new, and the writes of the recorder).       *)
(***************************************************************************)
THEOREM TraceKeptCorrect == CliSpec => TraceKept
<1>1. CliInvariant /\ [CliNext]_allVars => [IsPrefix(trace, trace')]_allVars
  BY CliStep
<1> QED BY <1>1, CliAlways, PTL DEF TraceKept

(***************************************************************************)
(* From the verify query of a probe on, the proxy forwards and records     *)
(* nothing: server.await has returned before it is sent.                   *)
(***************************************************************************)
THEOREM VerifiedUndisturbedCorrect == CliSpec => VerifiedUndisturbed
<1>1. CliInvariant /\ [CliNext]_allVars =>
        [Verifying => UNCHANGED <<trace, written>> /\ Unsent \subseteq Unsent']_allVars
  BY CliStep
<1> QED BY <1>1, CliAlways, PTL DEF VerifiedUndisturbed
=============================================================================
