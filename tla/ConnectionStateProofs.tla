----------------------- MODULE ConnectionStateProofs -----------------------
(***************************************************************************)
(* Proofs about ConnectionState, for arbitrary frames: type correctness,   *)
(* the structure of the queue of cycles, the agreement of speculative and  *)
(* confirmed maps at rest, and the life of the reliable flag.              *)
(***************************************************************************)
EXTENDS ConnectionState, SequenceFacts

(***************************************************************************)
(* Facts about the operators on cycles.                                    *)
(***************************************************************************)

(***************************************************************************)
(* A fresh cycle (cycle(extended)) is a well-typed cycle.                  *)
(***************************************************************************)
LEMMA FreshCycleType ==
    ASSUME NEW id \in Nat, NEW extended \in BOOLEAN
    PROVE  FreshCycle(id, extended) \in Cycle
BY DEF FreshCycle, Cycle, CommandTag, Statement

(***************************************************************************)
(* Replacing one element of a sequence keeps its type and its length.      *)
(***************************************************************************)
LEMMA ReplaceType ==
    ASSUME NEW S, NEW q \in Seq(S), NEW i \in 1 .. Len(q), NEW x \in S
    PROVE  /\ [q EXCEPT ![i] = x] \in Seq(S)
           /\ Len([q EXCEPT ![i] = x]) = Len(q)
           /\ \A j \in 1 .. Len(q) : [q EXCEPT ![i] = x][j] = IF j = i THEN x ELSE q[j]
OBVIOUS

(***************************************************************************)
(* The two ends of a queue: backend() reads the front, frontend() the back. *)
(***************************************************************************)
LEMMA EndsType ==
    ASSUME NEW S, NEW q \in Seq(S), q # <<>>
    PROVE  /\ 1 \in 1 .. Len(q) /\ Head(q) \in S /\ Head(q) = q[1]
           /\ Len(q) \in 1 .. Len(q) /\ q[Len(q)] \in S
           /\ Len(q) # 1 => Len(q) \in 2 .. Len(q)
           /\ DOMAIN q # {}
<1>0. DOMAIN q = 1 .. Len(q)
  OBVIOUS
<1>1. 1 \in 1 .. Len(q) /\ Head(q) \in S /\ Head(q) = q[1]
  OBVIOUS
<1>2. Len(q) \in 1 .. Len(q) /\ q[Len(q)] \in S
  OBVIOUS
<1>3. Len(q) \in Nat \ {0}
  OBVIOUS
<1>4. \A n \in Nat \ {0} : n # 1 => n \in 2 .. n
  OBVIOUS
<1> QED BY <1>0, <1>1, <1>2, <1>3, <1>4

(***************************************************************************)
(* cycle(extended) leaves at least one cycle, well typed.                  *)
(***************************************************************************)
LEMMA CyclesWithType ==
    ASSUME TypeOK, NEW extended \in BOOLEAN
    PROVE  /\ CyclesWith(extended) \in Seq(Cycle)
           /\ Len(CyclesWith(extended)) \in Nat \ {0}
           /\ CyclesWith(extended) # <<>>
           /\ Back(CyclesWith(extended)) \in Cycle
           /\ IdsWith(extended) \in Nat
<1>1. FreshCycle(next_cycle + 1, extended) \in Cycle
  BY FreshCycleType DEF TypeOK
<1>2. CASE OpensCycle(extended)
  <2>1. CyclesWith(extended) = Append(cycles, FreshCycle(next_cycle + 1, extended))
    BY <1>2 DEF CyclesWith
  <2>2. cycles \in Seq(Cycle) /\ next_cycle \in Nat /\ Len(cycles) \in Nat
    BY DEF TypeOK
  <2>3. /\ CyclesWith(extended) \in Seq(Cycle)
        /\ Len(CyclesWith(extended)) = Len(cycles) + 1
        /\ CyclesWith(extended)[Len(cycles) + 1] = FreshCycle(next_cycle + 1, extended)
    BY <1>1, <2>1, <2>2, AppendProperties
  <2>4. CyclesWith(extended) # <<>>
    BY <2>2, <2>3
  <2> QED
    BY <1>1, <1>2, <2>2, <2>3, <2>4 DEF IdsWith, Back
<1>3. CASE ~OpensCycle(extended)
  <2>1. cycles \in Seq(Cycle) /\ cycles # <<>>
    BY <1>3 DEF OpensCycle, TypeOK
  <2>2. Len(cycles) \in Nat \ {0} /\ cycles[Len(cycles)] \in Cycle
    BY <2>1
  <2> QED
    BY <1>3, <2>1, <2>2 DEF CyclesWith, IdsWith, TypeOK, Back
<1> QED BY <1>2, <1>3

(***************************************************************************)
(* Pushing a mutation onto the newest cycle keeps the queue well typed.    *)
(***************************************************************************)
LEMMA PushMutationType ==
    ASSUME NEW cs \in Seq(Cycle), cs # <<>>, NEW m \in Mutation
    PROVE  PushMutation(cs, m) \in Seq(Cycle)
<1>1. Len(cs) \in 1 .. Len(cs) /\ cs[Len(cs)] \in Cycle
  OBVIOUS
<1> DEFINE c == [cs[Len(cs)] EXCEPT !.mutations = Append(@, m)]
<1>2. c \in Cycle
  BY <1>1, AppendProperties DEF Cycle
<1>3. PushMutation(cs, m) = [cs EXCEPT ![Len(cs)] = c]
  BY DEF PushMutation
<1> QED BY <1>1, <1>2, <1>3, ReplaceType

(***************************************************************************)
(* The events of a call have the types of an Event.                        *)
(***************************************************************************)
LEMMA FrontendEventType ==
    ASSUME TypeOK, NEW name \in EventName, NEW cs \in Seq(Cycle), NEW epoch \in Nat
    PROVE  FrontendEvent(name, cs, epoch) \in Event
<1>1. CASE cs = <<>>
  BY <1>1, StartupAssumption DEF FrontendEvent, Event, TypeOK, Statement
<1>2. CASE cs # <<>>
  <2>1. Back(cs) \in Cycle
    BY <1>2 DEF Back
  <2>2. NewestStatement(Back(cs)) \in Statement
    <3>1. CASE Back(cs).statements = <<>>
      BY <2>1, <3>1 DEF NewestStatement, Cycle
    <3>2. CASE Back(cs).statements # <<>>
      <4>1. Back(cs).statements \in Seq(Statement)
        BY <2>1 DEF Cycle
      <4>2. Back(Back(cs).statements) \in Statement
        BY <3>2, <4>1 DEF Back
      <4> QED BY <3>2, <4>2 DEF NewestStatement
    <3> QED BY <3>1, <3>2
  <2>3. Back(cs).id \in Nat /\ Back(cs).executions \in Nat
    BY <2>1 DEF Cycle
  <2> QED
    BY <1>2, <2>2, <2>3, StartupAssumption DEF FrontendEvent, Event, TypeOK
<1> QED BY <1>1, <1>2

(***************************************************************************)
(* The same for the events of backend().                                   *)
(***************************************************************************)
LEMMA BackendEventType ==
    ASSUME TypeOK, NEW name \in EventName, NEW cs \in Seq(Cycle)
    PROVE  BackendEvent(name, cs) \in Event
<1>1. CASE cs = <<>>
  BY <1>1, StartupAssumption DEF BackendEvent, Event, TypeOK, Statement
<1>2. CASE cs # <<>>
  <2>1. Head(cs) \in Cycle
    BY <1>2
  <2> DEFINE c == Head(cs)
  <2>2. CurrentStatement(c) \in Statement
    <3>1. c.statements \in Seq(Statement) /\ c.last \in Statement
      BY <2>1 DEF Cycle
    <3>2. c.statements # <<>> => Head(c.statements) \in Statement
      BY <3>1
    <3> QED BY <3>1, <3>2 DEF CurrentStatement
  <2>3. c.id \in Nat /\ c.statement_index \in Nat /\ c.rows \in Nat
    BY <2>1 DEF Cycle
  <2>4. BackendIndex(c) \in Nat
    BY <2>3 DEF BackendIndex
  <2> QED
    BY <1>2, <2>2, <2>3, <2>4, StartupAssumption DEF BackendEvent, Event, TypeOK
<1> QED BY <1>1, <1>2

(***************************************************************************)
(* A vector of events is a sequence of events.                             *)
(***************************************************************************)
LEMMA EventsType ==
    ASSUME TypeOK, NEW names \in Seq(EventName), NEW cs \in Seq(Cycle), NEW epoch \in Nat
    PROVE  /\ FrontendEvents(names, cs, epoch) \in Seq(Event)
           /\ BackendEvents(names, cs) \in Seq(Event)
<1>1. names \in [1 .. Len(names) -> EventName] /\ Len(names) \in Nat
  OBVIOUS
<1>2. FrontendEvents(names, cs, epoch) \in [1 .. Len(names) -> Event]
  BY <1>1, FrontendEventType DEF FrontendEvents
<1>3. BackendEvents(names, cs) \in [1 .. Len(names) -> Event]
  BY <1>1, BackendEventType DEF BackendEvents
<1> QED BY <1>1, <1>2, <1>3, IsASeq

-----------------------------------------------------------------------------
(***************************************************************************)
(* Type correctness.                                                       *)
(***************************************************************************)

(***************************************************************************)
(* What the tag of a frame says about its fields.                          *)
(***************************************************************************)
LEMMA FrontendFields ==
    ASSUME NEW f \in FrontendFrame
    PROVE  /\ f.tag = "P" => f.name \in Name /\ f.sql \in Statement
           /\ f.tag = "B" => f.portal \in Name \cup {None} /\ f.stmt \in Name
           /\ f.tag = "C" => f.kind \in {"S", "P", "?"} /\ f.name \in Name \cup {None}
           /\ f.tag = "Q" => f.sql \in Statement
           /\ f.tag = "E" => f.portal \in Name \cup {None}
BY DEF FrontendFrame

(***************************************************************************)
(* What the tag of a backend frame says about its fields.                  *)
(***************************************************************************)
LEMMA BackendFields ==
    ASSUME NEW f \in BackendFrame
    PROVE  /\ f.tag = "S" => f.application_name \in Text
           /\ f.tag = "C" => f.command \in CommandTag
           /\ f.tag = "Z" => f.status \in {"I", "T", "E", "?"}
BY DEF BackendFrame

(***************************************************************************)
(* Inserting into or removing from a map of statements.                    *)
(***************************************************************************)
LEMMA SetType ==
    ASSUME NEW map \in [Name -> Statement], NEW n \in Name, NEW s \in Statement
    PROVE  Set(map, n, s) \in [Name -> Statement]
BY DEF Set

(***************************************************************************)
(* Statement::default() is a statement, and the empty map a map of them.   *)
(***************************************************************************)
LEMMA NoSqlType == NoSql \in Statement /\ NoStatements \in [Name -> Statement]
BY DEF Statement, NoStatements

(***************************************************************************)
(* The names Query and Execute give to their events.                       *)
(***************************************************************************)
LEMMA StartedNames ==
    ASSUME NEW received \in {"query.received", "frontend.execute"}, NEW s
    PROVE  <<received, "statement.execution_started">> \o Requested(s) \in Seq(EventName)
<1>1. <<received, "statement.execution_started">> \in Seq(EventName)
  BY DEF EventName
<1>2. Requested(s) \in Seq(EventName)
  <2>1. \A n \in EventName : <<n>> \in Seq(EventName)
    OBVIOUS
  <2>2. {"transaction.begin.requested", "transaction.commit.requested",
         "transaction.rollback.requested"} \subseteq EventName
    BY DEF EventName
  <2>3. <<>> \in Seq(EventName)
    OBVIOUS
  <2>4. Requested(s) \in {<<"transaction.begin.requested">>, <<"transaction.commit.requested">>,
                          <<"transaction.rollback.requested">>, <<>>}
    BY DEF Requested
  <2> QED BY <2>1, <2>2, <2>3, <2>4
<1> QED BY <1>1, <1>2, ConcatProperties

(***************************************************************************)
(* The part Query and Execute share keeps types.                           *)
(***************************************************************************)
LEMMA StartStatementType ==
    ASSUME TypeOK, NEW received \in {"query.received", "frontend.execute"},
           NEW s \in Statement, NEW extended \in BOOLEAN,
           StartStatement(received, s, extended)
    PROVE  /\ cycles' \in Seq(Cycle)
           /\ next_cycle' \in Nat
           /\ tx_epoch' \in Nat
           /\ events' \in Seq(Event)
<1> DEFINE opened == CyclesWith(extended)
           c == Back(opened)
           alloc == AllocatesEpoch(opened)
           d == [c EXCEPT !.statements = Append(@, s), !.executions = @ + 1,
                          !.epoch_allocated = @ \/ alloc]
<1>1. opened \in Seq(Cycle) /\ Len(opened) \in 1 .. Len(opened) /\ c \in Cycle
  BY CyclesWithType
<1>2. d \in Cycle
  <2>0. c.statements \in Seq(Statement) /\ c.executions \in Nat
    BY <1>1 DEF Cycle
  <2>1. Append(c.statements, s) \in Seq(Statement) /\ c.executions + 1 \in Nat
    BY <2>0, AppendProperties
  <2>2. (c.epoch_allocated \/ alloc) \in BOOLEAN
    OBVIOUS
  <2> QED BY <1>1, <2>1, <2>2 DEF Cycle
<1>3. cycles' = [opened EXCEPT ![Len(opened)] = d]
  BY DEF StartStatement, SetBack
<1>4. cycles' \in Seq(Cycle)
  BY <1>1, <1>2, <1>3, ReplaceType
<1>5. next_cycle' \in Nat /\ tx_epoch' \in Nat
  BY CyclesWithType DEF StartStatement, TypeOK
<1>6. events' = FrontendEvents(<<received, "statement.execution_started">> \o Requested(s),
                               cycles', tx_epoch')
  BY DEF StartStatement
<1>7. events' \in Seq(Event)
  <2>1. \A cs \in Seq(Cycle), e \in Nat :
           FrontendEvents(<<received, "statement.execution_started">> \o Requested(s), cs, e)
           \in Seq(Event)
    BY StartedNames, EventsType
  <2> QED BY <1>4, <1>5, <1>6, <2>1
<1> QED BY <1>4, <1>5, <1>7

(***************************************************************************)
(* frontend() keeps every field well typed, whatever the frame.            *)
(***************************************************************************)
LEMMA FrontendType ==
    ASSUME TypeOK, NEW f \in FrontendFrame, Frontend(f)
    PROVE  TypeOK'
<1> DEFINE opened == CyclesWith(TRUE)
<1>0. /\ opened \in Seq(Cycle) /\ opened # <<>> /\ IdsWith(TRUE) \in Nat
      /\ <<>> \in Seq(Event)
  <2>1. TRUE \in BOOLEAN /\ <<>> \in Seq(Event)
    OBVIOUS
  <2> QED BY <2>1, CyclesWithType
<1>1. CASE FrontendParse(f)
  <2>1. f.name \in Name /\ f.sql \in Statement
    BY <1>1, FrontendFields DEF FrontendParse
  <2>2. [op |-> "Parse", kind |-> "S", name |-> f.name, stmt |-> f.sql] \in Mutation
    BY <2>1 DEF Mutation
  <2>3. cycles' \in Seq(Cycle)
    BY <1>0, <1>1, <2>2, PushMutationType DEF FrontendParse
  <2>4. prepared' \in [Name -> Statement]
    BY <1>1, <2>1, SetType DEF FrontendParse, TypeOK
  <2> QED BY <1>0, <1>1, <2>3, <2>4 DEF FrontendParse, TypeOK
<1>2. CASE FrontendBind(f)
  <2>1. f.stmt \in Name /\ f.portal \in Name \cup {None}
    BY <1>2, FrontendFields DEF FrontendBind
  <2>2. prepared[f.stmt] \in Statement
    BY <2>1 DEF TypeOK
  <2>3. f.portal # None => [op |-> "Bind", kind |-> "P", name |-> f.portal,
                            stmt |-> prepared[f.stmt]] \in Mutation
    BY <2>1, <2>2 DEF Mutation
  <2>4. cycles' \in Seq(Cycle)
    BY <1>0, <1>2, <2>3, PushMutationType DEF FrontendBind
  <2>5. portals' \in [Name -> Statement]
    BY <1>2, <2>1, <2>2, SetType DEF FrontendBind, TypeOK
  <2> QED BY <1>0, <1>2, <2>4, <2>5 DEF FrontendBind, TypeOK
<1>3. CASE FrontendClose(f)
  <2>1. f.kind \in {"S", "P", "?"} /\ f.name \in Name
    BY <1>3, FrontendFields DEF FrontendClose
  <2>2. [op |-> "Close", kind |-> f.kind, name |-> f.name, stmt |-> NoSql] \in Mutation
    BY <2>1, NoSqlType DEF Mutation
  <2>3. cycles' \in Seq(Cycle)
    BY <1>0, <1>3, <2>2, PushMutationType DEF FrontendClose
  <2>4. prepared' \in [Name -> Statement] /\ portals' \in [Name -> Statement]
    BY <1>3, <2>1, SetType, NoSqlType DEF FrontendClose, TypeOK
  <2> QED BY <1>0, <1>3, <2>3, <2>4 DEF FrontendClose, TypeOK
<1>4. CASE FrontendQuery(f)
  <2>1. f.sql \in Statement /\ Unnamed \in Name
    BY <1>4, FrontendFields, NameAssumption DEF FrontendQuery
  <2>2. /\ cycles' \in Seq(Cycle) /\ next_cycle' \in Nat
        /\ tx_epoch' \in Nat /\ events' \in Seq(Event)
    BY <1>4, <2>1, StartStatementType DEF FrontendQuery
  <2>3. /\ prepared' \in [Name -> Statement] /\ portals' \in [Name -> Statement]
        /\ confirmed_prepared' \in [Name -> Statement]
        /\ confirmed_portals' \in [Name -> Statement]
    BY <1>4, <2>1, SetType, NoSqlType DEF FrontendQuery, TypeOK
  <2> QED BY <1>4, <2>2, <2>3 DEF FrontendQuery, TypeOK
<1>5. CASE FrontendExecute(f)
  <2>1. (IF f.portal = None THEN NoSql ELSE portals[f.portal]) \in Statement
    BY <1>5, FrontendFields, NoSqlType DEF FrontendExecute, TypeOK
  <2>2. /\ cycles' \in Seq(Cycle) /\ next_cycle' \in Nat
        /\ tx_epoch' \in Nat /\ events' \in Seq(Event)
    BY <1>5, <2>1, StartStatementType DEF FrontendExecute
  <2> QED BY <1>5, <2>2 DEF FrontendExecute, TypeOK
<1>6. CASE FrontendSync(f)
  <2> DEFINE d == [opened[Len(opened)] EXCEPT !.sealed = TRUE]
  <2>1. Len(opened) \in 1 .. Len(opened) /\ d \in Cycle
    <3>1. Len(opened) \in 1 .. Len(opened) /\ opened[Len(opened)] \in Cycle
      BY <1>0, EndsType
    <3> QED BY <3>1 DEF Cycle
  <2>2. cycles' = [opened EXCEPT ![Len(opened)] = d]
    BY <1>6 DEF FrontendSync
  <2>3. cycles' \in Seq(Cycle)
    BY <1>0, <2>1, <2>2, ReplaceType
  <2>4. <<"frontend.sync">> \in Seq(EventName)
    BY DEF EventName
  <2>5. events' \in Seq(Event)
    <3>1. \A cs \in Seq(Cycle) : FrontendEvents(<<"frontend.sync">>, cs, tx_epoch) \in Seq(Event)
      BY <2>4, EventsType DEF TypeOK
    <3> QED BY <1>6, <2>3, <3>1 DEF FrontendSync
  <2> QED BY <1>0, <1>6, <2>3, <2>5 DEF FrontendSync, TypeOK
<1>7. CASE FrontendOther(f)
  BY <1>0, <1>7 DEF FrontendOther, TypeOK
<1> QED BY <1>1, <1>2, <1>3, <1>4, <1>5, <1>6, <1>7 DEF Frontend

(***************************************************************************)
(* Replacing the oldest cycle keeps the queue well typed.                  *)
(***************************************************************************)
LEMMA SetFrontType ==
    ASSUME TypeOK, NEW c, cycles # <<>> => c \in Cycle
    PROVE  SetFront(c) \in Seq(Cycle)
<1>1. CASE cycles = <<>>
  BY <1>1 DEF SetFront, TypeOK
<1>2. CASE cycles # <<>>
  <2>1. cycles \in Seq(Cycle) /\ 1 \in 1 .. Len(cycles)
    BY <1>2, EndsType DEF TypeOK
  <2>2. [cycles EXCEPT ![1] = c] \in Seq(Cycle)
    BY <1>2, <2>1, ReplaceType
  <2> QED BY <1>2, <2>2 DEF SetFront
<1> QED BY <1>1, <1>2

(***************************************************************************)
(* Finishing the executing statement keeps a cycle well typed.             *)
(***************************************************************************)
LEMMA FinishType ==
    ASSUME NEW c \in Cycle
    PROVE  Finish(c) \in Cycle
<1>1. c.statements \in Seq(Statement) /\ c.last \in Statement
  BY DEF Cycle
<1>2. CurrentStatement(c) \in Statement /\ Rest(c.statements) \in Seq(Statement)
  <2>1. CASE c.statements = <<>>
    BY <1>1, <2>1 DEF CurrentStatement, Rest
  <2>2. CASE c.statements # <<>>
    <3>1. Head(c.statements) \in Statement /\ Tail(c.statements) \in Seq(Statement)
      BY <1>1, <2>2
    <3> QED BY <2>2, <3>1 DEF CurrentStatement, Rest
  <2> QED BY <2>1, <2>2
<1> QED BY <1>2 DEF Finish, Cycle

(***************************************************************************)
(* The updates backend() makes to the oldest cycle keep it well typed.     *)
(***************************************************************************)
LEMMA ReplyType ==
    ASSUME NEW c \in Cycle, NEW command \in CommandTag
    PROVE  /\ [c EXCEPT !.rows = @ + 1] \in Cycle
           /\ [c EXCEPT !.error = TRUE, !.mutations = <<>>] \in Cycle
           /\ [c EXCEPT !.command = command,
                        !.statement_index = IF c.extended THEN @ + 1 ELSE @] \in Cycle
<1>1. c.rows + 1 \in Nat /\ (IF c.extended THEN c.statement_index + 1 ELSE c.statement_index) \in Nat
  BY DEF Cycle
<1>2. [c EXCEPT !.rows = @ + 1] \in Cycle
  BY <1>1 DEF Cycle
<1>3. [c EXCEPT !.error = TRUE, !.mutations = <<>>] \in Cycle
  <2>1. \A b \in BOOLEAN, q \in Seq(Mutation) : [c EXCEPT !.error = b, !.mutations = q] \in Cycle
    BY DEF Cycle
  <2>2. <<>> \in Seq(Mutation) /\ TRUE \in BOOLEAN
    OBVIOUS
  <2> QED BY <2>1, <2>2
<1>4. [c EXCEPT !.command = command,
                !.statement_index = IF c.extended THEN @ + 1 ELSE @] \in Cycle
  BY <1>1 DEF Cycle
<1> QED BY <1>2, <1>3, <1>4

(***************************************************************************)
(* The names ReadyForQuery gives to its events.                            *)
(***************************************************************************)
LEMMA ReadyNames ==
    ASSUME NEW failed \in {"transaction.failed", None}, NEW new
    PROVE  <<"backend.ready">> \o IfAny(failed) \o IfAny(Completed(new)) \o <<"connection.ready">>
           \in Seq(EventName)
<1>1. \A n \in EventName : <<n>> \in Seq(EventName) /\ <<>> \in Seq(EventName)
  OBVIOUS
<1>2. {"backend.ready", "connection.ready", "transaction.failed"} \subseteq EventName
  BY DEF EventName
<1>3. Completed(new) \in EventName \cup {None}
  BY DEF Completed, TransactionEnd, EventName, CompletedEvent
<1>4. /\ <<"backend.ready">> \in Seq(EventName)
      /\ IfAny(failed) \in Seq(EventName)
      /\ IfAny(Completed(new)) \in Seq(EventName)
      /\ <<"connection.ready">> \in Seq(EventName)
  BY <1>1, <1>2, <1>3 DEF IfAny
<1>5. \A a, b \in Seq(EventName) : a \o b \in Seq(EventName)
  BY ConcatProperties
<1> QED BY <1>4, <1>5

(***************************************************************************)
(* backend() keeps every field well typed, whatever the frame.             *)
(***************************************************************************)
LEMMA BackendType ==
    ASSUME TypeOK, NEW f \in BackendFrame, Backend(f)
    PROVE  TypeOK'
<1>0. /\ <<>> \in Seq(Event)
      /\ cycles # <<>> => /\ Head(cycles) \in Cycle /\ 1 \in 1 .. Len(cycles)
                          /\ Head(cycles) = cycles[1]
      /\ cycles \in Seq(Cycle)
  BY EndsType DEF TypeOK
<1>1. CASE BackendParameterStatus(f)
  <2>1. f.application_name \in Text
    BY <1>1, BackendFields DEF BackendParameterStatus
  <2>2. startup' \in StartupMetadata
    BY <1>1, <2>1 DEF BackendParameterStatus, TypeOK, StartupMetadata
  <2> QED BY <1>0, <1>1, <2>2 DEF BackendParameterStatus, TypeOK
<1>2. CASE BackendAcknowledge(f)
  <2>1. CASE Unacknowledged # <<>>
    <3> DEFINE m == Head(Unacknowledged)
               c == [cycles[1] EXCEPT !.mutations = Tail(@)]
    <3>1. cycles # <<>> /\ Unacknowledged = cycles[1].mutations
      BY <1>0, <2>1 DEF Unacknowledged
    <3>2. cycles[1] \in Cycle /\ cycles[1].mutations \in Seq(Mutation)
      BY <1>0, <3>1 DEF Cycle
    <3>3. m \in Mutation /\ Tail(cycles[1].mutations) \in Seq(Mutation)
      BY <2>1, <3>1, <3>2
    <3>4. c \in Cycle
      BY <3>2, <3>3 DEF Cycle
    <3>5. cycles' = [cycles EXCEPT ![1] = c]
      BY <1>2, <2>1 DEF BackendAcknowledge
    <3>6. cycles' \in Seq(Cycle)
      BY <1>0, <3>1, <3>4, <3>5, ReplaceType
    <3>7. m.name \in Name /\ m.stmt \in Statement
      BY <3>3 DEF Mutation
    <3>8. /\ confirmed_prepared' \in [Name -> Statement]
          /\ confirmed_portals' \in [Name -> Statement]
      <4>1. /\ Set(confirmed_prepared, m.name, m.stmt) \in [Name -> Statement]
            /\ Set(confirmed_portals, m.name, m.stmt) \in [Name -> Statement]
        BY <3>7, SetType DEF TypeOK
      <4>2. /\ confirmed_prepared' \in {confirmed_prepared, Set(confirmed_prepared, m.name, m.stmt)}
            /\ confirmed_portals' \in {confirmed_portals, Set(confirmed_portals, m.name, m.stmt)}
        BY <1>2, <2>1 DEF BackendAcknowledge
      <4> QED BY <4>1, <4>2 DEF TypeOK
    <3>9. reliable' \in BOOLEAN
      BY <1>2, <2>1 DEF BackendAcknowledge
    <3> QED BY <1>0, <1>2, <3>6, <3>8, <3>9 DEF BackendAcknowledge, TypeOK
  <2>2. CASE Unacknowledged = <<>>
    BY <1>0, <1>2, <2>2 DEF BackendAcknowledge, TypeOK
  <2> QED BY <2>1, <2>2
<1>3. CASE BackendRowDescription(f)
  <2>1. <<"result.started">> \in Seq(EventName)
    BY DEF EventName
  <2>2. events' \in Seq(Event)
    BY <1>0, <1>3, <2>1, EventsType DEF BackendRowDescription, TypeOK
  <2> QED BY <1>3, <2>2 DEF BackendRowDescription, TypeOK
<1>4. CASE BackendDataRow(f)
  <2>1. cycles # <<>> => [Head(cycles) EXCEPT !.rows = @ + 1] \in Cycle
    BY <1>0, ReplyType DEF CommandTag
  <2>2. cycles' \in Seq(Cycle)
    BY <1>4, <2>1, SetFrontType DEF BackendDataRow
  <2>3. <<"result.row">> \in Seq(EventName)
    BY DEF EventName
  <2>4. \A cs \in Seq(Cycle) : BackendEvents(<<"result.row">>, cs) \in Seq(Event)
    BY <2>3, EventsType DEF TypeOK
  <2> QED BY <1>4, <2>2, <2>4 DEF BackendDataRow, TypeOK
<1>5. CASE BackendCommandComplete(f)
  <2> DEFINE c == Finish(Head(cycles))
             d == [c EXCEPT !.command = f.command,
                            !.statement_index = IF c.extended THEN @ + 1 ELSE @]
  <2>1. f.command \in CommandTag
    BY <1>5, BackendFields DEF BackendCommandComplete
  <2>2. cycles # <<>> => d \in Cycle
    <3>1. cycles # <<>> => c \in Cycle
      BY <1>0, FinishType
    <3> HIDE DEF c
    <3> QED BY <2>1, <3>1, ReplyType
  <2>3. cycles' = SetFront(d)
    BY <1>5 DEF BackendCommandComplete
  <2>4. cycles' \in Seq(Cycle)
    BY <2>2, <2>3, SetFrontType
  <2>5. <<"backend.command_complete", "statement.execution_completed", "result.completed">>
        \in Seq(EventName)
    BY DEF EventName
  <2>6. events' \in Seq(Event)
    BY <1>0, <1>5, <2>5, EventsType DEF BackendCommandComplete, TypeOK
  <2> QED BY <1>5, <2>4, <2>6 DEF BackendCommandComplete, TypeOK
<1>6. CASE BackendPortalSuspended(f)
  <2>1. cycles' \in Seq(Cycle)
    BY <1>0, <1>6, FinishType, SetFrontType DEF BackendPortalSuspended
  <2> QED BY <1>0, <1>6, <2>1 DEF BackendPortalSuspended, TypeOK
<1>7. CASE BackendError(f)
  <2>1. cycles # <<>> => [Head(cycles) EXCEPT !.error = TRUE, !.mutations = <<>>] \in Cycle
    BY <1>0, ReplyType DEF CommandTag
  <2>2. cycles' \in Seq(Cycle)
    BY <1>7, <2>1, SetFrontType DEF BackendError
  <2>3. <<"backend.error">> \in Seq(EventName)
    BY DEF EventName
  <2>4. \A cs \in Seq(Cycle) : BackendEvents(<<"backend.error">>, cs) \in Seq(Event)
    BY <2>3, EventsType DEF TypeOK
  <2> QED BY <1>7, <2>2, <2>4 DEF BackendError, TypeOK
<1>8. CASE BackendReady(f)
  <2> DEFINE new == StatusOf(f)
             failed == IF new = "FailedTransaction" /\ tx_state # new
                       THEN "transaction.failed" ELSE None
             names == <<"backend.ready">> \o IfAny(failed) \o IfAny(Completed(new))
                        \o <<"connection.ready">>
  <2>1. Rest(cycles) \in Seq(Cycle)
    BY <1>0 DEF Rest
  <2>2. new \in TxState
    BY <1>8 DEF BackendReady, StatusOf, TxState
  <2>3. names \in Seq(EventName)
    BY ReadyNames
  <2>4. events' = BackendEvents(names, cycles)
    BY <1>8 DEF BackendReady
  <2>5. events' \in Seq(Event)
    BY <1>0, <2>3, <2>4, EventsType DEF TypeOK
  <2>6. reliable' \in BOOLEAN
    BY <1>8 DEF BackendReady, Trust
  <2>7. /\ confirmed_portals' \in [Name -> Statement] /\ prepared' \in [Name -> Statement]
        /\ portals' \in [Name -> Statement]
    BY <1>8, NoSqlType DEF BackendReady, Speculation, TypeOK
  <2> HIDE DEF new
  <2> QED BY <1>8, <2>1, <2>2, <2>5, <2>6, <2>7 DEF BackendReady, TypeOK, new
<1>9. CASE BackendOther(f)
  BY <1>0, <1>9 DEF BackendOther, TypeOK
<1> QED BY <1>1, <1>2, <1>3, <1>4, <1>5, <1>6, <1>7, <1>8, <1>9 DEF Backend

(***************************************************************************)
(* Type correctness of ConnectionState: whatever frames arrive from either *)
(* side, in whatever order, every field and every event is well formed.    *)
(***************************************************************************)
THEOREM TypeCorrect == Spec => []TypeOK
<1>1. Init => TypeOK
  BY NoSqlType, StartupAssumption DEF Init, TypeOK, TxState
<1>2. TypeOK /\ [Next]_stateVars => TypeOK'
  <2> SUFFICES ASSUME TypeOK, [Next]_stateVars PROVE TypeOK'
    OBVIOUS
  <2>1. CASE UNCHANGED stateVars
    BY <2>1 DEF stateVars, TypeOK
  <2>2. CASE Next
    BY <2>2, FrontendType, BackendType DEF Next
  <2> QED BY <2>1, <2>2
<1> QED BY <1>1, <1>2, PTL DEF Spec

-----------------------------------------------------------------------------
(***************************************************************************)
(* The structure of the cycle queue.  The four invariants about it are     *)
(* inductive together: an epoch is bounded by the ids, the ids by the      *)
(* length of the queue, and extended work can join only an unsealed cycle, *)
(* which SimpleCyclesAlone says is an extended one.                        *)
(***************************************************************************)
Unanswered(c) ==
    /\ c.rows = 0 /\ c.command = "" /\ ~c.error /\ c.last = NoSql
    /\ c.statement_index = 0 /\ ~c.epoch_allocated

Alone(c) == ~c.extended => /\ c.sealed /\ c.executions = 1 /\ Len(c.statements) <= 1
                           /\ c.mutations = <<>> /\ c.statement_index = 0

Structured(cs, next, epoch) ==
    /\ Len(cs) <= next
    /\ \A i \in 1 .. Len(cs) : cs[i].id = (next - Len(cs)) + i
    /\ \A i \in 2 .. Len(cs) : Unanswered(cs[i])
    /\ epoch <= (next - Len(cs)) + (IF cs # <<>> /\ cs[1].epoch_allocated THEN 1 ELSE 0)
    /\ \A i \in 1 .. Len(cs) : Alone(cs[i])

(***************************************************************************)
(* Structured is the conjunction of the four invariants.                   *)
(***************************************************************************)
LEMMA StructureIs ==
    ASSUME TypeOK
    PROVE  Structure <=> Structured(cycles, next_cycle, tx_epoch)
<1>1. cycles \in Seq(Cycle) /\ DOMAIN cycles = 1 .. Len(cycles)
  BY DEF TypeOK
<1>2. cycles # <<>> => Head(cycles) = cycles[1]
  BY <1>1
<1>3. ConsecutiveIds <=> /\ Len(cycles) <= next_cycle
                         /\ \A i \in 1 .. Len(cycles) :
                               cycles[i].id = (next_cycle - Len(cycles)) + i
  BY <1>1 DEF ConsecutiveIds
<1>4. LaterCyclesUnanswered <=> \A i \in 2 .. Len(cycles) : Unanswered(cycles[i])
  BY DEF LaterCyclesUnanswered, Unanswered
<1>5. EpochBound <=> tx_epoch <= (next_cycle - Len(cycles))
                       + (IF cycles # <<>> /\ cycles[1].epoch_allocated THEN 1 ELSE 0)
  BY <1>2 DEF EpochBound
<1>6. SimpleCyclesAlone <=> \A i \in 1 .. Len(cycles) : Alone(cycles[i])
  BY <1>1 DEF SimpleCyclesAlone, Alone
<1> QED BY <1>3, <1>4, <1>5, <1>6 DEF Structure, Structured

(***************************************************************************)
(* Opening a cycle keeps the structure; the epoch may be allocated to it   *)
(* when it is the only one.                                                *)
(***************************************************************************)
LEMMA AppendStructured ==
    ASSUME NEW cs \in Seq(Cycle), NEW n \in Nat, NEW e \in Nat, Structured(cs, n, e),
           NEW d \in Cycle, d.id = n + 1, Alone(d), cs # <<>> => Unanswered(d),
           NEW e2 \in Nat,
           \/ e2 = e
           \/ e2 = e + 1 /\ cs = <<>> /\ d.epoch_allocated
    PROVE  Structured(Append(cs, d), n + 1, e2)
<1> DEFINE q == Append(cs, d)
<1>1. /\ q \in Seq(Cycle) /\ Len(q) = Len(cs) + 1 /\ Len(cs) \in Nat /\ q # <<>>
      /\ \A i \in 1 .. Len(cs) : q[i] = cs[i]
      /\ q[Len(cs) + 1] = d
  BY AppendProperties
<1>2. cs = <<>> <=> Len(cs) = 0
  OBVIOUS
<1> HIDE DEF q
<1>3. Len(q) <= n + 1 /\ \A i \in 1 .. Len(q) : q[i].id = ((n + 1) - Len(q)) + i
  <2>1. Len(cs) <= n /\ \A i \in 1 .. Len(cs) : cs[i].id = (n - Len(cs)) + i
    BY DEF Structured
  <2>2. \A i \in 1 .. Len(cs) : q[i].id = ((n + 1) - Len(q)) + i
    BY <1>1, <2>1
  <2>3. q[Len(q)].id = ((n + 1) - Len(q)) + Len(q)
    BY <1>1, <2>1
  <2> QED BY <1>1, <2>1, <2>2, <2>3
<1>4. \A i \in 2 .. Len(q) : Unanswered(q[i])
  BY <1>1, <1>2 DEF Structured
<1>5. e2 <= ((n + 1) - Len(q)) + (IF q # <<>> /\ q[1].epoch_allocated THEN 1 ELSE 0)
  <2>1. CASE cs = <<>>
    BY <1>1, <1>2, <2>1 DEF Structured
  <2>2. CASE cs # <<>>
    <3>1. q[1] = cs[1]
      BY <1>1, <1>2, <2>2
    <3> QED BY <1>1, <2>2, <3>1 DEF Structured
  <2> QED BY <2>1, <2>2
<1>6. ASSUME NEW i \in 1 .. Len(q) PROVE Alone(q[i])
  <2>1. i \in 1 .. Len(cs) \/ i = Len(cs) + 1
    BY <1>1
  <2>2. \A j \in 1 .. Len(cs) : Alone(cs[j])
    BY DEF Structured
  <2> QED BY <1>1, <2>1, <2>2
<1>7. Structured(q, n + 1, e2)
  BY <1>3, <1>4, <1>5, <1>6 DEF Structured
<1> QED BY <1>7 DEF q

(***************************************************************************)
(* Changing one cycle keeps the structure when it keeps its id, stays      *)
(* alone if simple and, if it is not the oldest, stays unanswered.         *)
(***************************************************************************)
LEMMA ReplaceStructured ==
    ASSUME NEW cs \in Seq(Cycle), NEW n \in Nat, NEW e \in Nat, Structured(cs, n, e),
           NEW k \in 1 .. Len(cs), NEW d \in Cycle, d.id = cs[k].id, Alone(d),
           k # 1 => Unanswered(d), NEW e2 \in Nat,
           \/ e2 = e /\ (cs[k].epoch_allocated => d.epoch_allocated)
           \/ e2 = e + 1 /\ k = 1 /\ ~cs[k].epoch_allocated /\ d.epoch_allocated
    PROVE  Structured([cs EXCEPT ![k] = d], n, e2)
<1> DEFINE q == [cs EXCEPT ![k] = d]
<1>1. /\ q \in Seq(Cycle) /\ Len(q) = Len(cs) /\ Len(cs) \in Nat /\ q # <<>> /\ cs # <<>>
      /\ \A i \in 1 .. Len(cs) : q[i] = IF i = k THEN d ELSE cs[i]
  BY ReplaceType
<1> HIDE DEF q
<1>2. Len(q) <= n /\ \A i \in 1 .. Len(q) : q[i].id = (n - Len(q)) + i
  BY <1>1 DEF Structured
<1>3. \A i \in 2 .. Len(q) : Unanswered(q[i])
  BY <1>1 DEF Structured
<1>4. e2 <= (n - Len(q)) + (IF q # <<>> /\ q[1].epoch_allocated THEN 1 ELSE 0)
  <2>1. 1 \in 1 .. Len(cs) /\ e <= (n - Len(cs)) + (IF cs[1].epoch_allocated THEN 1 ELSE 0)
    BY <1>1 DEF Structured
  <2>2. CASE k = 1
    BY <1>1, <2>1, <2>2
  <2>3. CASE k # 1
    BY <1>1, <2>1, <2>3
  <2> QED BY <2>2, <2>3
<1>5. \A i \in 1 .. Len(q) : Alone(q[i])
  <2>1. \A i \in 1 .. Len(cs) : Alone(cs[i])
    BY DEF Structured
  <2> QED BY <1>1, <2>1
<1> QED BY <1>2, <1>3, <1>4, <1>5 DEF Structured, q

(***************************************************************************)
(* ReadyForQuery removes the oldest cycle and keeps the structure.         *)
(***************************************************************************)
LEMMA RestStructured ==
    ASSUME NEW cs \in Seq(Cycle), NEW n \in Nat, NEW e \in Nat, Structured(cs, n, e)
    PROVE  Structured(Rest(cs), n, e)
<1>1. CASE cs = <<>>
  BY <1>1 DEF Rest
<1>2. CASE cs # <<>>
  <2> DEFINE q == Tail(cs)
  <2>1. /\ q \in Seq(Cycle) /\ Len(cs) \in Nat /\ Len(q) = Len(cs) - 1 /\ Len(q) \in Nat
        /\ \A i \in 1 .. Len(q) : q[i] = cs[i + 1]
    BY <1>2
  <2>2. Rest(cs) = q
    BY <1>2 DEF Rest
  <2> HIDE DEF q
  <2>3. Len(q) <= n /\ \A i \in 1 .. Len(q) : q[i].id = (n - Len(q)) + i
    <3>1. Len(cs) <= n /\ \A i \in 1 .. Len(cs) : cs[i].id = (n - Len(cs)) + i
      BY DEF Structured
    <3>2. ASSUME NEW i \in 1 .. Len(q) PROVE q[i].id = (n - Len(q)) + i
      <4>1. i + 1 \in 1 .. Len(cs) /\ q[i] = cs[i + 1]
        BY <2>1
      <4>2. cs[i + 1].id = (n - Len(cs)) + (i + 1)
        BY <3>1, <4>1
      <4> QED BY <2>1, <4>1, <4>2
    <3> QED BY <2>1, <3>1, <3>2
  <2>4. ASSUME NEW i \in 2 .. Len(q) PROVE Unanswered(q[i])
    <3>1. i + 1 \in 2 .. Len(cs) /\ i \in 1 .. Len(q)
      BY <2>1
    <3> QED BY <2>1, <3>1 DEF Structured
  <2>5. e <= (n - Len(q)) + (IF q # <<>> /\ q[1].epoch_allocated THEN 1 ELSE 0)
    BY <2>1 DEF Structured
  <2>6. ASSUME NEW i \in 1 .. Len(q) PROVE Alone(q[i])
    <3>1. i + 1 \in 1 .. Len(cs) /\ q[i] = cs[i + 1]
      BY <2>1
    <3> QED BY <3>1 DEF Structured
  <2> QED BY <2>2, <2>3, <2>4, <2>5, <2>6 DEF Structured
<1> QED BY <1>1, <1>2

(***************************************************************************)
(* What cycle(extended) returns: an extended cycle for extended work (an   *)
(* unsealed cycle is not a simple one), a fresh one for a simple query.    *)
(***************************************************************************)
LEMMA OpenedCycle ==
    ASSUME TypeOK, Structure, NEW extended \in BOOLEAN
    PROVE  /\ Back(CyclesWith(extended)).extended = extended
           /\ ~extended => Back(CyclesWith(extended)) = FreshCycle(next_cycle + 1, FALSE)
<1>1. cycles \in Seq(Cycle) /\ next_cycle \in Nat
  BY DEF TypeOK
<1>2. CASE OpensCycle(extended)
  <2>1. FreshCycle(next_cycle + 1, extended) \in Cycle
    BY <1>1, FreshCycleType
  <2>2. Back(CyclesWith(extended)) = FreshCycle(next_cycle + 1, extended)
    BY <1>1, <1>2, <2>1, AppendProperties DEF CyclesWith, Back
  <2>3. FreshCycle(next_cycle + 1, extended).extended = extended
    BY DEF FreshCycle
  <2> QED BY <2>2, <2>3
<1>3. CASE ~OpensCycle(extended)
  <2>1. extended = TRUE /\ cycles # <<>> /\ ~Back(cycles).sealed
    BY <1>3 DEF OpensCycle
  <2>2. CyclesWith(extended) = cycles
    BY <1>3 DEF CyclesWith
  <2>3. Len(cycles) \in 1 .. Len(cycles) /\ cycles[Len(cycles)] \in Cycle
    BY <1>1, <2>1, EndsType
  <2>4. Alone(Back(cycles))
    BY <2>3, StructureIs DEF Structured, Back
  <2>5. Back(cycles).extended \in BOOLEAN
    BY <2>3 DEF Cycle, Back
  <2> QED BY <2>1, <2>2, <2>4, <2>5 DEF Alone
<1> QED BY <1>2, <1>3

(***************************************************************************)
(* Replacing the element just appended is appending the replacement.       *)
(***************************************************************************)
LEMMA AppendReplace ==
    ASSUME NEW S, NEW q \in Seq(S), NEW a \in S, NEW b \in S
    PROVE  LET p == Append(q, a) IN [p EXCEPT ![Len(p)] = b] = Append(q, b)
<1> DEFINE p == Append(q, a)
           r == [p EXCEPT ![Len(p)] = b]
           t == Append(q, b)
<1>1. /\ p \in Seq(S) /\ Len(p) = Len(q) + 1 /\ Len(q) \in Nat
      /\ \A i \in 1 .. Len(q) : p[i] = q[i]
  BY AppendProperties
<1>2. /\ t \in Seq(S) /\ Len(t) = Len(q) + 1 /\ t[Len(q) + 1] = b
      /\ \A i \in 1 .. Len(q) : t[i] = q[i]
  BY AppendProperties
<1>3. /\ r \in Seq(S) /\ Len(r) = Len(q) + 1
      /\ \A i \in 1 .. Len(q) + 1 : r[i] = IF i = Len(q) + 1 THEN b ELSE p[i]
  <2>1. Len(p) \in 1 .. Len(p)
    BY <1>1
  <2> HIDE DEF p
  <2> QED BY <1>1, <2>1, ReplaceType
<1> HIDE DEF p, r, t
<1>4. \A i \in 1 .. Len(q) + 1 : r[i] = t[i]
  BY <1>1, <1>2, <1>3
<1>5. r = t
  BY <1>2, <1>3, <1>4, SeqEqual
<1> QED BY <1>5 DEF r, t, p

(***************************************************************************)
(* A fresh cycle is unanswered, and its other fields are empty.            *)
(***************************************************************************)
LEMMA FreshCycleFields ==
    ASSUME NEW id, NEW extended
    PROVE  LET c == FreshCycle(id, extended) IN
             /\ c.id = id /\ Unanswered(c) /\ c.extended = extended /\ c.sealed = ~extended
             /\ c.executions = 0 /\ c.statements = <<>> /\ c.mutations = <<>>
BY DEF FreshCycle, Unanswered

(***************************************************************************)
(* Frontend work keeps the structure: it updates the cycle that            *)
(* cycle(extended) returns without answering it, and allocates an epoch    *)
(* only to a cycle that is alone in the queue and has none.                *)
(***************************************************************************)
SameAnswers(b, d) ==
    /\ d.id = b.id /\ d.rows = b.rows /\ d.command = b.command
    /\ d.error = b.error /\ d.last = b.last
    /\ d.statement_index = b.statement_index /\ d.extended = b.extended

LEMMA WorkStructured ==
    ASSUME TypeOK, Structure, NEW extended \in BOOLEAN,
           NEW b, b = Back(CyclesWith(extended)),
           NEW d \in Cycle, SameAnswers(b, d), ~extended => Alone(d),
           NEW e2 \in Nat,
           \/ e2 = tx_epoch /\ d.epoch_allocated = b.epoch_allocated
           \/ /\ e2 = tx_epoch + 1 /\ Len(CyclesWith(extended)) = 1
              /\ ~b.epoch_allocated /\ d.epoch_allocated
    PROVE  Structured(SetBack(CyclesWith(extended), d), IdsWith(extended), e2)
<1>1. /\ cycles \in Seq(Cycle) /\ next_cycle \in Nat /\ tx_epoch \in Nat
      /\ Structured(cycles, next_cycle, tx_epoch)
  BY StructureIs DEF TypeOK
<1>2. Alone(d)
  BY OpenedCycle DEF Alone, SameAnswers
<1>3. CASE OpensCycle(extended)
  <2> DEFINE fresh == FreshCycle(next_cycle + 1, extended)
  <2>1. /\ fresh \in Cycle /\ CyclesWith(extended) = Append(cycles, fresh)
        /\ IdsWith(extended) = next_cycle + 1
    BY <1>1, <1>3, FreshCycleType DEF CyclesWith, IdsWith
  <2>2. fresh.id = next_cycle + 1 /\ Unanswered(fresh)
    BY FreshCycleFields
  <2> HIDE DEF fresh
  <2>3. b = fresh /\ Len(CyclesWith(extended)) = Len(cycles) + 1
    BY <1>1, <2>1, AppendProperties DEF Back
  <2>4. SetBack(CyclesWith(extended), d) = Append(cycles, d)
    BY <1>1, <2>1, AppendReplace DEF SetBack
  <2>5. d.id = next_cycle + 1 /\ (e2 = tx_epoch => Unanswered(d))
    <3>1. /\ b \in Cycle
          /\ e2 = tx_epoch => d.epoch_allocated = b.epoch_allocated
      BY <1>1, <2>1, <2>3
    <3>2. d.epoch_allocated \in BOOLEAN /\ b.epoch_allocated \in BOOLEAN
      BY <3>1 DEF Cycle
    <3>3. d.id = next_cycle + 1
      BY <2>2, <2>3 DEF SameAnswers
    <3>4. e2 = tx_epoch => ~d.epoch_allocated
      BY <2>2, <2>3, <3>1, <3>2, Zenon DEF Unanswered
    <3>5. ~d.error
      BY <2>2, <2>3, Zenon DEF Unanswered, SameAnswers
    <3> QED BY <2>2, <2>3, <3>3, <3>4, <3>5 DEF Unanswered, SameAnswers
  <2>6. cycles # <<>> => e2 = tx_epoch
    <3>1. cycles # <<>> => Len(cycles) + 1 # 1
      BY <1>1
    <3> QED BY <2>3, <3>1
  <2>7. Structured(Append(cycles, d), next_cycle + 1, e2)
    <3>1. \/ e2 = tx_epoch
          \/ e2 = tx_epoch + 1 /\ cycles = <<>> /\ d.epoch_allocated
      BY <1>1, <2>6
    <3>2. cycles # <<>> => Unanswered(d)
      BY <2>5, <2>6
    <3> QED BY <1>1, <1>2, <2>5, <3>1, <3>2, AppendStructured
  <2> QED BY <2>1, <2>4, <2>7
<1>4. CASE ~OpensCycle(extended)
  <2>1. /\ CyclesWith(extended) = cycles /\ IdsWith(extended) = next_cycle
        /\ cycles # <<>> /\ b = cycles[Len(cycles)]
    BY <1>4 DEF CyclesWith, IdsWith, OpensCycle, Back
  <2>2. Len(cycles) \in 1 .. Len(cycles)
    BY <1>1, <2>1, EndsType
  <2>3. Len(cycles) # 1 => Unanswered(b)
    <3>1. \A i \in 2 .. Len(cycles) : Unanswered(cycles[i])
      BY <1>1 DEF Structured
    <3>2. Len(cycles) # 1 => Len(cycles) \in 2 .. Len(cycles)
      BY <1>1, <2>1, EndsType
    <3> QED BY <2>1, <3>1, <3>2
  <2>4. Len(cycles) # 1 => Unanswered(d)
    BY <1>1, <2>1, <2>3 DEF Unanswered, SameAnswers
  <2>5. Structured([cycles EXCEPT ![Len(cycles)] = d], next_cycle, e2)
    <3>1. d.id = cycles[Len(cycles)].id
      BY <2>1 DEF SameAnswers
    <3> QED BY <1>1, <1>2, <2>1, <2>2, <2>4, <3>1, ReplaceStructured
  <2> QED BY <2>1, <2>5 DEF SetBack
<1> QED BY <1>3, <1>4

(***************************************************************************)
(* cycle(extended) on its own, as a Parse or a Bind without effect calls   *)
(* it, keeps the structure.                                                *)
(***************************************************************************)
LEMMA OpenStructured ==
    ASSUME TypeOK, Structure
    PROVE  Structured(CyclesWith(TRUE), IdsWith(TRUE), tx_epoch)
<1> DEFINE cs == CyclesWith(TRUE)
           b == Back(cs)
<1>1. cs \in Seq(Cycle) /\ cs # <<>> /\ b \in Cycle /\ TRUE \in BOOLEAN
  <2>1. TRUE \in BOOLEAN
    OBVIOUS
  <2> QED BY <2>1, CyclesWithType
<1>2. SetBack(cs, b) = cs
  <2> HIDE DEF cs
  <2> QED BY <1>1 DEF SetBack, Back
<1>3. SameAnswers(b, b) /\ b = Back(CyclesWith(TRUE)) /\ tx_epoch \in Nat
  BY DEF SameAnswers, TypeOK
<1> HIDE DEF b
<1>4. Structured(SetBack(cs, b), IdsWith(TRUE), tx_epoch)
  BY <1>1, <1>3, WorkStructured
<1> QED BY <1>2, <1>4

(***************************************************************************)
(* So does recording a mutation or sealing the cycle.                      *)
(***************************************************************************)
LEMMA MutateStructured ==
    ASSUME TypeOK, Structure, NEW m \in Mutation
    PROVE  /\ Structured(PushMutation(CyclesWith(TRUE), m), IdsWith(TRUE), tx_epoch)
           /\ LET cs == CyclesWith(TRUE) IN
              Structured([cs EXCEPT ![Len(cs)].sealed = TRUE], IdsWith(TRUE), tx_epoch)
<1> DEFINE cs == CyclesWith(TRUE)
           b == Back(cs)
           d1 == [b EXCEPT !.mutations = Append(@, m)]
           d2 == [b EXCEPT !.sealed = TRUE]
<1>1. b \in Cycle /\ TRUE \in BOOLEAN /\ tx_epoch \in Nat
  <2>1. TRUE \in BOOLEAN /\ tx_epoch \in Nat
    BY DEF TypeOK
  <2> QED BY <2>1, CyclesWithType
<1>2. PushMutation(cs, m) = SetBack(cs, d1) /\ [cs EXCEPT ![Len(cs)].sealed = TRUE] = SetBack(cs, d2)
  BY DEF PushMutation, SetBack, Back
<1>3. b = Back(CyclesWith(TRUE))
  OBVIOUS
<1> HIDE DEF b
<1>4. d1 \in Cycle /\ SameAnswers(b, d1) /\ d1.epoch_allocated = b.epoch_allocated
  BY <1>1, AppendProperties DEF Cycle, SameAnswers
<1>5. d2 \in Cycle /\ SameAnswers(b, d2) /\ d2.epoch_allocated = b.epoch_allocated
  BY <1>1 DEF Cycle, SameAnswers
<1> HIDE DEF d1, d2
<1>6. Structured(SetBack(cs, d1), IdsWith(TRUE), tx_epoch)
  BY <1>1, <1>3, <1>4, WorkStructured
<1>7. Structured(SetBack(cs, d2), IdsWith(TRUE), tx_epoch)
  BY <1>1, <1>3, <1>5, WorkStructured
<1> QED BY <1>2, <1>6, <1>7

(***************************************************************************)
(* Query and Execute keep the structure: the epoch rule of frontend()      *)
(* allocates to a cycle that is alone and has none, and a Query runs in a  *)
(* fresh cycle of its own.                                                 *)
(***************************************************************************)
LEMMA StartStructured ==
    ASSUME TypeOK, Structure, NEW received, NEW s \in Statement, NEW extended \in BOOLEAN,
           StartStatement(received, s, extended)
    PROVE  Structured(cycles', next_cycle', tx_epoch')
<1> DEFINE opened == CyclesWith(extended)
           b == Back(opened)
           alloc == AllocatesEpoch(opened)
           d == [b EXCEPT !.statements = Append(@, s), !.executions = @ + 1,
                          !.epoch_allocated = @ \/ alloc]
<1>1. /\ opened \in Seq(Cycle) /\ opened # <<>> /\ b \in Cycle /\ tx_epoch \in Nat
      /\ b = Back(CyclesWith(extended))
  BY CyclesWithType DEF TypeOK
<1>2. /\ cycles' = SetBack(opened, d) /\ next_cycle' = IdsWith(extended)
      /\ tx_epoch' = IF alloc THEN tx_epoch + 1 ELSE tx_epoch
  BY DEF StartStatement
<1>3. alloc => Len(opened) = 1 /\ ~b.epoch_allocated
  BY <1>1, EndsType DEF AllocatesEpoch, Back
<1>4. ~extended => b = FreshCycle(next_cycle + 1, FALSE)
  BY OpenedCycle
<1> HIDE DEF opened, b, alloc
<1>5. /\ b.statements \in Seq(Statement) /\ b.executions \in Nat
      /\ b.epoch_allocated \in BOOLEAN
  BY <1>1 DEF Cycle
<1>6. /\ Append(b.statements, s) \in Seq(Statement) /\ b.executions + 1 \in Nat
      /\ (b.epoch_allocated \/ alloc) \in BOOLEAN
  BY <1>5, AppendProperties
<1>7. /\ d \in Cycle /\ SameAnswers(b, d) /\ d.sealed = b.sealed
      /\ d.mutations = b.mutations /\ d.executions = b.executions + 1
      /\ d.statements = Append(b.statements, s)
  BY <1>1, <1>6 DEF Cycle, SameAnswers
<1>8. d.epoch_allocated = (b.epoch_allocated \/ alloc)
  BY <1>1 DEF Cycle
<1> HIDE DEF d
<1>9. ~extended => Alone(d)
  <2>1. SUFFICES ASSUME ~extended PROVE Alone(d)
    OBVIOUS
  <2>2. /\ b.sealed /\ b.executions = 0 /\ b.statements = <<>> /\ b.mutations = <<>>
        /\ b.statement_index = 0
    <3>1. LET c == FreshCycle(next_cycle + 1, FALSE) IN
            /\ c.sealed /\ c.executions = 0 /\ c.statements = <<>> /\ c.mutations = <<>>
            /\ c.statement_index = 0
      BY DEF FreshCycle
    <3>2. b = FreshCycle(next_cycle + 1, FALSE)
      BY <1>4, <2>1
    <3> QED BY <3>1, <3>2, Zenon
  <2>3. Len(Append(<<>>, s)) = 1
    OBVIOUS
  <2>4. d.sealed
    BY <1>7, <2>2, Zenon
  <2>5. d.executions = 1 /\ d.statement_index = 0 /\ d.mutations = <<>>
    BY <1>7, <2>2 DEF SameAnswers
  <2>6. Len(d.statements) <= 1
    BY <1>7, <2>2, <2>3
  <2> QED BY <2>4, <2>5, <2>6 DEF Alone
<1>10. CASE alloc
  <2>1. tx_epoch' = tx_epoch + 1 /\ tx_epoch + 1 \in Nat /\ d.epoch_allocated
    <3>1. d.epoch_allocated
      BY <1>8, <1>10, Zenon
    <3> QED BY <1>1, <1>2, <1>10, <3>1
  <2>2. Structured(SetBack(CyclesWith(extended), d), IdsWith(extended), tx_epoch + 1)
    BY <1>1, <1>3, <1>7, <1>9, <1>10, <2>1, WorkStructured DEF opened
  <2> QED BY <1>2, <2>1, <2>2 DEF opened
<1>11. CASE ~alloc
  <2>1. tx_epoch' = tx_epoch /\ d.epoch_allocated = b.epoch_allocated
    BY <1>2, <1>5, <1>8, <1>11
  <2>2. Structured(SetBack(CyclesWith(extended), d), IdsWith(extended), tx_epoch)
    BY <1>1, <1>7, <1>9, <2>1, WorkStructured
  <2> QED BY <1>2, <2>1, <2>2 DEF opened
<1> QED BY <1>10, <1>11

(***************************************************************************)
(* frontend() keeps the structure, whatever the frame.                     *)
(***************************************************************************)
LEMMA FrontendStructured ==
    ASSUME TypeOK, Structure, NEW f \in FrontendFrame, Frontend(f)
    PROVE  Structured(cycles', next_cycle', tx_epoch')
<1>0. Structured(CyclesWith(TRUE), IdsWith(TRUE), tx_epoch)
  BY OpenStructured
<1>1. CASE FrontendParse(f)
  <2>1. f.name \in Name /\ f.sql \in Statement
    BY <1>1, FrontendFields DEF FrontendParse
  <2>2. [op |-> "Parse", kind |-> "S", name |-> f.name, stmt |-> f.sql] \in Mutation
    BY <2>1 DEF Mutation
  <2> QED BY <1>0, <1>1, <2>2, MutateStructured DEF FrontendParse
<1>2. CASE FrontendBind(f)
  <2>1. f.stmt \in Name /\ f.portal \in Name \cup {None}
    BY <1>2, FrontendFields DEF FrontendBind
  <2>2. f.portal # None => [op |-> "Bind", kind |-> "P", name |-> f.portal,
                            stmt |-> prepared[f.stmt]] \in Mutation
    BY <2>1 DEF Mutation, TypeOK
  <2> QED BY <1>0, <1>2, <2>2, MutateStructured DEF FrontendBind
<1>3. CASE FrontendClose(f)
  <2>1. f.kind \in {"S", "P", "?"} /\ f.name \in Name
    BY <1>3, FrontendFields DEF FrontendClose
  <2>2. [op |-> "Close", kind |-> f.kind, name |-> f.name, stmt |-> NoSql] \in Mutation
    BY <2>1, NoSqlType DEF Mutation
  <2> QED BY <1>3, <2>2, MutateStructured DEF FrontendClose
<1>4. CASE FrontendQuery(f)
  <2>1. f.sql \in Statement
    BY <1>4, FrontendFields DEF FrontendQuery
  <2> QED BY <1>4, <2>1, StartStructured DEF FrontendQuery
<1>5. CASE FrontendExecute(f)
  <2>1. (IF f.portal = None THEN NoSql ELSE portals[f.portal]) \in Statement
    BY <1>5, FrontendFields, NoSqlType DEF FrontendExecute, TypeOK
  <2> QED BY <1>5, <2>1, StartStructured DEF FrontendExecute
<1>6. CASE FrontendSync(f)
  <2>1. [op |-> "Close", kind |-> "S", name |-> Unnamed, stmt |-> NoSql] \in Mutation
    BY NameAssumption, NoSqlType DEF Mutation
  <2> QED BY <1>6, <2>1, MutateStructured DEF FrontendSync
<1>7. CASE FrontendOther(f)
  BY <1>7, StructureIs DEF FrontendOther
<1> QED BY <1>1, <1>2, <1>3, <1>4, <1>5, <1>6, <1>7 DEF Frontend

(***************************************************************************)
(* A reply keeps the structure when what it changes of the oldest cycle    *)
(* are its answers.                                                        *)
(***************************************************************************)
LEMMA FrontStructured ==
    ASSUME TypeOK, Structure, NEW d, cycles # <<>> => /\ d \in Cycle /\ Alone(d)
                                                     /\ d.id = cycles[1].id
                                                     /\ d.epoch_allocated = cycles[1].epoch_allocated
    PROVE  Structured(SetFront(d), next_cycle, tx_epoch)
<1>1. /\ cycles \in Seq(Cycle) /\ next_cycle \in Nat /\ tx_epoch \in Nat
      /\ Structured(cycles, next_cycle, tx_epoch)
  BY StructureIs DEF TypeOK
<1>2. CASE cycles = <<>>
  BY <1>1, <1>2 DEF SetFront
<1>3. CASE cycles # <<>>
  <2>1. 1 \in 1 .. Len(cycles) /\ cycles[1].epoch_allocated => d.epoch_allocated
    BY <1>1, <1>3, EndsType, Zenon
  <2>2. Structured([cycles EXCEPT ![1] = d], next_cycle, tx_epoch)
    <3>1. 1 \in 1 .. Len(cycles)
      BY <1>1, <1>3, EndsType
    <3> QED BY <1>1, <1>3, <2>1, <3>1, ReplaceStructured
  <2> QED BY <1>3, <2>2 DEF SetFront
<1> QED BY <1>2, <1>3

(***************************************************************************)
(* Finishing a statement leaves a simple cycle alone.                      *)
(***************************************************************************)
LEMMA FinishAlone ==
    ASSUME NEW c \in Cycle, Alone(c), NEW command \in CommandTag
    PROVE  /\ Alone(Finish(c)) /\ Finish(c).id = c.id
           /\ Finish(c).epoch_allocated = c.epoch_allocated
           /\ LET d == Finish(c)
                  e == [d EXCEPT !.command = command,
                                 !.statement_index = IF d.extended THEN @ + 1 ELSE @]
              IN  Alone(e) /\ e.id = c.id /\ e.epoch_allocated = c.epoch_allocated
<1> DEFINE d == Finish(c)
           e == [d EXCEPT !.command = command,
                          !.statement_index = IF d.extended THEN @ + 1 ELSE @]
<1>1. d \in Cycle
  BY FinishType
<1>2. /\ d.id = c.id /\ d.epoch_allocated = c.epoch_allocated /\ d.extended = c.extended
      /\ d.sealed = c.sealed /\ d.executions = c.executions /\ d.mutations = c.mutations
      /\ d.statement_index = c.statement_index /\ d.statements = Rest(c.statements)
  BY DEF Finish, Cycle
<1> HIDE DEF d
<1>3. /\ e.id = d.id /\ e.epoch_allocated = d.epoch_allocated /\ e.extended = d.extended
      /\ e.sealed = d.sealed /\ e.executions = d.executions /\ e.mutations = d.mutations
      /\ e.statement_index = (IF d.extended THEN d.statement_index + 1 ELSE d.statement_index)
      /\ e.statements = d.statements
  BY <1>1 DEF Cycle
<1> HIDE DEF e
<1>4. Len(c.statements) <= 1 => Len(Rest(c.statements)) <= 1
  <2>1. c.statements \in Seq(Statement)
    BY DEF Cycle
  <2>2. CASE c.statements = <<>>
    BY <2>2 DEF Rest
  <2>3. CASE c.statements # <<>>
    <3>1. Len(Tail(c.statements)) = Len(c.statements) - 1 /\ Len(c.statements) \in Nat
      BY <2>1, <2>3, HeadTailProperties
    <3> QED BY <2>3, <3>1 DEF Rest
  <2> QED BY <2>2, <2>3
<1>5. Alone(d)
  BY <1>2, <1>4, Zenon DEF Alone
<1>6. Alone(e)
  <2>1. ~e.extended => ~d.extended
    BY <1>3, Zenon
  <2>2. ~d.extended => e.statement_index = d.statement_index
    BY <1>3, Zenon
  <2> QED BY <1>3, <1>5, <2>1, <2>2, Zenon DEF Alone
<1> QED BY <1>2, <1>3, <1>5, <1>6, Zenon DEF d, e

(***************************************************************************)
(* backend() keeps the structure, whatever the frame.                      *)
(***************************************************************************)
LEMMA BackendStructured ==
    ASSUME TypeOK, Structure, NEW f \in BackendFrame, Backend(f)
    PROVE  Structured(cycles', next_cycle', tx_epoch')
<1> DEFINE c == Head(cycles)
<1>0. /\ cycles \in Seq(Cycle) /\ next_cycle \in Nat /\ tx_epoch \in Nat
      /\ Structured(cycles, next_cycle, tx_epoch)
      /\ cycles # <<>> => c \in Cycle /\ c = cycles[1] /\ Alone(c)
  <2>1. /\ cycles \in Seq(Cycle) /\ next_cycle \in Nat /\ tx_epoch \in Nat
        /\ Structured(cycles, next_cycle, tx_epoch)
    BY StructureIs DEF TypeOK
  <2>2. cycles # <<>> => c \in Cycle /\ c = cycles[1] /\ 1 \in 1 .. Len(cycles)
    BY <2>1, EndsType
  <2> QED BY <2>1, <2>2 DEF Structured
<1> HIDE DEF c
<1>1. CASE BackendParameterStatus(f) \/ BackendRowDescription(f) \/ BackendOther(f)
  BY <1>0, <1>1 DEF BackendParameterStatus, BackendRowDescription, BackendOther
<1>2. CASE BackendAcknowledge(f)
  <2>1. CASE Unacknowledged # <<>>
    <3> DEFINE d == [cycles[1] EXCEPT !.mutations = Tail(@)]
    <3>1. cycles # <<>> /\ c.mutations # <<>> /\ c \in Cycle /\ c = cycles[1] /\ Alone(c)
      BY <1>0, <2>1 DEF Unacknowledged, c
    <3>2. c.mutations \in Seq(Mutation)
      BY <3>1 DEF Cycle
    <3>3. Tail(c.mutations) \in Seq(Mutation)
      BY <3>1, <3>2
    <3>4. /\ d \in Cycle /\ d.id = cycles[1].id /\ d.extended = cycles[1].extended
          /\ d.epoch_allocated = cycles[1].epoch_allocated
      BY <3>1, <3>3 DEF Cycle
    <3>5. cycles' = SetFront(d)
      BY <1>2, <2>1, <3>1 DEF BackendAcknowledge, SetFront
    <3> HIDE DEF d
    <3>6. Alone(d)
      BY <3>1, <3>4, Zenon DEF Alone
    <3>7. Structured(SetFront(d), next_cycle, tx_epoch)
      BY <3>4, <3>6, FrontStructured
    <3> QED BY <1>2, <3>5, <3>7 DEF BackendAcknowledge
  <2>2. CASE Unacknowledged = <<>>
    BY <1>0, <1>2, <2>2 DEF BackendAcknowledge
  <2> QED BY <2>1, <2>2
<1>3. CASE BackendDataRow(f)
  <2> DEFINE d == [c EXCEPT !.rows = @ + 1]
  <2>1. cycles # <<>> => /\ d \in Cycle /\ d.id = c.id /\ d.epoch_allocated = c.epoch_allocated
                         /\ d.extended = c.extended /\ d.sealed = c.sealed
                         /\ d.executions = c.executions /\ d.statements = c.statements
                         /\ d.mutations = c.mutations /\ d.statement_index = c.statement_index
    <3>1. cycles # <<>> => d \in Cycle
      BY <1>0, ReplyType DEF CommandTag
    <3> QED BY <1>0, <3>1 DEF Cycle
  <2>2. cycles' = SetFront(d) /\ next_cycle' = next_cycle /\ tx_epoch' = tx_epoch
    BY <1>3 DEF BackendDataRow, c
  <2> HIDE DEF d
  <2>3. cycles # <<>> => Alone(d)
    BY <1>0, <2>1, Zenon DEF Alone
  <2> QED BY <1>0, <2>1, <2>2, <2>3, FrontStructured
<1>4. CASE BackendError(f)
  <2> DEFINE d == [c EXCEPT !.error = TRUE, !.mutations = <<>>]
  <2>1. cycles # <<>> => /\ d \in Cycle /\ d.id = c.id /\ d.epoch_allocated = c.epoch_allocated
                         /\ d.extended = c.extended /\ d.sealed = c.sealed
                         /\ d.executions = c.executions /\ d.statements = c.statements
                         /\ d.mutations = <<>> /\ d.statement_index = c.statement_index
    <3>1. cycles # <<>> => d \in Cycle
      BY <1>0, ReplyType DEF CommandTag
    <3> QED BY <1>0, <3>1 DEF Cycle
  <2>2. cycles' = SetFront(d) /\ next_cycle' = next_cycle /\ tx_epoch' = tx_epoch
    BY <1>4 DEF BackendError, c
  <2> HIDE DEF d
  <2>3. cycles # <<>> => Alone(d)
    BY <1>0, <2>1, Zenon DEF Alone
  <2> QED BY <1>0, <2>1, <2>2, <2>3, FrontStructured
<1>5. CASE BackendPortalSuspended(f)
  <2>1. cycles # <<>> => /\ Finish(c) \in Cycle /\ Alone(Finish(c)) /\ Finish(c).id = c.id
                         /\ Finish(c).epoch_allocated = c.epoch_allocated
    BY <1>0, FinishType, FinishAlone DEF CommandTag
  <2>2. cycles' = SetFront(Finish(c)) /\ next_cycle' = next_cycle /\ tx_epoch' = tx_epoch
    BY <1>5 DEF BackendPortalSuspended, c
  <2> QED BY <1>0, <2>1, <2>2, FrontStructured
<1>6. CASE BackendCommandComplete(f)
  <2> DEFINE d == Finish(c)
             e == [d EXCEPT !.command = f.command,
                            !.statement_index = IF d.extended THEN @ + 1 ELSE @]
  <2>1. f.command \in CommandTag
    BY <1>6, BackendFields DEF BackendCommandComplete
  <2>2. cycles # <<>> => Alone(e) /\ e.id = c.id /\ e.epoch_allocated = c.epoch_allocated
    BY <1>0, <2>1, FinishAlone
  <2>3. cycles # <<>> => e \in Cycle
    <3>1. cycles # <<>> => d \in Cycle
      BY <1>0, FinishType
    <3> HIDE DEF d
    <3> QED BY <2>1, <3>1, ReplyType
  <2>4. cycles' = SetFront(e) /\ next_cycle' = next_cycle /\ tx_epoch' = tx_epoch
    BY <1>6 DEF BackendCommandComplete, c
  <2> HIDE DEF e
  <2> QED BY <1>0, <2>2, <2>3, <2>4, FrontStructured
<1>7. CASE BackendReady(f)
  <2>1. cycles' = Rest(cycles) /\ next_cycle' = next_cycle /\ tx_epoch' = tx_epoch
    BY <1>7 DEF BackendReady
  <2> QED BY <1>0, <2>1, RestStructured
<1> QED BY <1>1, <1>2, <1>3, <1>4, <1>5, <1>6, <1>7 DEF Backend

(***************************************************************************)
(* The structure of the cycle queue, for every sequence of frames: ids are *)
(* consecutive, replies touch only the oldest cycle, each cycle allocates  *)
(* at most one epoch and a simple query never shares its cycle.            *)
(***************************************************************************)
THEOREM StructureCorrect ==
    Spec => []Structure
<1>1. Init => Structure
  <2>1. Init => TypeOK
    BY NoSqlType, StartupAssumption DEF Init, TypeOK, TxState
  <2>2. Init => Structured(cycles, next_cycle, tx_epoch)
    BY DEF Init, Structured
  <2> QED BY <2>1, <2>2, StructureIs
<1>2. TypeOK /\ TypeOK' /\ Structure /\ [Next]_stateVars => Structure'
  <2> SUFFICES ASSUME TypeOK, TypeOK', Structure, [Next]_stateVars PROVE Structure'
    OBVIOUS
  <2>1. CASE UNCHANGED stateVars
    BY <2>1 DEF stateVars, Structure, ConsecutiveIds, LaterCyclesUnanswered, EpochBound,
                SimpleCyclesAlone
  <2>2. CASE Next
    <3>1. Structured(cycles', next_cycle', tx_epoch')
      BY <2>2, FrontendStructured, BackendStructured DEF Next
    <3>2. Structure' <=> Structured(cycles, next_cycle, tx_epoch)'
      BY StructureIs, PTL
    <3> QED BY <3>1, <3>2
  <2> QED BY <2>1, <2>2
<1> QED BY <1>1, <1>2, TypeCorrect, PTL DEF Spec

-----------------------------------------------------------------------------
(***************************************************************************)
(* Every frontend frame that is not ignored leaves a cycle outstanding.    *)
(***************************************************************************)
LEMMA FrontendOutstanding ==
    ASSUME TypeOK, NEW f \in FrontendFrame, Frontend(f)
    PROVE  cycles' # <<>> \/ FrontendOther(f)
<1>1. \A d : \A cs \in Seq(Cycle), i \in Nat : cs # <<>> => [cs EXCEPT ![i] = d] # <<>>
  <2>1. \A cs \in Seq(Cycle) : cs # <<>> => DOMAIN cs # {}
    BY EndsType
  <2>2. \A d : \A cs \in Seq(Cycle), i \in Nat : DOMAIN [cs EXCEPT ![i] = d] = DOMAIN cs
    OBVIOUS
  <2>3. DOMAIN <<>> = {}
    OBVIOUS
  <2> QED BY <2>1, <2>2, <2>3, Zenon
<1>2. \A extended \in BOOLEAN : /\ CyclesWith(extended) \in Seq(Cycle)
                                /\ CyclesWith(extended) # <<>>
                                /\ Len(CyclesWith(extended)) \in Nat
  BY CyclesWithType
<1>3. \A d : \A extended \in BOOLEAN : SetBack(CyclesWith(extended), d) # <<>>
  BY <1>1, <1>2 DEF SetBack
<1>4. TRUE \in BOOLEAN /\ FALSE \in BOOLEAN
  OBVIOUS
<1>5. \A m : PushMutation(CyclesWith(TRUE), m) # <<>>
  BY <1>3, <1>4 DEF PushMutation, SetBack
<1>6. CASE FrontendParse(f)
  BY <1>2, <1>4, <1>5, <1>6 DEF FrontendParse
<1>7. CASE FrontendBind(f)
  BY <1>2, <1>4, <1>5, <1>7 DEF FrontendBind
<1>8. CASE FrontendClose(f)
  BY <1>5, <1>8 DEF FrontendClose
<1>9. CASE FrontendQuery(f)
  BY <1>3, <1>4, <1>9 DEF FrontendQuery, StartStatement
<1>10. CASE FrontendExecute(f)
  BY <1>3, <1>4, <1>10 DEF FrontendExecute, StartStatement
<1>11. CASE FrontendSync(f)
  BY <1>3, <1>4, <1>11 DEF FrontendSync, SetBack
<1> QED BY <1>6, <1>7, <1>8, <1>9, <1>10, <1>11 DEF Frontend

(***************************************************************************)
(* Once every cycle has been answered, the speculative maps are the        *)
(* confirmed ones, whatever the server rejected or skipped.                *)
(***************************************************************************)
THEOREM QuiescentMapsCorrect == Spec => []QuiescentMapsConfirmed
<1>1. Init => QuiescentMapsConfirmed
  BY DEF Init, QuiescentMapsConfirmed
<1>2. TypeOK /\ QuiescentMapsConfirmed /\ [Next]_stateVars => QuiescentMapsConfirmed'
  <2> SUFFICES ASSUME TypeOK, QuiescentMapsConfirmed, [Next]_stateVars, cycles' = <<>>
               PROVE  prepared' = confirmed_prepared' /\ portals' = confirmed_portals'
    BY DEF QuiescentMapsConfirmed
  <2>1. CASE UNCHANGED stateVars
    BY <2>1 DEF stateVars, QuiescentMapsConfirmed
  <2>2. ASSUME NEW f \in FrontendFrame, Frontend(f)
        PROVE  prepared' = confirmed_prepared' /\ portals' = confirmed_portals'
    BY <2>2, FrontendOutstanding DEF FrontendOther, QuiescentMapsConfirmed
  <2>3. ASSUME NEW f \in BackendFrame, Backend(f)
        PROVE  prepared' = confirmed_prepared' /\ portals' = confirmed_portals'
    <3>1. \A d : SetFront(d) = <<>> => cycles = <<>>
      <4>1. cycles # <<>> => DOMAIN cycles # {}
        BY EndsType DEF TypeOK
      <4>2. \A d : DOMAIN [cycles EXCEPT ![1] = d] = DOMAIN cycles
        OBVIOUS
      <4>3. DOMAIN <<>> = {}
        OBVIOUS
      <4> QED BY <4>1, <4>2, <4>3, Zenon DEF SetFront
    <3>2. CASE BackendError(f)
      BY <3>2 DEF BackendError
    <3>3. CASE BackendReady(f)
      BY <3>3 DEF BackendReady, Speculation
    <3>4. CASE BackendAcknowledge(f)
      <4>1. CASE Unacknowledged = <<>>
        BY <3>4, <4>1 DEF BackendAcknowledge, QuiescentMapsConfirmed
      <4>2. CASE Unacknowledged # <<>>
        <5>1. cycles # <<>> /\ cycles' = [cycles EXCEPT ![1].mutations = Tail(@)]
          BY <3>4, <4>2 DEF BackendAcknowledge, Unacknowledged
        <5>2. cycles' = SetFront([cycles[1] EXCEPT !.mutations = Tail(@)])
          BY <5>1 DEF SetFront
        <5> QED BY <3>1, <5>1, <5>2
      <4> QED BY <4>1, <4>2
    <3>5. CASE BackendDataRow(f) \/ BackendCommandComplete(f) \/ BackendPortalSuspended(f)
      <4>1. cycles = <<>>
        BY <3>1, <3>5 DEF BackendDataRow, BackendCommandComplete, BackendPortalSuspended
      <4> QED BY <3>5, <4>1 DEF BackendDataRow, BackendCommandComplete, BackendPortalSuspended,
                                QuiescentMapsConfirmed
    <3>6. CASE BackendParameterStatus(f) \/ BackendRowDescription(f) \/ BackendOther(f)
      BY <3>6 DEF BackendParameterStatus, BackendRowDescription, BackendOther,
                  QuiescentMapsConfirmed
    <3> QED BY <2>3, <3>2, <3>3, <3>4, <3>5, <3>6 DEF Backend
  <2> QED BY <2>1, <2>2, <2>3 DEF Next
<1> QED BY <1>1, <1>2, TypeCorrect, PTL DEF Spec

(***************************************************************************)
(* The events of a call carry the names the call was given.                *)
(***************************************************************************)
LEMMA EventNames ==
    ASSUME NEW names, NEW cs, NEW epoch
    PROVE  /\ DOMAIN BackendEvents(names, cs) = DOMAIN names
           /\ \A k \in DOMAIN names : BackendEvents(names, cs)[k].event = names[k]
           /\ DOMAIN FrontendEvents(names, cs, epoch) = DOMAIN names
           /\ \A k \in DOMAIN names : FrontendEvents(names, cs, epoch)[k].event = names[k]
BY DEF BackendEvents, BackendEvent, FrontendEvents, FrontendEvent

(***************************************************************************)
(* Lost confidence comes back only with the ReadyForQuery that drains the  *)
(* pipeline, and until then no completion of a transaction is reported.    *)
(***************************************************************************)
THEOREM UnreliableCorrect == Spec => UnreliableUntilDrained
<1> DEFINE Silent(es) == \A k \in DOMAIN es : es[k].event \notin CompletedEvent
           Plain == EventName \ CompletedEvent
           Step == ~reliable => /\ reliable' => cycles' = <<>>
                                /\ Silent(events')
<1>1. \A cs, e : \A names \in Seq(Plain) : /\ Silent(BackendEvents(names, cs))
                                           /\ Silent(FrontendEvents(names, cs, e))
  <2> SUFFICES ASSUME NEW cs, NEW e, NEW names \in Seq(Plain)
               PROVE  Silent(BackendEvents(names, cs)) /\ Silent(FrontendEvents(names, cs, e))
    OBVIOUS
  <2>1. \A k \in DOMAIN names : names[k] \in Plain
    OBVIOUS
  <2> QED BY <2>1, EventNames
<1>2. Silent(<<>>)
  OBVIOUS
<1>3. {"query.received", "query.forwarded", "statement.execution_started",
       "statement.execution_completed", "transaction.begin.requested",
       "transaction.commit.requested", "transaction.rollback.requested",
       "transaction.failed", "result.started", "result.row", "result.completed",
       "connection.ready", "frontend.execute", "frontend.sync", "backend.error",
       "backend.command_complete", "backend.ready"} \subseteq Plain
  BY DEF EventName, CompletedEvent
<1> HIDE DEF Plain, Silent
<1>4. /\ \A n \in Plain : <<n>> \in Seq(Plain)
      /\ <<>> \in Seq(Plain)
      /\ \A a, b \in Seq(Plain) : a \o b \in Seq(Plain)
      /\ \A a, b, c \in Plain : <<a, b>> \in Seq(Plain) /\ <<a, b, c>> \in Seq(Plain)
  BY ConcatProperties
<1>5. ASSUME NEW f \in FrontendFrame, Frontend(f), ~reliable PROVE ~reliable' /\ Silent(events')
  <2>1. reliable' = reliable
    BY <1>5 DEF Frontend, FrontendParse, FrontendBind, FrontendClose, FrontendQuery,
                FrontendExecute, FrontendSync, FrontendOther
  <2>2. \A s : Requested(s) \in Seq(Plain)
    BY <1>3, <1>4 DEF Requested
  <2>3. \A s : /\ <<"query.received", "statement.execution_started">> \o Requested(s) \in Seq(Plain)
               /\ <<"frontend.execute", "statement.execution_started">> \o Requested(s) \in Seq(Plain)
    BY <1>3, <1>4, <2>2
  <2>4. CASE FrontendQuery(f)
    <3>1. events' = FrontendEvents(<<"query.received", "statement.execution_started">>
                                     \o Requested(f.sql), cycles', tx_epoch')
      BY <2>4 DEF FrontendQuery, StartStatement
    <3>2. Silent(events')
      BY <1>1, <2>3, <3>1, Zenon
    <3> QED BY <1>5, <2>1, <3>2
  <2>5. CASE FrontendExecute(f)
    <3>1. PICK s : events' = FrontendEvents(<<"frontend.execute", "statement.execution_started">>
                                              \o Requested(s), cycles', tx_epoch')
      BY <2>5 DEF FrontendExecute, StartStatement
    <3>2. Silent(events')
      BY <1>1, <2>3, <3>1, Zenon
    <3> QED BY <1>5, <2>1, <3>2
  <2>6. CASE FrontendSync(f)
    <3>1. <<"frontend.sync">> \in Seq(Plain)
      BY <1>3, <1>4
    <3>2. events' = FrontendEvents(<<"frontend.sync">>, cycles', tx_epoch)
      BY <2>6 DEF FrontendSync
    <3>3. Silent(events')
      BY <1>1, <3>1, <3>2, Zenon
    <3> QED BY <1>5, <2>1, <3>3
  <2>7. CASE FrontendParse(f) \/ FrontendBind(f) \/ FrontendClose(f) \/ FrontendOther(f)
    BY <1>2, <1>5, <2>1, <2>7 DEF FrontendParse, FrontendBind, FrontendClose, FrontendOther
  <2> QED BY <1>5, <2>4, <2>5, <2>6, <2>7 DEF Frontend
<1>6. ASSUME NEW f \in BackendFrame, Backend(f), ~reliable
      PROVE  (reliable' => cycles' = <<>>) /\ Silent(events')
  <2>1. CASE BackendReady(f)
    <3> DEFINE new == StatusOf(f)
               failed == IF new = "FailedTransaction" /\ tx_state # new
                         THEN "transaction.failed" ELSE None
               names == <<"backend.ready">> \o IfAny(failed) \o IfAny(Completed(new))
                          \o <<"connection.ready">>
    <3>1. Completed(new) = None
      BY <1>6 DEF Completed
    <3>2. IfAny(failed) \in Seq(Plain) /\ IfAny(Completed(new)) \in Seq(Plain)
      BY <1>3, <1>4, <3>1 DEF IfAny
    <3>3. names \in Seq(Plain)
      BY <1>3, <1>4, <3>2
    <3>4. events' = BackendEvents(names, cycles)
      BY <2>1 DEF BackendReady
    <3>5. reliable' => cycles' = <<>>
      BY <1>6, <2>1 DEF BackendReady, Trust
    <3> HIDE DEF names
    <3> QED BY <1>1, <3>3, <3>4, <3>5
  <2>2. CASE BackendAcknowledge(f)
    BY <1>2, <1>6, <2>2 DEF BackendAcknowledge
  <2>3. CASE BackendParameterStatus(f) \/ BackendPortalSuspended(f) \/ BackendOther(f)
    BY <1>2, <1>6, <2>3 DEF BackendParameterStatus, BackendPortalSuspended, BackendOther
  <2>4. CASE BackendRowDescription(f) \/ BackendDataRow(f) \/ BackendError(f)
    <3>1. /\ <<"result.started">> \in Seq(Plain) /\ <<"result.row">> \in Seq(Plain)
          /\ <<"backend.error">> \in Seq(Plain)
      BY <1>3, <1>4
    <3>2. reliable' = reliable
      BY <2>4 DEF BackendRowDescription, BackendDataRow, BackendError
    <3>3. Silent(events')
      BY <1>1, <2>4, <3>1 DEF BackendRowDescription, BackendDataRow, BackendError
    <3> QED BY <1>6, <3>2, <3>3
  <2>5. CASE BackendCommandComplete(f)
    BY <1>1, <1>3, <1>4, <1>6, <2>5 DEF BackendCommandComplete
  <2> QED BY <1>6, <2>1, <2>2, <2>3, <2>4, <2>5 DEF Backend
<1>7. [Next]_stateVars => [Step]_stateVars
  BY <1>5, <1>6 DEF Next
<1>8. UnreliableUntilDrained <=> [][Step]_stateVars
  BY DEF UnreliableUntilDrained, Silent
<1> QED BY <1>7, <1>8, PTL DEF Spec
-----------------------------------------------------------------------------
(***************************************************************************)
(* Event names are told apart by their places in a list of names.          *)
(***************************************************************************)
Distinct(names) == \A j, k \in DOMAIN names : names[j] = names[k] => j = k

(***************************************************************************)
(* Events made from distinct names have distinct names.                    *)
(***************************************************************************)
LEMMA DistinctEvents ==
    ASSUME NEW names, Distinct(names), NEW cs, NEW epoch, events' = BackendEvents(names, cs)
                                          \/ events' = FrontendEvents(names, cs, epoch)
    PROVE  OneEventPerName'
<1>1. /\ DOMAIN events' = DOMAIN names
      /\ \A k \in DOMAIN names : events'[k].event = names[k]
  <2>1. CASE events' = BackendEvents(names, cs)
    BY <2>1, EventNames
  <2>2. CASE events' = FrontendEvents(names, cs, epoch)
    BY <2>2, EventNames
  <2> QED BY <2>1, <2>2
<1> QED BY <1>1 DEF Distinct, OneEventPerName

(***************************************************************************)
(* The names frontend() and backend() push in one call are distinct.       *)
(***************************************************************************)
LEMMA DistinctNames ==
    /\ \A a : Distinct(<<a>>)
    /\ \A s : \A a \in {"query.received", "frontend.execute"} :
          Distinct(<<a, "statement.execution_started">> \o Requested(s))
    /\ Distinct(<<"backend.command_complete", "statement.execution_completed",
                  "result.completed">>)
    /\ \A a \in {"transaction.failed", None}, b \in CompletedEvent \cup {None} :
          Distinct(<<"backend.ready">> \o IfAny(a) \o IfAny(b) \o <<"connection.ready">>)
<1>1. \A a : Distinct(<<a>>)
  BY DEF Distinct
<1>2. \A a, b, c : /\ a # b => Distinct(<<a, b>>)
                   /\ a # b /\ a # c /\ b # c => Distinct(<<a, b, c>>)
  BY DEF Distinct
<1>3. \A a, b, c, d : a # b /\ a # c /\ a # d /\ b # c /\ b # d /\ c # d
                      => Distinct(<<a, b, c, d>>)
  BY DEF Distinct
<1>4. ASSUME NEW s, NEW a \in {"query.received", "frontend.execute"}
      PROVE  Distinct(<<a, "statement.execution_started">> \o Requested(s))
  <2>1. \/ Requested(s) = <<>>
        \/ \E b \in {"transaction.begin.requested", "transaction.commit.requested",
                      "transaction.rollback.requested"} : Requested(s) = <<b>>
    BY DEF Requested
  <2>2. \A b : <<a, "statement.execution_started">> \o <<b>>
                = <<a, "statement.execution_started", b>>
    BY TupleConcat
  <2>3. <<a, "statement.execution_started">> \o <<>> = <<a, "statement.execution_started">>
    OBVIOUS
  <2> QED BY <1>2, <2>1, <2>2, <2>3
<1>5. Distinct(<<"backend.command_complete", "statement.execution_completed",
                 "result.completed">>)
  BY <1>2
<1>6. ASSUME NEW a \in {"transaction.failed", None}, NEW b \in CompletedEvent \cup {None}
      PROVE  Distinct(<<"backend.ready">> \o IfAny(a) \o IfAny(b) \o <<"connection.ready">>)
  <2> DEFINE r == "backend.ready"
             c == "connection.ready"
  <2>1. IfAny(a) = <<>> \/ (IfAny(a) = <<a>> /\ a = "transaction.failed")
    BY DEF IfAny
  <2>2. IfAny(b) = <<>> \/ (IfAny(b) = <<b>> /\ b \in CompletedEvent)
    BY DEF IfAny
  <2>3. /\ <<r>> \o <<>> \o <<>> \o <<c>> = <<r, c>>
        /\ <<r>> \o <<a>> \o <<>> \o <<c>> = <<r, a, c>>
        /\ <<r>> \o <<>> \o <<b>> \o <<c>> = <<r, b, c>>
        /\ <<r>> \o <<a>> \o <<b>> \o <<c>> = <<r, a, b, c>>
    <3>1. <<r>> \o <<>> = <<r>> /\ <<r, a>> \o <<>> = <<r, a>>
      OBVIOUS
    <3>2. /\ <<r>> \o <<c>> = <<r, c>> /\ <<r>> \o <<a>> = <<r, a>> /\ <<r>> \o <<b>> = <<r, b>>
      BY TupleConcat
    <3>3. <<r, a>> \o <<c>> = <<r, a, c>> /\ <<r, b>> \o <<c>> = <<r, b, c>>
      BY TupleConcat
    <3>4. <<r, a>> \o <<b>> = <<r, a, b>> /\ <<r, a, b>> \o <<c>> = <<r, a, b, c>>
      BY TupleConcat
    <3> QED BY <3>1, <3>2, <3>3, <3>4, Zenon
  <2>4. b \in CompletedEvent => b # r /\ b # c /\ b # "transaction.failed"
    BY DEF CompletedEvent
  <2> QED BY <1>2, <1>3, <2>1, <2>2, <2>3, <2>4
<1> QED BY <1>1, <1>4, <1>5, <1>6

(***************************************************************************)
(* One call of frontend() or backend() returns no two events of one name.  *)
(***************************************************************************)
LEMMA StepOneEventPerName ==
    ASSUME NEW f, Frontend(f) \/ Backend(f)
    PROVE  OneEventPerName'
<1>0. events' = <<>> => OneEventPerName'
  BY DEF OneEventPerName
<1>1. CASE \/ FrontendParse(f) \/ FrontendBind(f) \/ FrontendClose(f) \/ FrontendOther(f)
           \/ BackendParameterStatus(f) \/ BackendAcknowledge(f) \/ BackendPortalSuspended(f)
           \/ BackendOther(f)
  BY <1>0, <1>1 DEF FrontendParse, FrontendBind, FrontendClose, FrontendOther,
       BackendParameterStatus, BackendAcknowledge, BackendPortalSuspended, BackendOther
<1>2. CASE FrontendQuery(f) \/ FrontendExecute(f)
  <2>1. \E a \in {"query.received", "frontend.execute"} : \E s :
          events' = FrontendEvents(<<a, "statement.execution_started">> \o Requested(s),
                                   cycles', tx_epoch')
    <3>1. CASE FrontendQuery(f)
      <4>1. events' = FrontendEvents(<<"query.received", "statement.execution_started">>
                                       \o Requested(f.sql), cycles', tx_epoch')
        BY <3>1 DEF FrontendQuery, StartStatement
      <4> QED BY <4>1, Zenon
    <3>2. CASE FrontendExecute(f)
      <4>1. PICK s : events' = FrontendEvents(<<"frontend.execute",
                                                "statement.execution_started">>
                                                \o Requested(s), cycles', tx_epoch')
        BY <3>2 DEF FrontendExecute, StartStatement
      <4> QED BY <4>1, Zenon
    <3> QED BY <1>2, <3>1, <3>2
  <2> QED BY <2>1, DistinctNames, DistinctEvents
<1>3. CASE FrontendSync(f) \/ BackendRowDescription(f) \/ BackendDataRow(f) \/ BackendError(f)
  <2>1. \E a, cs, e : events' \in {BackendEvents(<<a>>, cs), FrontendEvents(<<a>>, cs, e)}
    BY <1>3 DEF FrontendSync, BackendRowDescription, BackendDataRow, BackendError
  <2> QED BY <2>1, DistinctNames, DistinctEvents
<1>4. CASE BackendCommandComplete(f)
  BY <1>4, DistinctNames, DistinctEvents DEF BackendCommandComplete
<1>5. CASE BackendReady(f)
  <2>1. PICK a \in {"transaction.failed", None}, b \in CompletedEvent \cup {None} :
          events' = BackendEvents(<<"backend.ready">> \o IfAny(a) \o IfAny(b)
                                    \o <<"connection.ready">>, cycles)
    <3>1. Completed(StatusOf(f)) \in CompletedEvent \cup {None}
      BY DEF Completed, TransactionEnd, CompletedEvent
    <3> QED BY <1>5, <3>1 DEF BackendReady
  <2>2. Distinct(<<"backend.ready">> \o IfAny(a) \o IfAny(b) \o <<"connection.ready">>)
    BY DistinctNames
  <2> QED BY <2>1, <2>2, DistinctEvents
<1> QED BY <1>1, <1>2, <1>3, <1>4, <1>5 DEF Frontend, Backend

(***************************************************************************)
(* No call of frontend() or backend() ever returns two events of one name, *)
(* so a matcher counts at most one occurrence per frame.                   *)
(***************************************************************************)
THEOREM OneEventPerNameCorrect == Spec => []OneEventPerName
<1>1. Init => OneEventPerName
  BY DEF Init, OneEventPerName
<1>2. OneEventPerName /\ [Next]_stateVars => OneEventPerName'
  <2>1. OneEventPerName /\ UNCHANGED stateVars => OneEventPerName'
    BY DEF OneEventPerName, stateVars
  <2> QED BY <2>1, StepOneEventPerName DEF Next
<1> QED BY <1>1, <1>2, PTL DEF Spec
=============================================================================
