------------------------------ MODULE Scenario ------------------------------
(***************************************************************************)
(* pgfault's fault scenarios and the matcher each connection owns for each *)
(* of them.  A scenario has a selector (`match' in the file), a condition  *)
(* on events (`when') and an action; an absent field is None.              *)
(*                                                                         *)
(* Left out, as no property depends on them: the scenario's version and    *)
(* name, and the length of a delay (a delay only blocks the connection's   *)
(* task, which handles one frame at a time anyway).                        *)
(***************************************************************************)
EXTENDS Protocol

Optional(S) == S \cup {None}

Selector == [application_name : Optional(Text), user : Optional(Text),
             database : Optional(Text), connection_ordinal : Optional(Nat),
             transaction : Optional(Nat), query_cycle : Optional(Nat),
             statement : Optional(Nat), sql_fingerprint : Optional(Statement)]

When == [event : EventName, occurrence : Optional(Nat),
         statement_class : SUBSET StatementClass, row : Optional(Nat)]

Action == [suppress : Optional(BOOLEAN),
           disconnect : Optional([side : {"frontend", "upstream"},
                                  mode : {"close", "reset"}]),
           delay : Optional({"upstream", "downstream"}),
           truncate_result : Optional(Nat)]

ScenarioType == [selector : Selector, when : When, action : Action]

(***************************************************************************)
(* The events validate() takes for frontend ones.                          *)
(***************************************************************************)
UpstreamEvent ==
    {"query.received", "query.forwarded", "statement.execution_started",
     "transaction.begin.requested", "transaction.commit.requested",
     "transaction.rollback.requested", "frontend.execute", "frontend.sync"}

(***************************************************************************)
(* validate(): the scenarios load() lets through.                          *)
(***************************************************************************)
Valid(s) ==
    /\ s \in ScenarioType
    /\ s.when.occurrence # 0 /\ s.when.row # 0
    /\ s.selector.connection_ordinal # 0
    /\ s.action.delay # None =>
         (s.when.event \in UpstreamEvent <=> s.action.delay = "upstream")
    /\ \/ s.action.suppress # None
       \/ s.action.disconnect # None
       \/ s.action.delay # None
       \/ s.action.truncate_result # None
    /\ s.action.truncate_result # None => s.when.event = "result.started"

(***************************************************************************)
(* selects(e): does the event satisfy the selector and the filters?        *)
(***************************************************************************)
Wants(option, value) == option = None \/ option = value

Selects(s, e) ==
    /\ Wants(s.selector.application_name, e.startup.application_name)
    /\ Wants(s.selector.user, e.startup.user)
    /\ Wants(s.selector.database, e.startup.database)
    /\ Wants(s.selector.connection_ordinal, e.connection_id)
    /\ Wants(s.selector.transaction, e.epoch)
    /\ Wants(s.selector.query_cycle, e.cycle)
    /\ Wants(s.selector.statement, e.index)
    /\ Wants(s.selector.sql_fingerprint, e.stmt)
    /\ s.when.statement_class = {} \/ ClassOf(e.stmt) \in s.when.statement_class
    /\ Wants(s.when.row, e.row)

(***************************************************************************)
(* Matcher: `seen' counts the events that satisfy all filters, `fired' is  *)
(* set at the wanted occurrence, once and for all.                         *)
(***************************************************************************)
Matcher == [seen : Nat, fired : BOOLEAN]

NewMatcher == [seen |-> 0, fired |-> FALSE]

Occurrence(s) == IF s.when.occurrence = None THEN 1 ELSE s.when.occurrence

MatchesUnreliable(s, m, e) ==                                  \* mutant: trusts any event
    ~m.fired /\ e.event = s.when.event /\ Selects(s, e)

Matches(s, m, e) ==
    e.reliable /\ ~m.fired /\ e.event = s.when.event /\ Selects(s, e)

(***************************************************************************)
(* observe(), over the events of one call of frontend() or backend(): no   *)
(* such call returns two events of one name (OneEventPerName), so at most  *)
(* one of them can match.                                                  *)
(***************************************************************************)
MatchesOne(s, m, es) == \E k \in DOMAIN es : Matches(s, m, es[k])

Fires(s, m, es) == MatchesOne(s, m, es) /\ m.seen + 1 = Occurrence(s)

Observe(s, m, es) ==
    IF MatchesOne(s, m, es)
    THEN [seen |-> m.seen + 1, fired |-> m.seen + 1 = Occurrence(s)]
    ELSE m

Coordinate(s, m, es) == es[CHOOSE k \in DOMAIN es : Matches(s, m, es[k])]

(***************************************************************************)
(* needs_gate(boundary): might the scenario still fire on that event?      *)
(***************************************************************************)
NeedsGateAtFirst(s, m, boundary) ==                            \* mutant: first match only
    m.seen = 0 /\ ~m.fired /\ s.when.event = boundary

NeedsGate(s, m, boundary) == ~m.fired /\ s.when.event = boundary
=============================================================================
