---------------------------- MODULE ProxyProofs ----------------------------
(***************************************************************************)
(* Proofs about the relay loop, for every configuration of scenarios and   *)
(* every sequence of frames that ServerMaySend allows: type correctness,   *)
(* the life of a scenario, the completion gate, and that the loop          *)
(* implements Relay.                                                       *)
(***************************************************************************)
EXTENDS Proxy, ConnectionStateProofs

(***************************************************************************)
(* The loop drives the semantic state as ConnectionState describes, so     *)
(* what is proved there holds here: each arm calls frontend() or backend() *)
(* once, the other ways out of the loop call neither.                      *)
(***************************************************************************)
LEMMA StateStep == ProxyNext => [Next]_stateVars
<1> SUFFICES ASSUME ProxyNext PROVE Next \/ UNCHANGED stateVars
  OBVIOUS
<1>1. ASSUME NEW f \in FrontendFrame, ClientFrame(f) PROVE Next
  BY <1>1 DEF ClientFrame, ClientRelay, Next
<1>2. ASSUME NEW f \in BackendFrame, ServerFrame(f) PROVE Next
  BY <1>2 DEF ServerFrame, Observed, Next
<1>3. CASE ClientEof \/ UpstreamEof \/ Failure
  BY <1>3 DEF ClientEof, UpstreamEof, Failure, Unrelayed
<1> QED BY <1>1, <1>2, <1>3 DEF ProxyNext

LEMMA DrivesState == ProxySpec => Spec
<1>1. ProxyInit => Init
  BY DEF ProxyInit
<1>2. [ProxyNext]_proxyVars => [Next]_stateVars
  BY StateStep DEF proxyVars
<1> QED BY <1>1, <1>2, PTL DEF ProxySpec, Spec

-----------------------------------------------------------------------------
(***************************************************************************)
(* Facts about scenarios and matchers.                                     *)
(***************************************************************************)

(***************************************************************************)
(* What validate() leaves of a scenario's fields.                          *)
(***************************************************************************)
LEMMA ConfigFields ==
    ASSUME NEW i \in DOMAIN Config
    PROVE  /\ Occurrence(Config[i]) \in Nat \ {0}
           /\ Config[i].action.truncate_result \in Nat \cup {None}
<1>1. Config[i] \in ScenarioType /\ Valid(Config[i])
  BY ConfigAssumption
<1>2. /\ Config[i].when.occurrence \in Nat \cup {None}
      /\ Config[i].action.truncate_result \in Nat \cup {None}
  BY <1>1 DEF ScenarioType, When, Action, Optional
<1>3. Config[i].when.occurrence # 0
  BY <1>1 DEF Valid
<1> QED BY <1>2, <1>3 DEF Occurrence

(***************************************************************************)
(* Matcher::observe() on the events of one call: the matcher stays one, a  *)
(* fired one stays fired and does not fire again, and one that fires was   *)
(* not fired before and is afterwards.                                     *)
(***************************************************************************)
LEMMA ObserveFacts ==
    ASSUME NEW i \in DOMAIN Config, NEW m \in Matcher, NEW es
    PROVE  LET n == Observe(Config[i], m, es) IN
           /\ n \in Matcher
           /\ m.fired => n = m
           /\ Fires(Config[i], m, es) <=> n.fired /\ ~m.fired
           /\ m.seen < Occurrence(Config[i]) /\ ~n.fired => n.seen < Occurrence(Config[i])
<1>0. Occurrence(Config[i]) \in Nat /\ m.seen \in Nat /\ m.fired \in BOOLEAN
  BY ConfigFields DEF Matcher
<1>1. CASE MatchesOne(Config[i], m, es)
  <2>1. ~m.fired
    BY <1>1 DEF MatchesOne, Matches
  <2>2. Observe(Config[i], m, es)
          = [seen |-> m.seen + 1, fired |-> m.seen + 1 = Occurrence(Config[i])]
    BY <1>1 DEF Observe
  <2>3. Fires(Config[i], m, es) <=> m.seen + 1 = Occurrence(Config[i])
    BY <1>1 DEF Fires
  <2> DEFINE n == Observe(Config[i], m, es)
  <2>4. n.seen = m.seen + 1 /\ (n.fired <=> m.seen + 1 = Occurrence(Config[i]))
    <3> DEFINE B == m.seen + 1 = Occurrence(Config[i])
    <3>1. B \in BOOLEAN /\ n = [seen |-> m.seen + 1, fired |-> B]
      BY <2>2
    <3> HIDE DEF B, n
    <3>2. n.seen = m.seen + 1 /\ n.fired = B
      BY <3>1
    <3> QED BY <3>2 DEF B
  <2>5. n \in Matcher
    BY <1>0, <2>2 DEF Matcher
  <2>6. ~n.fired /\ m.seen < Occurrence(Config[i]) => n.seen < Occurrence(Config[i])
    BY <1>0, <2>4
  <2> HIDE DEF n
  <2>7. /\ n \in Matcher
        /\ m.fired => n = m
        /\ Fires(Config[i], m, es) <=> n.fired /\ ~m.fired
        /\ m.seen < Occurrence(Config[i]) /\ ~n.fired => n.seen < Occurrence(Config[i])
    BY <2>1, <2>3, <2>4, <2>5, <2>6
  <2> QED BY <2>7 DEF n
<1>2. CASE ~MatchesOne(Config[i], m, es)
  <2>1. Observe(Config[i], m, es) = m /\ ~Fires(Config[i], m, es)
    BY <1>2 DEF Observe, Fires
  <2> QED BY <2>1
<1> QED BY <1>1, <1>2

(***************************************************************************)
(* The same for all matchers of a connection.                              *)
(***************************************************************************)
LEMMA ObserveAllFacts ==
    ASSUME NEW ms \in [DOMAIN Config -> Matcher], NEW es
    PROVE  /\ ObserveAll(ms, es) \in [DOMAIN Config -> Matcher]
           /\ Fired(ms, es) = {i \in DOMAIN Config : ObserveAll(ms, es)[i].fired /\ ~ms[i].fired}
           /\ \A i \in DOMAIN Config :
                 /\ ms[i].fired => ObserveAll(ms, es)[i] = ms[i]
                 /\ ms[i].seen < Occurrence(Config[i]) /\ ~ObserveAll(ms, es)[i].fired
                      => ObserveAll(ms, es)[i].seen < Occurrence(Config[i])
<1>1. ASSUME NEW i \in DOMAIN Config
      PROVE  /\ ObserveAll(ms, es)[i] \in Matcher
             /\ ms[i].fired => ObserveAll(ms, es)[i] = ms[i]
             /\ Fires(Config[i], ms[i], es) <=> ObserveAll(ms, es)[i].fired /\ ~ms[i].fired
             /\ ms[i].seen < Occurrence(Config[i]) /\ ~ObserveAll(ms, es)[i].fired
                  => ObserveAll(ms, es)[i].seen < Occurrence(Config[i])
  <2>1. ms[i] \in Matcher /\ ObserveAll(ms, es)[i] = Observe(Config[i], ms[i], es)
    BY DEF ObserveAll
  <2> QED BY <2>1, ObserveFacts
<1>2. ObserveAll(ms, es) \in [DOMAIN Config -> Matcher]
  BY <1>1 DEF ObserveAll
<1> QED BY <1>1, <1>2 DEF Fired

(***************************************************************************)
(* The coordinate recorded for a fault is the event that made it fire.     *)
(***************************************************************************)
LEMMA CoordinateFacts ==
    ASSUME NEW s, NEW m, NEW es \in Seq(Event), MatchesOne(s, m, es)
    PROVE  Coordinate(s, m, es) \in Event /\ Matches(s, m, Coordinate(s, m, es))
<1>1. \E k \in DOMAIN es : Matches(s, m, es[k])
  BY DEF MatchesOne
<1>2. \A k \in DOMAIN es : es[k] \in Event
  OBVIOUS
<1> DEFINE k == CHOOSE k \in DOMAIN es : Matches(s, m, es[k])
<1>3. k \in DOMAIN es /\ Matches(s, m, es[k])
  BY <1>1
<1> HIDE DEF k
<1>4. es[k] \in Event
  BY <1>2, <1>3
<1> QED BY <1>3, <1>4 DEF Coordinate, k

(***************************************************************************)
(* RecordFaults keeps what it does not replace.                            *)
(***************************************************************************)
LEMMA RecordFaultsFacts ==
    ASSUME NEW fs \in [DOMAIN Config -> Event \cup {None}],
           NEW ms \in [DOMAIN Config -> Matcher], NEW es \in Seq(Event)
    PROVE  /\ RecordFaults(fs, ms, es) \in [DOMAIN Config -> Event \cup {None}]
           /\ \A i \in DOMAIN Config :
                 /\ i \notin Fired(ms, es) => RecordFaults(fs, ms, es)[i] = fs[i]
                 /\ i \in Fired(ms, es) =>
                      /\ RecordFaults(fs, ms, es)[i] \in Event
                      /\ Matches(Config[i], ms[i], RecordFaults(fs, ms, es)[i])
<1>1. ASSUME NEW i \in DOMAIN Config, i \in Fired(ms, es)
      PROVE  /\ RecordFaults(fs, ms, es)[i] \in Event
             /\ Matches(Config[i], ms[i], RecordFaults(fs, ms, es)[i])
  <2>1. Fires(Config[i], ms[i], es) /\ MatchesOne(Config[i], ms[i], es)
    BY <1>1 DEF Fired, Fires
  <2>2. RecordFaults(fs, ms, es)[i] = Coordinate(Config[i], ms[i], es)
    BY <2>1 DEF RecordFaults
  <2> QED BY <2>1, <2>2, CoordinateFacts
<1>2. ASSUME NEW i \in DOMAIN Config, i \notin Fired(ms, es)
      PROVE  RecordFaults(fs, ms, es)[i] = fs[i]
  BY <1>2 DEF Fired, RecordFaults
<1>3. \A i \in DOMAIN Config : RecordFaults(fs, ms, es)[i] \in Event \cup {None}
  BY <1>1, <1>2
<1>4. RecordFaults(fs, ms, es) = [i \in DOMAIN Config |-> RecordFaults(fs, ms, es)[i]]
  BY DEF RecordFaults
<1>5. RecordFaults(fs, ms, es) \in [DOMAIN Config -> Event \cup {None}]
  BY <1>3, <1>4, Zenon
<1> QED BY <1>1, <1>2, <1>5

(***************************************************************************)
(* The truncation counter after some scenarios fired is a number or None:  *)
(* the list of scenarios is finite, so a last one that cuts exists.        *)
(***************************************************************************)
LEMMA TruncatesType ==
    ASSUME NEW F \in SUBSET DOMAIN Config, NEW before \in Nat \cup {None}
    PROVE  Truncates(F, before) \in Nat \cup {None}
<1> DEFINE cutting == {i \in F : Config[i].action.truncate_result # None}
<1>1. CASE cutting = {}
  BY <1>1 DEF Truncates
<1>2. CASE cutting # {}
  <2>1. DOMAIN Config = 1 .. Len(Config) /\ Len(Config) \in Nat
    BY ConfigAssumption
  <2>2. cutting \in SUBSET (0 .. Len(Config)) /\ cutting \in SUBSET DOMAIN Config
    BY <2>1
  <2>3. \E i \in cutting : \A j \in cutting : j <= i
    <3> HIDE DEF cutting
    <3> QED BY <1>2, <2>1, <2>2, GreatestNumber
  <2> DEFINE last == CHOOSE i \in cutting : \A j \in cutting : j <= i
  <2>4. last \in cutting
    BY <2>3
  <2>5. Truncates(F, before) = Config[last].action.truncate_result
    BY <1>2 DEF Truncates
  <2> HIDE DEF last, cutting
  <2> QED BY <2>2, <2>4, <2>5, ConfigFields
<1> QED BY <1>1, <1>2

(***************************************************************************)
(* What becomes of the sockets.                                            *)
(***************************************************************************)
LEMMA SocketsType ==
    /\ BothClosed \in Sockets /\ ClientReset \in Sockets
    /\ \A F : SeveredBy(F) \in Sockets
BY DEF BothClosed, ClientReset, SeveredBy, Sockets
-----------------------------------------------------------------------------
(***************************************************************************)
(* Type correctness.                                                       *)
(***************************************************************************)

(***************************************************************************)
(* The client's arm: apply() runs over the events of frontend(), and again *)
(* over query.forwarded, if there is one.                                  *)
(***************************************************************************)
ClientApplies(f, ok, forwarded) ==
    LET first == Fired(matchers, events')
        ms == ObserveAll(matchers, events')
    IN  /\ forwarded \in {<<>>, <<Forwarded(cycles', tx_epoch')>>}
        /\ fired' = first \cup Fired(ms, forwarded)
        /\ matchers' = ObserveAll(ms, forwarded)
        /\ faults' = RecordFaults(RecordFaults(faults, matchers, events'), ms, forwarded)
        /\ truncate' = Truncates(Fired(ms, forwarded), Truncates(first, truncate))
        /\ \/ to_server' = <<f>> /\ ok
           \/ to_server' = <<>> /\ (Disconnects(first) \/ Suppresses(first) \/ ~ok)

LEMMA ClientArm ==
    ASSUME NEW f, NEW ok \in BOOLEAN, ClientRelay(f, ok)
    PROVE  \E forwarded : ClientApplies(f, ok, forwarded)
<1> DEFINE first == Fired(matchers, events')
           writes == ~Disconnects(first) /\ ~Suppresses(first)
           forwarded == IF writes /\ ok /\ f.tag \in {"Q", "E"}
                        THEN <<Forwarded(cycles', tx_epoch')>> ELSE <<>>
<1>1. ClientApplies(f, ok, forwarded)
  BY DEF ClientRelay, ClientApplies
<1> QED BY <1>1

(***************************************************************************)
(* The part of the type invariant that apply() is about.                   *)
(***************************************************************************)
ApplyTypeOK ==
    /\ matchers \in [DOMAIN Config -> Matcher]
    /\ truncate \in Nat \cup {None}
    /\ fired \in SUBSET DOMAIN Config
    /\ faults \in [DOMAIN Config -> Event \cup {None}]

LEMMA ClientApplyType ==
    ASSUME TypeOK, TypeOK', ApplyTypeOK, NEW f, NEW ok, NEW forwarded,
           ClientApplies(f, ok, forwarded)
    PROVE  ApplyTypeOK' /\ forwarded \in Seq(Event) /\ events' \in Seq(Event)
<1>1. events' \in Seq(Event) /\ cycles' \in Seq(Cycle) /\ tx_epoch' \in Nat
  BY DEF TypeOK
<1>2. forwarded \in Seq(Event)
  <2>1. "query.forwarded" \in EventName
    BY DEF EventName
  <2>2. Forwarded(cycles', tx_epoch') \in Event
    BY <1>1, <2>1, FrontendEventType DEF Forwarded
  <2>3. <<Forwarded(cycles', tx_epoch')>> \in Seq(Event) /\ <<>> \in Seq(Event)
    BY <2>2
  <2> QED BY <2>3 DEF ClientApplies
<1> DEFINE first == Fired(matchers, events')
           ms == ObserveAll(matchers, events')
<1>3. ms \in [DOMAIN Config -> Matcher] /\ matchers \in [DOMAIN Config -> Matcher]
  BY ObserveAllFacts DEF ApplyTypeOK
<1>4. matchers' \in [DOMAIN Config -> Matcher]
  BY <1>3, ObserveAllFacts DEF ClientApplies
<1>5. first \in SUBSET DOMAIN Config /\ \A es : Fired(ms, es) \in SUBSET DOMAIN Config
  BY DEF Fired
<1>6. fired' \in SUBSET DOMAIN Config
  BY <1>5 DEF ClientApplies
<1>7. truncate' \in Nat \cup {None}
  <2>1. Truncates(first, truncate) \in Nat \cup {None}
    BY <1>5, TruncatesType DEF ApplyTypeOK
  <2> QED BY <1>5, <2>1, TruncatesType DEF ClientApplies
<1>8. faults' \in [DOMAIN Config -> Event \cup {None}]
  <2>1. RecordFaults(faults, matchers, events') \in [DOMAIN Config -> Event \cup {None}]
    BY <1>1, <1>3, RecordFaultsFacts DEF ApplyTypeOK
  <2> QED BY <1>2, <1>3, <2>1, RecordFaultsFacts DEF ClientApplies
<1> QED BY <1>1, <1>2, <1>4, <1>6, <1>7, <1>8 DEF ApplyTypeOK

LEMMA ServerApplyType ==
    ASSUME TypeOK', ApplyTypeOK, NEW f, Observed(f)
    PROVE  /\ matchers' \in [DOMAIN Config -> Matcher]
           /\ fired' \in SUBSET DOMAIN Config
           /\ faults' \in [DOMAIN Config -> Event \cup {None}]
           /\ TruncateNow \in Nat \cup {None}
<1>1. events' \in Seq(Event)
  BY DEF TypeOK
<1>2. fired' \in SUBSET DOMAIN Config
  BY DEF Observed, Fired
<1>3. TruncateNow \in Nat \cup {None}
  BY <1>2, TruncatesType DEF TruncateNow, ApplyTypeOK
<1>4. matchers' \in [DOMAIN Config -> Matcher]
  BY ObserveAllFacts DEF Observed, ApplyTypeOK
<1>5. faults' \in [DOMAIN Config -> Event \cup {None}]
  BY <1>1, RecordFaultsFacts DEF Observed, ApplyTypeOK
<1> QED BY <1>2, <1>3, <1>4, <1>5

(***************************************************************************)
(* The rest of the type invariant.                                         *)
(***************************************************************************)
RelayTypeOK ==
    /\ held \in Seq(BackendFrame)
    /\ conn \in {"open", "disconnected", "truncated", "closed", "upstream closed", "error"}
    /\ sockets \in Sockets
    /\ input \in FrontendFrame \cup BackendFrame \cup {None}
    /\ to_server \in Seq(FrontendFrame)
    /\ to_client \in Seq(BackendFrame)
    /\ ack \in {"none", "dropped", "held", "overflow", "written"}

LEMMA ProxyTypeSplit == ProxyTypeOK <=> ApplyTypeOK /\ RelayTypeOK
BY DEF ProxyTypeOK, ApplyTypeOK, RelayTypeOK

LEMMA ClientRelayType ==
    ASSUME RelayTypeOK, NEW f \in FrontendFrame, NEW ok \in BOOLEAN, ClientRelay(f, ok)
    PROVE  RelayTypeOK'
<1>1. to_server' \in {<<>>, <<f>>} /\ input' = f
  BY ClientArm DEF ClientApplies, ClientRelay
<1>2. to_server' \in Seq(FrontendFrame)
  <2>1. <<f>> \in Seq(FrontendFrame) /\ <<>> \in Seq(FrontendFrame)
    OBVIOUS
  <2> QED BY <1>1, <2>1
<1>3. to_client' = <<>> /\ to_client' \in Seq(BackendFrame) /\ UNCHANGED <<held, ack>>
  BY DEF ClientRelay
<1>4. /\ conn' \in {"open", "disconnected", "truncated", "closed", "upstream closed", "error"}
      /\ sockets' \in Sockets
  BY SocketsType DEF ClientRelay, Return, StayOpen, RelayTypeOK
<1> QED BY <1>1, <1>2, <1>3, <1>4 DEF RelayTypeOK

LEMMA DisposalType ==
    ASSUME NEW f PROVE Disposal(f) \in {"dropped", "held", "overflow", "written"}
BY DEF Disposal

LEMMA ServerRelayType ==
    ASSUME RelayTypeOK, NEW f \in BackendFrame, ServerFrame(f)
    PROVE  RelayTypeOK'
<1>0. /\ held \in Seq(BackendFrame) /\ <<>> \in Seq(BackendFrame)
      /\ <<>> \in Seq(FrontendFrame)
      /\ Append(held, f) \in Seq(BackendFrame) /\ <<f>> \in Seq(BackendFrame)
  <2>1. held \in Seq(BackendFrame)
    BY DEF RelayTypeOK
  <2>2. <<f>> \in Seq(BackendFrame) /\ <<>> \in Seq(BackendFrame) /\ <<>> \in Seq(FrontendFrame)
    OBVIOUS
  <2> QED BY <2>1, <2>2, AppendProperties
<1>1. input' = f /\ to_server' = <<>>
  BY DEF ServerFrame, Observed
<1>2. CASE ServerDisconnected
  BY <1>0, <1>1, <1>2, SocketsType DEF ServerDisconnected, Return, RelayTypeOK
<1>3. CASE ServerCut(f)
  BY <1>0, <1>1, <1>3, SocketsType DEF ServerCut, Return, RelayTypeOK
<1>4. CASE ServerReady(f)
  <2>1. \A n \in 0 .. Len(held) : SubSeq(held, 1, n) \in Seq(BackendFrame)
    BY <1>0, SubSeqProperties
  <2>2. to_client' \in Seq(BackendFrame)
    BY <1>0, <1>4, <2>1 DEF ServerReady, Released
  <2>3. held' = <<>> /\ ack' = "none"
    BY <1>4 DEF ServerReady
  <2>4. /\ conn' \in {"open", "disconnected", "truncated", "closed", "upstream closed", "error"}
        /\ sockets' \in Sockets
    BY <1>4, SocketsType DEF ServerReady, Return, StayOpen, RelayTypeOK
  <2> QED BY <1>0, <1>1, <2>2, <2>3, <2>4 DEF RelayTypeOK
<1>5. CASE ServerRelayed(f)
  <2>1. /\ conn' \in {"open", "disconnected", "truncated", "closed", "upstream closed", "error"}
        /\ sockets' \in Sockets
    BY <1>5, SocketsType DEF ServerRelayed, Return, StayOpen, RelayTypeOK
  <2>2. held' \in Seq(BackendFrame) /\ to_client' \in Seq(BackendFrame)
    BY <1>0, <1>5 DEF ServerRelayed
  <2>3. ack' \in {"none", "dropped", "held", "overflow", "written"}
    BY <1>5, DisposalType DEF ServerRelayed, RelayTypeOK
  <2> QED BY <1>0, <1>1, <2>1, <2>2, <2>3 DEF RelayTypeOK
<1>6. CASE ServerWriteFails(f)
  BY <1>0, <1>1, <1>6, SocketsType DEF ServerWriteFails, Return, RelayTypeOK
<1> QED BY <1>2, <1>3, <1>4, <1>5, <1>6 DEF ServerFrame

LEMMA ServerTruncateType ==
    ASSUME TypeOK', ApplyTypeOK, NEW f \in BackendFrame, ServerFrame(f)
    PROVE  truncate' \in Nat \cup {None}
<1>1. Observed(f) /\ TruncateNow \in Nat \cup {None}
  BY ServerApplyType DEF ServerFrame
<1>2. ~CutsHere(f) => RowsLeft(f) \in Nat \cup {None}
  BY <1>1, NameAssumption DEF CutsHere, RowsLeft
<1>3. truncate' \in {TruncateNow, None} \/ (truncate' = RowsLeft(f) /\ ~CutsHere(f))
  BY DEF ServerFrame, ServerDisconnected, ServerCut, ServerReady, ServerRelayed, ServerWriteFails
<1> QED BY <1>1, <1>2, <1>3

(***************************************************************************)
(* A step keeps the type invariant of the connection.                      *)
(***************************************************************************)
LEMMA ProxyTypeStep ==
    ASSUME TypeOK, TypeOK', ProxyTypeOK, [ProxyNext]_proxyVars
    PROVE  ProxyTypeOK'
<1>0. ApplyTypeOK /\ RelayTypeOK
  BY ProxyTypeSplit
<1>1. CASE UNCHANGED proxyVars
  BY <1>1 DEF proxyVars, relayVars, ProxyTypeOK
<1>2. ASSUME NEW f \in FrontendFrame, NEW ok \in BOOLEAN, ClientRelay(f, ok)
      PROVE  ProxyTypeOK'
  <2>1. PICK forwarded : ClientApplies(f, ok, forwarded)
    BY <1>2, ClientArm
  <2>2. ApplyTypeOK'
    BY <1>0, <2>1, ClientApplyType
  <2>3. RelayTypeOK'
    BY <1>0, <1>2, ClientRelayType
  <2> QED BY <2>2, <2>3 DEF ProxyTypeOK, ApplyTypeOK, RelayTypeOK
<1>3. ASSUME NEW f \in BackendFrame, ServerFrame(f)
      PROVE  ProxyTypeOK'
  <2>1. RelayTypeOK' /\ truncate' \in Nat \cup {None}
    BY <1>0, <1>3, ServerRelayType, ServerTruncateType
  <2>2. /\ matchers' \in [DOMAIN Config -> Matcher]
        /\ fired' \in SUBSET DOMAIN Config
        /\ faults' \in [DOMAIN Config -> Event \cup {None}]
    BY <1>0, <1>3, ServerApplyType DEF ServerFrame
  <2> QED BY <2>1, <2>2 DEF ProxyTypeOK, RelayTypeOK
<1>4. CASE ClientEof \/ UpstreamEof \/ Failure
  <2>1. conn' \in {"closed", "upstream closed", "error"} /\ sockets' \in Sockets
    BY <1>4, SocketsType DEF ClientEof, UpstreamEof, Failure, Return
  <2>2. /\ input' = None /\ to_server' = <<>> /\ to_client' = <<>> /\ fired' = {}
        /\ UNCHANGED <<matchers, held, truncate, faults, ack>>
    BY <1>4 DEF ClientEof, UpstreamEof, Failure, Unrelayed
  <2>3. <<>> \in Seq(FrontendFrame) /\ <<>> \in Seq(BackendFrame) /\ {} \in SUBSET DOMAIN Config
    OBVIOUS
  <2>4. RelayTypeOK'
    BY <1>0, <2>1, <2>2, <2>3 DEF RelayTypeOK
  <2>5. ApplyTypeOK'
    BY <1>0, <2>2, <2>3 DEF ApplyTypeOK
  <2> QED BY <2>4, <2>5 DEF ProxyTypeOK, ApplyTypeOK, RelayTypeOK
<1> QED BY <1>1, <1>2, <1>3, <1>4 DEF ProxyNext, ClientFrame

(***************************************************************************)
(* The connection's relaying state keeps its types, for every list of      *)
(* valid scenarios.                                                        *)
(***************************************************************************)
THEOREM ProxyTypeCorrect == ProxySpec => []ProxyTypeOK
<1>1. ProxyInit => ProxyTypeOK
  <2>1. NewMatcher \in Matcher
    BY DEF NewMatcher, Matcher
  <2>2. <<>> \in Seq(BackendFrame) /\ <<>> \in Seq(FrontendFrame)
    OBVIOUS
  <2> QED BY <2>1, <2>2 DEF ProxyInit, ProxyTypeOK, Sockets
<1>2. TypeOK /\ TypeOK' /\ ProxyTypeOK /\ [ProxyNext]_proxyVars => ProxyTypeOK'
  BY ProxyTypeStep
<1> QED BY <1>1, <1>2, DrivesState, TypeCorrect, PTL DEF ProxySpec
-----------------------------------------------------------------------------
(***************************************************************************)
(* The life of a scenario.                                                 *)
(***************************************************************************)
RecordedIn(ms, fs) ==
    \A i \in DOMAIN Config :
        /\ ms[i].fired <=> fs[i] # None
        /\ ~ms[i].fired => ms[i].seen < Occurrence(Config[i])
        /\ fs[i] # None => /\ fs[i].reliable
                           /\ fs[i].event = Config[i].when.event
                           /\ Selects(Config[i], fs[i])

(***************************************************************************)
(* One call of apply() keeps matchers and records in step.                 *)
(***************************************************************************)
LEMMA RecordedKept ==
    ASSUME NEW ms \in [DOMAIN Config -> Matcher],
           NEW fs \in [DOMAIN Config -> Event \cup {None}],
           NEW es \in Seq(Event), RecordedIn(ms, fs)
    PROVE  RecordedIn(ObserveAll(ms, es), RecordFaults(fs, ms, es))
<1> SUFFICES ASSUME NEW i \in DOMAIN Config
             PROVE  LET m == ObserveAll(ms, es)[i]
                        r == RecordFaults(fs, ms, es)[i]
                    IN  /\ m.fired <=> r # None
                        /\ ~m.fired => m.seen < Occurrence(Config[i])
                        /\ r # None => /\ r.reliable
                                       /\ r.event = Config[i].when.event
                                       /\ Selects(Config[i], r)
  BY DEF RecordedIn
<1> DEFINE m == ObserveAll(ms, es)[i]
           r == RecordFaults(fs, ms, es)[i]
<1>1. /\ ms[i].fired => m = ms[i]
      /\ ms[i].seen < Occurrence(Config[i]) /\ ~m.fired => m.seen < Occurrence(Config[i])
      /\ i \in Fired(ms, es) <=> m.fired /\ ~ms[i].fired
      /\ m \in Matcher /\ ms[i] \in Matcher
  BY ObserveAllFacts
<1>2. CASE i \in Fired(ms, es)
  <2>1. r \in Event /\ Matches(Config[i], ms[i], r)
    BY <1>2, RecordFaultsFacts
  <2>2. r # None
    BY <2>1, ConfigAssumption
  <2>3. r.reliable /\ r.event = Config[i].when.event /\ Selects(Config[i], r)
    BY <2>1 DEF Matches
  <2> HIDE DEF m, r
  <2>4. m.fired
    BY <1>1, <1>2
  <2>5. /\ m.fired <=> r # None
        /\ ~m.fired => m.seen < Occurrence(Config[i])
        /\ r # None => /\ r.reliable
                       /\ r.event = Config[i].when.event
                       /\ Selects(Config[i], r)
    BY <2>2, <2>3, <2>4
  <2> QED BY <2>5 DEF m, r
<1>3. CASE i \notin Fired(ms, es)
  <2>1. r = fs[i]
    BY <1>3, RecordFaultsFacts
  <2>2. /\ ms[i].fired <=> fs[i] # None
        /\ ~ms[i].fired => ms[i].seen < Occurrence(Config[i])
        /\ fs[i] # None => /\ fs[i].reliable
                           /\ fs[i].event = Config[i].when.event
                           /\ Selects(Config[i], fs[i])
    BY DEF RecordedIn
  <2>3. m.fired <=> ms[i].fired
    BY <1>1, <1>3
  <2> HIDE DEF m, r
  <2>4. /\ m.fired <=> r # None
        /\ ~m.fired => m.seen < Occurrence(Config[i])
        /\ r # None => /\ r.reliable
                       /\ r.event = Config[i].when.event
                       /\ Selects(Config[i], r)
    BY <1>1, <2>1, <2>2, <2>3
  <2> QED BY <2>4 DEF m, r
<1> QED BY <1>2, <1>3

(***************************************************************************)
(* Every fault is recorded once, at a reliable event that satisfies all    *)
(* filters of its scenario, and every record is of a scenario that fired   *)
(* (apply() and Matcher::observe()).                                       *)
(***************************************************************************)
THEOREM FaultsRecordedCorrect == ProxySpec => []FaultsRecorded
<1>0. FaultsRecorded <=> RecordedIn(matchers, faults)
  BY DEF FaultsRecorded, RecordedIn
<1>1. ProxyInit => FaultsRecorded
  <2> SUFFICES ASSUME ProxyInit, NEW i \in DOMAIN Config
               PROVE  /\ ~matchers[i].fired /\ faults[i] = None
                      /\ matchers[i].seen < Occurrence(Config[i])
    BY DEF FaultsRecorded
  <2>1. matchers[i] = NewMatcher /\ faults[i] = None
    BY DEF ProxyInit
  <2> QED BY <2>1, ConfigFields DEF NewMatcher
<1>2. ASSUME TypeOK, TypeOK', ProxyTypeOK, FaultsRecorded, [ProxyNext]_proxyVars
      PROVE  FaultsRecorded'
  <2>0. ApplyTypeOK /\ RecordedIn(matchers, faults)
    BY <1>0, <1>2, ProxyTypeSplit
  <2>1. CASE UNCHANGED <<matchers, faults>>
    BY <1>2, <2>1 DEF FaultsRecorded
  <2>2. ASSUME NEW f \in FrontendFrame, NEW ok \in BOOLEAN, ClientRelay(f, ok)
        PROVE  RecordedIn(matchers', faults')
    <3>1. PICK forwarded : ClientApplies(f, ok, forwarded)
      BY <2>2, ClientArm
    <3>2. forwarded \in Seq(Event) /\ events' \in Seq(Event)
      BY <1>2, <2>0, <3>1, ClientApplyType
    <3> DEFINE ms == ObserveAll(matchers, events')
               fs == RecordFaults(faults, matchers, events')
    <3>3. /\ ms \in [DOMAIN Config -> Matcher] /\ fs \in [DOMAIN Config -> Event \cup {None}]
          /\ RecordedIn(ms, fs)
      BY <2>0, <3>2, ObserveAllFacts, RecordFaultsFacts, RecordedKept DEF ApplyTypeOK
    <3>4. matchers' = ObserveAll(ms, forwarded) /\ faults' = RecordFaults(fs, ms, forwarded)
      BY <3>1 DEF ClientApplies
    <3> HIDE DEF ms, fs
    <3> QED BY <3>2, <3>3, <3>4, RecordedKept
  <2>3. ASSUME NEW f \in BackendFrame, ServerFrame(f)
        PROVE  RecordedIn(matchers', faults')
    <3>1. /\ matchers' = ObserveAll(matchers, events')
          /\ faults' = RecordFaults(faults, matchers, events')
      BY <2>3 DEF ServerFrame, Observed
    <3>2. events' \in Seq(Event)
      BY <1>2 DEF TypeOK
    <3> QED BY <2>0, <3>1, <3>2, RecordedKept DEF ApplyTypeOK
  <2>4. CASE ClientEof \/ UpstreamEof \/ Failure \/ UNCHANGED proxyVars
    BY <2>1, <2>4 DEF ClientEof, UpstreamEof, Failure, Unrelayed, proxyVars, relayVars
  <2>5. RecordedIn(matchers', faults') => FaultsRecorded'
    BY DEF FaultsRecorded, RecordedIn
  <2> QED BY <1>2, <2>2, <2>3, <2>4, <2>5 DEF ProxyNext, ClientFrame
<1> QED BY <1>1, <1>2, DrivesState, TypeCorrect, ProxyTypeCorrect, PTL DEF ProxySpec
-----------------------------------------------------------------------------
(***************************************************************************)
(* Only ReadyForQuery reports the end of a transaction.                    *)
(***************************************************************************)
Silent(es) == \A k \in DOMAIN es : es[k].event \notin CompletedEvent

LEMMA SilentNames ==
    ASSUME NEW names, \A k \in DOMAIN names : names[k] \notin CompletedEvent, NEW cs, NEW epoch
    PROVE  Silent(BackendEvents(names, cs)) /\ Silent(FrontendEvents(names, cs, epoch))
<1>1. Silent(BackendEvents(names, cs))
  <2>1. DOMAIN BackendEvents(names, cs) = DOMAIN names
    BY DEF BackendEvents
  <2>2. \A k \in DOMAIN names : BackendEvents(names, cs)[k].event = names[k]
    BY DEF BackendEvents, BackendEvent
  <2> QED BY <2>1, <2>2 DEF Silent
<1>2. Silent(FrontendEvents(names, cs, epoch))
  <2>1. DOMAIN FrontendEvents(names, cs, epoch) = DOMAIN names
    BY DEF FrontendEvents
  <2>2. \A k \in DOMAIN names : FrontendEvents(names, cs, epoch)[k].event = names[k]
    BY DEF FrontendEvents, FrontendEvent
  <2> QED BY <2>1, <2>2 DEF Silent
<1> QED BY <1>1, <1>2

LEMMA SilentStep ==
    ASSUME NEW f, Frontend(f) \/ (Backend(f) /\ f.tag # "Z")
    PROVE  Silent(events')
<1>0. events' = <<>> => Silent(events')
  BY DEF Silent
<1>1. CASE \/ FrontendParse(f) \/ FrontendBind(f) \/ FrontendClose(f) \/ FrontendOther(f)
           \/ BackendParameterStatus(f) \/ BackendAcknowledge(f) \/ BackendPortalSuspended(f)
           \/ BackendOther(f)
  BY <1>0, <1>1 DEF FrontendParse, FrontendBind, FrontendClose, FrontendOther,
       BackendParameterStatus, BackendAcknowledge, BackendPortalSuspended, BackendOther
<1> DEFINE Plain == {"query.received", "frontend.execute", "statement.execution_started",
                     "transaction.begin.requested", "transaction.commit.requested",
                     "transaction.rollback.requested", "frontend.sync", "result.started",
                     "result.row", "backend.error", "backend.command_complete",
                     "statement.execution_completed", "result.completed"}
<1>2. \A n \in Plain : n \notin CompletedEvent
  BY DEF CompletedEvent
<1>3. CASE FrontendQuery(f) \/ FrontendExecute(f)
  <2>1. \E a \in {"query.received", "frontend.execute"} : \E s :
          events' = FrontendEvents(<<a, "statement.execution_started">> \o Requested(s),
                                   cycles', tx_epoch')
    <3>1. CASE FrontendQuery(f)
      <4>1. events' = FrontendEvents(<<"query.received", "statement.execution_started">>
                                       \o Requested(f.sql), cycles', tx_epoch')
        BY <3>1 DEF FrontendQuery, StartStatement
      <4> QED BY <4>1, Zenon
    <3>2. CASE FrontendExecute(f)
      <4>1. PICK s : events' = FrontendEvents(<<"frontend.execute",
                                                "statement.execution_started">>
                                                \o Requested(s), cycles', tx_epoch')
        BY <3>2 DEF FrontendExecute, StartStatement
      <4> QED BY <4>1, Zenon
    <3> QED BY <1>3, <3>1, <3>2
  <2>a. PICK a \in {"query.received", "frontend.execute"} : \E s :
          events' = FrontendEvents(<<a, "statement.execution_started">> \o Requested(s),
                                   cycles', tx_epoch')
    BY <2>1
  <2>2. PICK names :
          /\ events' = FrontendEvents(names, cycles', tx_epoch')
          /\ \E s : names = <<a, "statement.execution_started">> \o Requested(s)
    BY <2>a
  <2>3. \A k \in DOMAIN names : names[k] \in Plain
    <3>1. PICK s : names = <<a, "statement.execution_started">> \o Requested(s)
      BY <2>2
    <3>2. \/ Requested(s) = <<>>
          \/ \E b \in {"transaction.begin.requested", "transaction.commit.requested",
                        "transaction.rollback.requested"} : Requested(s) = <<b>>
      BY DEF Requested
    <3>3. \/ names = <<a, "statement.execution_started">>
          \/ \E b \in {"transaction.begin.requested", "transaction.commit.requested",
                        "transaction.rollback.requested"} :
                names = <<a, "statement.execution_started", b>>
      <4>1. <<a, "statement.execution_started">> \o <<>>
              = <<a, "statement.execution_started">>
        OBVIOUS
      <4>2. \A b : <<a, "statement.execution_started">> \o <<b>>
                     = <<a, "statement.execution_started", b>>
        BY TupleConcat
      <4> QED BY <3>1, <3>2, <4>1, <4>2, Zenon
    <3> QED BY <3>3
  <2> QED BY <1>2, <2>2, <2>3, SilentNames
<1>4. CASE FrontendSync(f) \/ BackendRowDescription(f) \/ BackendDataRow(f) \/ BackendError(f)
  <2>1. \E a \in Plain : \E cs, e :
          events' \in {BackendEvents(<<a>>, cs), FrontendEvents(<<a>>, cs, e)}
    BY <1>4 DEF FrontendSync, BackendRowDescription, BackendDataRow, BackendError
  <2>2. \A a \in Plain : \A k \in DOMAIN <<a>> : <<a>>[k] \notin CompletedEvent
    BY <1>2
  <2> QED BY <2>1, <2>2, SilentNames
<1>5. CASE BackendCommandComplete(f)
  <2> DEFINE names == <<"backend.command_complete", "statement.execution_completed",
                        "result.completed">>
  <2>1. \A k \in DOMAIN names : names[k] \notin CompletedEvent
    BY <1>2
  <2>2. events' = BackendEvents(names, cycles)
    BY <1>5 DEF BackendCommandComplete
  <2> HIDE DEF names
  <2> QED BY <2>1, <2>2, SilentNames
<1>6. CASE BackendReady(f)
  <2>1. f.tag = "Z" /\ Backend(f)
    BY <1>6 DEF BackendReady, Backend
  <2>2. ~Frontend(f)
    BY <2>1 DEF Frontend, FrontendParse, FrontendBind, FrontendClose, FrontendQuery,
                FrontendExecute, FrontendSync, FrontendOther
  <2> QED BY <2>1, <2>2
<1> QED BY <1>1, <1>3, <1>4, <1>5, <1>6 DEF Frontend, Backend

(***************************************************************************)
(* A matcher that waits for the end of a transaction is left alone by      *)
(* every other event.                                                      *)
(***************************************************************************)
LEMMA SilentObserve ==
    ASSUME NEW i \in DOMAIN Config, Config[i].when.event \in CompletedEvent,
           NEW ms, NEW es, Silent(es)
    PROVE  ObserveAll(ms, es)[i] = ms[i]
<1>1. ~MatchesOne(Config[i], ms[i], es)
  BY DEF MatchesOne, Matches, Silent
<1> QED BY <1>1 DEF ObserveAll, Observe

(***************************************************************************)
(* So a client frame, and a server frame that is not ReadyForQuery, leaves *)
(* the matchers of completed events as they are.                           *)
(***************************************************************************)
LEMMA WaitingMatchersKept ==
    ASSUME NEW i \in DOMAIN Config, Config[i].when.event \in CompletedEvent, NEW f,
           \/ \E ok \in BOOLEAN : ClientRelay(f, ok)
           \/ ServerFrame(f) /\ f.tag # "Z"
    PROVE  matchers'[i] = matchers[i]
<1>1. CASE \E ok \in BOOLEAN : ClientRelay(f, ok)
  <2>1. PICK ok \in BOOLEAN : ClientRelay(f, ok)
    BY <1>1
  <2>2. PICK forwarded : ClientApplies(f, ok, forwarded)
    BY <2>1, ClientArm
  <2>3. Silent(events')
    BY <2>1, SilentStep DEF ClientRelay
  <2>4. Silent(forwarded)
    <3>1. Forwarded(cycles', tx_epoch').event = "query.forwarded"
      BY DEF Forwarded, FrontendEvent
    <3>2. "query.forwarded" \notin CompletedEvent
      BY DEF CompletedEvent
    <3>3. forwarded = <<>> \/ forwarded = <<Forwarded(cycles', tx_epoch')>>
      BY <2>2 DEF ClientApplies
    <3> QED BY <3>1, <3>2, <3>3 DEF Silent
  <2>5. matchers' = ObserveAll(ObserveAll(matchers, events'), forwarded)
    BY <2>2 DEF ClientApplies
  <2> QED BY <2>3, <2>4, <2>5, SilentObserve
<1>2. CASE ServerFrame(f) /\ f.tag # "Z"
  <2>1. Silent(events') /\ matchers' = ObserveAll(matchers, events')
    BY <1>2, SilentStep DEF ServerFrame, Observed
  <2> QED BY <2>1, SilentObserve
<1> QED BY <1>1, <1>2

(***************************************************************************)
(* A scenario that has fired stays so.                                     *)
(***************************************************************************)
LEMMA FiredStays ==
    ASSUME TypeOK, TypeOK', ProxyTypeOK, [ProxyNext]_proxyVars,
           NEW i \in DOMAIN Config, matchers[i].fired
    PROVE  matchers'[i].fired
<1>0. matchers \in [DOMAIN Config -> Matcher]
  BY DEF ProxyTypeOK
<1>1. \A es : /\ ObserveAll(matchers, es) \in [DOMAIN Config -> Matcher]
              /\ ObserveAll(matchers, es)[i].fired
  BY <1>0, ObserveAllFacts
<1>2. ASSUME NEW f \in FrontendFrame, NEW ok \in BOOLEAN, ClientRelay(f, ok)
      PROVE  matchers'[i].fired
  <2>1. PICK forwarded : matchers' = ObserveAll(ObserveAll(matchers, events'), forwarded)
    BY <1>2, ClientArm DEF ClientApplies
  <2> DEFINE ms == ObserveAll(matchers, events')
  <2>2. ms \in [DOMAIN Config -> Matcher] /\ ms[i].fired
    BY <1>1
  <2> HIDE DEF ms
  <2>3. ObserveAll(ms, forwarded)[i].fired
    BY <2>2, ObserveAllFacts
  <2> QED BY <2>1, <2>3 DEF ms
<1>3. ASSUME NEW f \in BackendFrame, ServerFrame(f)
      PROVE  matchers'[i].fired
  BY <1>1, <1>3 DEF ServerFrame, Observed
<1>4. CASE ClientEof \/ UpstreamEof \/ Failure \/ UNCHANGED proxyVars
  BY <1>4 DEF ClientEof, UpstreamEof, Failure, Unrelayed, proxyVars, relayVars
<1> QED BY <1>2, <1>3, <1>4 DEF ProxyNext, ClientFrame

-----------------------------------------------------------------------------
(***************************************************************************)
(* The front of the queue: the last statement of the oldest cycle and its  *)
(* command tag say which end of a transaction it will report.              *)
(***************************************************************************)
FrontLast(cs) == IF cs = <<>> THEN NoSql ELSE cs[1].last

FrontCommand(cs) == IF cs = <<>> THEN "" ELSE cs[1].command

SameFront(cs, ds) == FrontLast(ds) = FrontLast(cs) /\ FrontCommand(ds) = FrontCommand(cs)

LEMMA EndingIs ==
    ASSUME TypeOK
    PROVE  Ending = IF reliable
                    THEN TransactionEnd(ClassOf(FrontLast(cycles)), FrontCommand(cycles), FALSE)
                    ELSE None
<1>1. CASE cycles = <<>>
  BY <1>1 DEF Ending, TransactionEnd, ClassOf, FrontLast
<1>2. CASE cycles # <<>>
  <2>1. cycles \in Seq(Cycle) /\ Head(cycles) = cycles[1]
    BY <1>2, EndsType DEF TypeOK
  <2> QED BY <1>2, <2>1 DEF Ending, TransactionEnd, FrontLast, FrontCommand
<1> QED BY <1>1, <1>2

(***************************************************************************)
(* Opening a cycle, and work that leaves the answers of a cycle alone,     *)
(* keep the front.                                                         *)
(***************************************************************************)
LEMMA FrontAppend ==
    ASSUME NEW cs \in Seq(Cycle), NEW c \in Cycle, c.last = NoSql, c.command = ""
    PROVE  SameFront(cs, Append(cs, c))
<1>1. Append(cs, c) \in Seq(Cycle) /\ Append(cs, c) # <<>>
  BY AppendProperties
<1>2. Append(cs, c)[1] = IF cs = <<>> THEN c ELSE cs[1]
  BY FirstOfAppend, Zenon
<1> QED BY <1>1, <1>2, Zenon DEF SameFront, FrontLast, FrontCommand

LEMMA FrontReplace ==
    ASSUME NEW cs \in Seq(Cycle), NEW i \in 1 .. Len(cs), NEW d,
           d.last = cs[i].last, d.command = cs[i].command
    PROVE  /\ SameFront(cs, [cs EXCEPT ![i] = d])
           /\ [cs EXCEPT ![i] = d] # <<>>
<1> DEFINE ds == [cs EXCEPT ![i] = d]
<1>1. cs # <<>> /\ 1 \in DOMAIN cs /\ i \in DOMAIN cs /\ DOMAIN ds = DOMAIN cs
  OBVIOUS
<1>2. ds[1] = IF i = 1 THEN d ELSE cs[1]
  BY <1>1
<1>3. ds # <<>>
  <2>1. DOMAIN <<>> = {}
    OBVIOUS
  <2> HIDE DEF ds
  <2> QED BY <1>1, <2>1
<1> HIDE DEF ds
<1>4. SameFront(cs, ds)
  BY <1>1, <1>2, <1>3 DEF SameFront, FrontLast, FrontCommand
<1> QED BY <1>3, <1>4 DEF ds

LEMMA FrontOpened ==
    ASSUME TypeOK, NEW extended \in BOOLEAN
    PROVE  SameFront(cycles, CyclesWith(extended))
<1>1. CASE OpensCycle(extended)
  <2>1. cycles \in Seq(Cycle) /\ FreshCycle(next_cycle + 1, extended) \in Cycle
    BY FreshCycleType DEF TypeOK
  <2>2. /\ FreshCycle(next_cycle + 1, extended).last = NoSql
        /\ FreshCycle(next_cycle + 1, extended).command = ""
    BY DEF FreshCycle
  <2> QED BY <1>1, <2>1, <2>2, FrontAppend DEF CyclesWith
<1>2. CASE ~OpensCycle(extended)
  BY <1>2 DEF CyclesWith, SameFront
<1> QED BY <1>1, <1>2

LEMMA FrontOpenedReplaced ==
    ASSUME TypeOK, NEW extended \in BOOLEAN, NEW d,
           d.last = Back(CyclesWith(extended)).last,
           d.command = Back(CyclesWith(extended)).command
    PROVE  /\ SameFront(cycles, SetBack(CyclesWith(extended), d))
           /\ SetBack(CyclesWith(extended), d) # <<>>
<1> DEFINE cs == CyclesWith(extended)
<1>1. cs \in Seq(Cycle) /\ Len(cs) \in 1 .. Len(cs)
  BY CyclesWithType
<1>2. SameFront(cycles, cs)
  BY FrontOpened
<1>3. SetBack(cs, d) = [cs EXCEPT ![Len(cs)] = d] /\ Back(cs) = cs[Len(cs)]
  BY DEF SetBack, Back
<1> HIDE DEF cs
<1>4. SameFront(cs, SetBack(cs, d)) /\ SetBack(cs, d) # <<>>
  BY <1>1, <1>3, FrontReplace DEF cs
<1> QED BY <1>2, <1>4 DEF SameFront, cs

(***************************************************************************)
(* frontend() never touches what the oldest cycle has been answered.       *)
(***************************************************************************)
LEMMA FrontendFront ==
    ASSUME TypeOK, NEW f \in FrontendFrame, Frontend(f)
    PROVE  /\ SameFront(cycles, cycles') /\ reliable' = reliable
           /\ cycles # <<>> => cycles' # <<>>
<1>0. TRUE \in BOOLEAN /\ FALSE \in BOOLEAN
  OBVIOUS
<1>1. \A e \in BOOLEAN : /\ SameFront(cycles, CyclesWith(e)) /\ CyclesWith(e) # <<>>
                         /\ Back(CyclesWith(e)) \in Cycle
  BY CyclesWithType, FrontOpened
<1>2. reliable' = reliable
  BY DEF Frontend, FrontendParse, FrontendBind, FrontendClose, FrontendQuery,
         FrontendExecute, FrontendSync, FrontendOther
<1>3. \A m : /\ SameFront(cycles, PushMutation(CyclesWith(TRUE), m))
             /\ PushMutation(CyclesWith(TRUE), m) # <<>>
  <2> SUFFICES ASSUME NEW m
               PROVE  /\ SameFront(cycles, PushMutation(CyclesWith(TRUE), m))
                      /\ PushMutation(CyclesWith(TRUE), m) # <<>>
    OBVIOUS
  <2> DEFINE b == Back(CyclesWith(TRUE))
             d == [b EXCEPT !.mutations = Append(@, m)]
  <2>1. d.last = b.last /\ d.command = b.command
    BY <1>0, <1>1 DEF Cycle
  <2>2. PushMutation(CyclesWith(TRUE), m) = SetBack(CyclesWith(TRUE), d)
    BY DEF PushMutation, SetBack, Back
  <2> HIDE DEF d
  <2> QED BY <1>0, <2>1, <2>2, FrontOpenedReplaced
<1>4. \A s, e, r : e \in BOOLEAN /\ StartStatement(r, s, e) =>
        SameFront(cycles, cycles') /\ cycles' # <<>>
  <2> SUFFICES ASSUME NEW s, NEW e \in BOOLEAN, NEW r, StartStatement(r, s, e)
               PROVE  SameFront(cycles, cycles') /\ cycles' # <<>>
    OBVIOUS
  <2> DEFINE b == Back(CyclesWith(e))
             alloc == AllocatesEpoch(CyclesWith(e))
             d == [b EXCEPT !.statements = Append(@, s), !.executions = @ + 1,
                            !.epoch_allocated = @ \/ alloc]
  <2>1. d.last = b.last /\ d.command = b.command
    BY <1>1 DEF Cycle
  <2>2. cycles' = SetBack(CyclesWith(e), d)
    BY DEF StartStatement
  <2> HIDE DEF d
  <2> QED BY <2>1, <2>2, FrontOpenedReplaced
<1>5. CASE FrontendParse(f)
  BY <1>0, <1>1, <1>2, <1>3, <1>5 DEF FrontendParse
<1>6. CASE FrontendBind(f)
  BY <1>0, <1>1, <1>2, <1>3, <1>6 DEF FrontendBind
<1>7. CASE FrontendClose(f)
  BY <1>2, <1>3, <1>7 DEF FrontendClose
<1>8. CASE FrontendQuery(f)
  BY <1>0, <1>2, <1>4, <1>8 DEF FrontendQuery
<1>9. CASE FrontendExecute(f)
  BY <1>0, <1>2, <1>4, <1>9 DEF FrontendExecute
<1>10. CASE FrontendSync(f)
  <2> DEFINE b == Back(CyclesWith(TRUE))
             d == [b EXCEPT !.sealed = TRUE]
  <2>1. d.last = b.last /\ d.command = b.command
    BY <1>0, <1>1 DEF Cycle
  <2>2. cycles' = SetBack(CyclesWith(TRUE), d)
    BY <1>10 DEF FrontendSync, SetBack, Back
  <2> HIDE DEF d
  <2> QED BY <1>0, <1>2, <2>1, <2>2, FrontOpenedReplaced
<1>11. CASE FrontendOther(f)
  BY <1>2, <1>11 DEF FrontendOther, SameFront
<1> QED BY <1>5, <1>6, <1>7, <1>8, <1>9, <1>10, <1>11 DEF Frontend

(***************************************************************************)
(* backend() changes the front only at CommandComplete, PortalSuspended    *)
(* and ReadyForQuery, and only ReadyForQuery takes a cycle from the queue  *)
(* or restores trust in the attribution.                                   *)
(***************************************************************************)
LEMMA BackendFront ==
    ASSUME TypeOK, NEW f \in BackendFrame, Backend(f), f.tag # "Z"
    PROVE  /\ cycles # <<>> => cycles' # <<>>
           /\ reliable' => reliable
           /\ f.tag \notin {"C", "s"} => SameFront(cycles, cycles')
           /\ f.tag \in {"C", "s"} /\ cycles = <<>> => cycles' = <<>>
           /\ f.tag \in {"C", "s"} /\ cycles # <<>> =>
                FrontLast(cycles') = CurrentStatement(Head(cycles))
           /\ f.tag = "C" /\ cycles # <<>> => FrontCommand(cycles') = f.command
<1>0. cycles \in Seq(Cycle)
  BY DEF TypeOK
<1>1. ASSUME cycles # <<>>
      PROVE  1 \in 1 .. Len(cycles) /\ Head(cycles) \in Cycle /\ Head(cycles) = cycles[1]
  BY <1>0, <1>1, EndsType
<1>2. ASSUME NEW d, cycles # <<>>, cycles' = SetFront(d)
      PROVE  /\ cycles' # <<>> /\ FrontLast(cycles') = d.last /\ FrontCommand(cycles') = d.command
             /\ d.last = Head(cycles).last /\ d.command = Head(cycles).command
                  => SameFront(cycles, cycles')
  <2>1. cycles' = [cycles EXCEPT ![1] = d]
    BY <1>2 DEF SetFront
  <2>2. 1 \in DOMAIN cycles /\ DOMAIN cycles' = DOMAIN cycles /\ DOMAIN <<>> = {}
    BY <1>0, <1>1, <1>2, <2>1
  <2>3. cycles' # <<>> /\ cycles'[1] = d
    BY <2>1, <2>2
  <2> QED BY <1>1, <1>2, <2>3 DEF FrontLast, FrontCommand, SameFront
<1>3. CASE f.tag \in {"S", "T", "N"}
  BY <1>3 DEF Backend, BackendParameterStatus, BackendAcknowledge, BackendRowDescription,
       BackendDataRow, BackendCommandComplete, BackendPortalSuspended, BackendError,
       BackendReady, BackendOther, SameFront
<1>4. CASE f.tag \in {"1", "2", "3"}
  <2>1. BackendAcknowledge(f)
    BY <1>4 DEF Backend, BackendParameterStatus, BackendRowDescription, BackendDataRow,
         BackendCommandComplete, BackendPortalSuspended, BackendError, BackendReady, BackendOther
  <2>2. reliable' => reliable
    BY <2>1 DEF BackendAcknowledge
  <2>3. CASE Unacknowledged = <<>>
    BY <1>4, <2>1, <2>2, <2>3 DEF BackendAcknowledge, SameFront
  <2>4. CASE Unacknowledged # <<>>
    <3>1. cycles # <<>>
      BY <2>4 DEF Unacknowledged
    <3> DEFINE d == [Head(cycles) EXCEPT !.mutations = Tail(@)]
    <3>2. d.last = Head(cycles).last /\ d.command = Head(cycles).command
      BY <1>1, <3>1 DEF Cycle
    <3>3. cycles' = [cycles EXCEPT ![1].mutations = Tail(@)]
      BY <2>1, <2>4 DEF BackendAcknowledge
    <3>4. cycles' = SetFront(d)
      BY <1>1, <3>1, <3>3 DEF SetFront
    <3> HIDE DEF d
    <3> QED BY <1>2, <1>4, <2>2, <3>1, <3>2, <3>4
  <2> QED BY <2>3, <2>4
<1>5. CASE f.tag = "D"
  <2>1. BackendDataRow(f)
    BY <1>5 DEF Backend, BackendParameterStatus, BackendAcknowledge, BackendRowDescription,
         BackendCommandComplete, BackendPortalSuspended, BackendError, BackendReady, BackendOther
  <2> DEFINE d == [Head(cycles) EXCEPT !.rows = @ + 1]
  <2>2. cycles' = SetFront(d) /\ reliable' = reliable
    BY <2>1 DEF BackendDataRow
  <2>3. cycles # <<>> => d.last = Head(cycles).last /\ d.command = Head(cycles).command
    BY <1>1 DEF Cycle
  <2>4. cycles = <<>> => cycles' = cycles
    BY <2>2 DEF SetFront
  <2> HIDE DEF d
  <2> QED BY <1>2, <1>5, <2>2, <2>3, <2>4 DEF SameFront
<1>6. CASE f.tag = "E"
  <2>1. BackendError(f)
    BY <1>6 DEF Backend, BackendParameterStatus, BackendAcknowledge, BackendRowDescription,
         BackendDataRow, BackendCommandComplete, BackendPortalSuspended, BackendReady, BackendOther
  <2> DEFINE d == [Head(cycles) EXCEPT !.error = TRUE, !.mutations = <<>>]
  <2>2. cycles' = SetFront(d) /\ reliable' = reliable
    BY <2>1 DEF BackendError
  <2>3. cycles # <<>> => d.last = Head(cycles).last /\ d.command = Head(cycles).command
    BY <1>1 DEF Cycle
  <2>4. cycles = <<>> => cycles' = cycles
    BY <2>2 DEF SetFront
  <2> HIDE DEF d
  <2> QED BY <1>2, <1>6, <2>2, <2>3, <2>4 DEF SameFront
<1>7. CASE f.tag = "s"
  <2>1. BackendPortalSuspended(f)
    BY <1>7 DEF Backend, BackendParameterStatus, BackendAcknowledge, BackendRowDescription,
         BackendDataRow, BackendCommandComplete, BackendError, BackendReady, BackendOther
  <2> DEFINE d == Finish(Head(cycles))
  <2>2. cycles' = SetFront(d) /\ reliable' = reliable
    BY <2>1 DEF BackendPortalSuspended
  <2>3. cycles # <<>> => d.last = CurrentStatement(Head(cycles))
    BY <1>1 DEF Cycle, Finish
  <2>4. cycles = <<>> => cycles' = cycles
    BY <2>2 DEF SetFront
  <2> HIDE DEF d
  <2> QED BY <1>2, <1>7, <2>2, <2>3, <2>4
<1>8. CASE f.tag = "C"
  <2>1. BackendCommandComplete(f)
    BY <1>8 DEF Backend, BackendParameterStatus, BackendAcknowledge, BackendRowDescription,
         BackendDataRow, BackendPortalSuspended, BackendError, BackendReady, BackendOther
  <2> DEFINE c == Finish(Head(cycles))
             d == [c EXCEPT !.command = f.command,
                            !.statement_index = IF c.extended THEN @ + 1 ELSE @]
  <2>2. cycles' = SetFront(d) /\ reliable' = reliable
    BY <2>1 DEF BackendCommandComplete
  <2>3. cycles # <<>> => c \in Cycle /\ c.last = CurrentStatement(Head(cycles))
    BY <1>1, FinishType DEF Cycle, Finish
  <2>4. cycles # <<>> => d.last = c.last /\ d.command = f.command
    <3> HIDE DEF c
    <3> QED BY <2>3 DEF Cycle
  <2>5. cycles = <<>> => cycles' = cycles
    BY <2>2 DEF SetFront
  <2> HIDE DEF d, c
  <2> QED BY <1>2, <1>8, <2>2, <2>3, <2>4, <2>5
<1>9. f.tag \in {"S", "T", "N", "1", "2", "3", "D", "E", "s", "C"}
  BY DEF BackendFrame
<1> QED BY <1>3, <1>4, <1>5, <1>6, <1>7, <1>8, <1>9
-----------------------------------------------------------------------------
(***************************************************************************)
(* The completion gate.                                                    *)
(***************************************************************************)

(***************************************************************************)
(* The boundary the gate is decided by is the end of the transaction that  *)
(* the cycle reports once backend() has consumed the CommandComplete.      *)
(***************************************************************************)
LEMMA BoundaryIsEnding ==
    ASSUME TypeOK, TypeOK', NEW f \in BackendFrame, f.tag = "C", Backend(f), Ending' # None
    PROVE  CompletionBoundary(f) = Ending' /\ Ending' \in CompletedEvent
<1> DEFINE last == FrontLast(cycles')
           command == FrontCommand(cycles')
<1>1. Ending' = IF reliable' THEN TransactionEnd(ClassOf(last), command, FALSE) ELSE None
  <2>1. (TypeOK => Ending = IF reliable
                   THEN TransactionEnd(ClassOf(FrontLast(cycles)), FrontCommand(cycles), FALSE)
                   ELSE None)'
    BY EndingIs, PTL
  <2> QED BY <2>1
<1>2. reliable /\ Ending' = TransactionEnd(ClassOf(last), command, FALSE)
  BY <1>1, BackendFront
<1>3. CASE cycles = <<>>
  <2>1. last = NoSql
    BY <1>3, BackendFront DEF FrontLast
  <2> QED BY <1>2, <2>1 DEF TransactionEnd, ClassOf
<1>4. CASE cycles # <<>>
  <2>1. last = CurrentStatement(Head(cycles)) /\ command = f.command
    BY <1>4, BackendFront
  <2> HIDE DEF last, command
  <2>2. \/ /\ ClassOf(last) = "Commit" /\ command = "COMMIT"
           /\ Ending' = "transaction.commit.completed"
        \/ /\ ClassOf(last) = "Rollback" /\ command = "ROLLBACK"
           /\ Ending' = "transaction.rollback.completed"
    BY <1>2 DEF TransactionEnd
  <2>3. CompletionBoundary(f) = TransactionEnd(ClassOf(last), command,
          tx_state = "Idle" /\ ClassOf(last) \notin {"Begin", "Other"})
    BY <1>2, <1>4, <2>1, <2>2 DEF CompletionBoundary
  <2> QED BY <2>2, <2>3 DEF TransactionEnd, CompletedEvent
<1> QED BY <1>3, <1>4

(***************************************************************************)
(* A gated frame is never written: it is dropped, held, or the connection  *)
(* ends; and the gate is closed by a CommandComplete only, on behalf of a  *)
(* scenario that waits for a completed event.                              *)
(***************************************************************************)
LEMMA GateFacts ==
    ASSUME NEW f, Gate(f)
    PROVE  /\ f.tag = "C" /\ cycles # <<>>
           /\ \E i \in DOMAIN Config : ~matchers[i].fired /\ Config[i].when.event \in CompletedEvent
           /\ Disposal(f) \in {"dropped", "held", "overflow"}
<1>1. PICK i \in DOMAIN Config : /\ CompletionBoundary(f) # None
                                 /\ NeedsGate(Config[i], matchers[i], CompletionBoundary(f))
  BY DEF Gate
<1>2. f.tag = "C" /\ cycles # <<>>
  BY <1>1 DEF CompletionBoundary
<1>3. CompletionBoundary(f) \in CompletedEvent
  BY <1>1 DEF CompletionBoundary, TransactionEnd, CompletedEvent
<1>4. ~matchers[i].fired /\ Config[i].when.event \in CompletedEvent
  BY <1>1, <1>3 DEF NeedsGate
<1>5. Disposal(f) \in {"dropped", "held", "overflow"}
  BY DEF Disposal
<1> QED BY <1>2, <1>4, <1>5

(***************************************************************************)
(* What a step that leaves the connection open can be.                     *)
(***************************************************************************)
LEMMA OpenSteps ==
    ASSUME [ProxyNext]_proxyVars, conn' = "open"
    PROVE  \/ UNCHANGED proxyVars
           \/ \E f \in FrontendFrame : \E ok \in BOOLEAN :
                 conn = "open" /\ ClientRelay(f, ok)
           \/ \E f \in BackendFrame :
                 /\ conn = "open" /\ ServerMaySend(f) /\ Observed(f) /\ ServerFrame(f)
                 /\ \/ ServerReady(f)
                    \/ ServerRelayed(f) /\ Disposal(f) # "overflow" /\ f.tag # "Z"
<1>1. ASSUME NEW f \in FrontendFrame, ClientFrame(f)
      PROVE  \E ok \in BOOLEAN : conn = "open" /\ ClientRelay(f, ok)
  BY <1>1 DEF ClientFrame, ClientRelay
<1>2. ASSUME NEW f \in BackendFrame, ServerMaySend(f), ServerFrame(f)
      PROVE  /\ conn = "open" /\ Observed(f)
             /\ \/ ServerReady(f)
                \/ ServerRelayed(f) /\ Disposal(f) # "overflow" /\ f.tag # "Z"
  <2>1. conn = "open" /\ Observed(f)
    BY <1>2 DEF ServerFrame, Observed
  <2>2. ~ServerDisconnected /\ ~ServerCut(f) /\ ~ServerWriteFails(f)
    BY DEF ServerDisconnected, ServerCut, ServerWriteFails, Return
  <2>3. ServerRelayed(f) => Disposal(f) # "overflow" /\ f.tag # "Z"
    BY DEF ServerRelayed, Return
  <2> QED BY <1>2, <2>1, <2>2, <2>3 DEF ServerFrame
<1>3. ~ClientEof /\ ~UpstreamEof /\ ~Failure
  BY DEF ClientEof, UpstreamEof, Failure, Return
<1> QED BY <1>1, <1>2, <1>3 DEF ProxyNext

(***************************************************************************)
(* While frames are held, a scenario waits for the end of a transaction.   *)
(***************************************************************************)
HeldArmed ==
    conn = "open" /\ held # <<>> =>
        \E i \in DOMAIN Config : ~matchers[i].fired /\ Config[i].when.event \in CompletedEvent

LEMMA HeldStep ==
    ASSUME TypeOK, TypeOK', ProxyTypeOK, HeldWithinCycle, HeldArmed, [ProxyNext]_proxyVars
    PROVE  HeldWithinCycle' /\ HeldArmed'
<1> SUFFICES ASSUME conn' = "open", held' # <<>>
             PROVE  /\ cycles' # <<>> /\ held'[1].tag = "C" /\ Len(held') <= GateLimit
                    /\ \A k \in DOMAIN held' : held'[k].tag # "Z"
                    /\ \E i \in DOMAIN Config :
                          ~matchers'[i].fired /\ Config[i].when.event \in CompletedEvent
  BY DEF HeldWithinCycle, HeldArmed
<1>1. CASE UNCHANGED proxyVars
  BY <1>1 DEF proxyVars, relayVars, stateVars, HeldWithinCycle, HeldArmed
<1>2. ASSUME NEW f \in FrontendFrame, NEW ok \in BOOLEAN, conn = "open", ClientRelay(f, ok)
      PROVE  /\ cycles' # <<>> /\ held'[1].tag = "C" /\ Len(held') <= GateLimit
             /\ \A k \in DOMAIN held' : held'[k].tag # "Z"
             /\ \E i \in DOMAIN Config :
                   ~matchers'[i].fired /\ Config[i].when.event \in CompletedEvent
  <2>1. held' = held /\ Frontend(f)
    BY <1>2 DEF ClientRelay
  <2>2. PICK i \in DOMAIN Config : ~matchers[i].fired /\ Config[i].when.event \in CompletedEvent
    BY <1>2, <2>1 DEF HeldArmed
  <2>3. matchers'[i] = matchers[i]
    BY <1>2, <2>2, WaitingMatchersKept
  <2>4. /\ cycles # <<>> /\ held[1].tag = "C" /\ \A k \in DOMAIN held : held[k].tag # "Z"
        /\ Len(held) <= GateLimit
    BY <1>2, <2>1 DEF HeldWithinCycle
  <2>5. cycles' # <<>>
    BY <2>1, <2>4, FrontendFront
  <2> QED BY <2>1, <2>2, <2>3, <2>4, <2>5
<1>3. ASSUME NEW f \in BackendFrame, conn = "open", Observed(f), ServerFrame(f),
             ServerRelayed(f), Disposal(f) # "overflow", f.tag # "Z"
      PROVE  /\ cycles' # <<>> /\ held'[1].tag = "C" /\ Len(held') <= GateLimit
             /\ \A k \in DOMAIN held' : held'[k].tag # "Z"
             /\ \E i \in DOMAIN Config :
                   ~matchers'[i].fired /\ Config[i].when.event \in CompletedEvent
  <2>0. /\ held \in Seq(BackendFrame) /\ Backend(f)
        /\ held' = IF Disposal(f) = "held" THEN Append(held, f) ELSE held
    BY <1>3 DEF ProxyTypeOK, Observed, ServerRelayed
  <2>1. Append(held, f) \in Seq(BackendFrame) /\ DOMAIN Append(held, f) = 1 .. Len(held) + 1
    BY <2>0, AppendProperties
  <2>2. /\ \A k \in 1 .. Len(held) : Append(held, f)[k] = held[k]
        /\ Append(held, f)[Len(held) + 1] = f
        /\ DOMAIN held = 1 .. Len(held) /\ Len(held) \in Nat
    BY <2>0, AppendProperties
  <2>a. Len(held') <= GateLimit
    <3>1. CASE Disposal(f) = "held"
      <4>1. Len(held) + 1 <= GateLimit
        BY <2>2, <3>1, ConfigAssumption DEF Disposal
      <4>2. Len(Append(held, f)) = Len(held) + 1
        BY <2>0, AppendProperties
      <4> QED BY <2>0, <3>1, <4>1, <4>2
    <3>2. CASE Disposal(f) # "held"
      BY <1>3, <2>0, <3>2 DEF HeldWithinCycle
    <3> QED BY <3>1, <3>2
  <2>3. CASE held # <<>>
    <3>1. PICK i \in DOMAIN Config : ~matchers[i].fired /\ Config[i].when.event \in CompletedEvent
      BY <1>3, <2>3 DEF HeldArmed
    <3>2. matchers'[i] = matchers[i]
      BY <1>3, <3>1, WaitingMatchersKept
    <3>3. cycles # <<>> /\ held[1].tag = "C" /\ \A k \in DOMAIN held : held[k].tag # "Z"
      BY <1>3, <2>3 DEF HeldWithinCycle
    <3>4. cycles' # <<>>
      BY <1>3, <2>0, <3>3, BackendFront
    <3>5. 1 \in 1 .. Len(held)
      BY <2>0, <2>3, EndsType
    <3>6. /\ Append(held, f)[1].tag = "C"
          /\ \A k \in DOMAIN Append(held, f) : Append(held, f)[k].tag # "Z"
      <4>1. Append(held, f)[1].tag = "C"
        BY <2>2, <3>3, <3>5, Zenon
      <4>2. \A k \in 1 .. Len(held) + 1 : k \in 1 .. Len(held) \/ k = Len(held) + 1
        BY <2>2
      <4>3. \A k \in DOMAIN Append(held, f) : Append(held, f)[k].tag # "Z"
        BY <1>3, <2>1, <2>2, <3>3, <4>2, Zenon
      <4> QED BY <4>1, <4>3
    <3>7. held'[1].tag = "C" /\ \A k \in DOMAIN held' : held'[k].tag # "Z"
      BY <2>0, <3>3, <3>6, Zenon
    <3> QED BY <2>a, <3>1, <3>2, <3>4, <3>7
  <2>4. CASE held = <<>>
    <3>1. Disposal(f) = "held" /\ held' = <<f>>
      BY <2>0, <2>4
    <3>2. Gate(f)
      BY <2>4, <3>1 DEF Disposal
    <3>3. f.tag = "C" /\ cycles # <<>>
      BY <3>2, GateFacts
    <3>4. PICK i \in DOMAIN Config : ~matchers[i].fired /\ Config[i].when.event \in CompletedEvent
      BY <3>2, GateFacts
    <3>5. matchers'[i] = matchers[i]
      BY <1>3, <3>4, WaitingMatchersKept
    <3>6. cycles' # <<>>
      BY <1>3, <2>0, <3>3, BackendFront
    <3>7. held'[1].tag = "C" /\ \A k \in DOMAIN held' : held'[k].tag # "Z"
      BY <3>1, <3>3
    <3> QED BY <2>a, <3>4, <3>5, <3>6, <3>7
  <2> QED BY <2>3, <2>4
<1>4. ASSUME NEW f \in BackendFrame, ServerReady(f) PROVE FALSE
  BY <1>4 DEF ServerReady
<1> QED BY <1>1, <1>2, <1>3, <1>4, OpenSteps

LEMMA HeldInvariant == ProxySpec => [](HeldWithinCycle /\ HeldArmed)
<1>1. ProxyInit => HeldWithinCycle /\ HeldArmed
  BY DEF ProxyInit, HeldWithinCycle, HeldArmed
<1>2. TypeOK /\ TypeOK' /\ ProxyTypeOK /\ (HeldWithinCycle /\ HeldArmed) /\ [ProxyNext]_proxyVars
        => (HeldWithinCycle /\ HeldArmed)'
  BY HeldStep
<1> QED BY <1>1, <1>2, DrivesState, TypeCorrect, ProxyTypeCorrect, PTL DEF ProxySpec

(***************************************************************************)
(* The gate closes on a CommandComplete only, and what it holds belongs to *)
(* the oldest cycle, whose ReadyForQuery is still to come, and stays       *)
(* within the limit (connection()).                                        *)
(***************************************************************************)
THEOREM HeldCorrect == ProxySpec => []HeldWithinCycle
BY HeldInvariant, PTL

(***************************************************************************)
(* Frames that leave the front of the queue alone leave its end alone too, *)
(* or make it None.                                                        *)
(***************************************************************************)
LEMMA EndingKept ==
    ASSUME TypeOK, TypeOK', SameFront(cycles, cycles'), reliable' => reliable, Ending' # None
    PROVE  Ending = Ending'
<1>1. Ending = IF reliable
               THEN TransactionEnd(ClassOf(FrontLast(cycles)), FrontCommand(cycles), FALSE)
               ELSE None
  BY EndingIs
<1>2. (TypeOK => Ending = IF reliable
                 THEN TransactionEnd(ClassOf(FrontLast(cycles)), FrontCommand(cycles), FALSE)
                 ELSE None)'
  BY EndingIs, PTL
<1> QED BY <1>1, <1>2 DEF SameFront

LEMMA GateStep ==
    ASSUME TypeOK, TypeOK', Structure, ProxyTypeOK, GateHolds, [ProxyNext]_proxyVars
    PROVE  GateHolds'
<1> SUFFICES ASSUME conn' = "open", Ending' # None, NEW i \in DOMAIN Config,
                    ~matchers'[i].fired, Config[i].when.event = Ending'
             PROVE  ack' \in {"held", "dropped"}
  BY DEF GateHolds
<1>0. ~matchers[i].fired
  BY FiredStays
<1>1. (TypeOK => Ending = IF reliable
                 THEN TransactionEnd(ClassOf(FrontLast(cycles)), FrontCommand(cycles), FALSE)
                 ELSE None)'
  BY EndingIs, PTL
<1>2. CASE UNCHANGED proxyVars
  <2>1. ack' = ack /\ conn' = conn /\ Ending' = Ending
    BY <1>2 DEF proxyVars, relayVars, stateVars, Ending
  <2> QED BY <1>0, <2>1 DEF GateHolds
<1>3. ASSUME NEW f \in FrontendFrame, NEW ok \in BOOLEAN, conn = "open", ClientRelay(f, ok)
      PROVE  ack' \in {"held", "dropped"}
  <2>1. ack' = ack /\ Frontend(f)
    BY <1>3 DEF ClientRelay
  <2>2. Ending = Ending'
    BY <2>1, FrontendFront, EndingKept
  <2> QED BY <1>0, <1>3, <2>1, <2>2 DEF GateHolds
<1>4. ASSUME NEW f \in BackendFrame, conn = "open", ServerMaySend(f), Observed(f),
             ServerRelayed(f), Disposal(f) # "overflow", f.tag # "Z"
      PROVE  ack' \in {"held", "dropped"}
  <2>0. Backend(f)
    BY <1>4 DEF Observed
  <2>1. CASE f.tag \notin {"C", "s"}
    <3>1. Ending = Ending'
      BY <1>4, <2>0, <2>1, BackendFront, EndingKept
    <3>2. ack' = ack
      BY <1>4, <2>1 DEF ServerRelayed
    <3> QED BY <1>0, <1>4, <3>1, <3>2 DEF GateHolds
  <2>2. CASE f.tag = "s"
    <3>1. ClassOf(FrontLast(cycles')) \notin {"Commit", "Rollback"}
      <4>1. CASE cycles = <<>>
        <5>1. cycles' = <<>>
          BY <1>4, <2>0, <2>2, <4>1, BackendFront
        <5> QED BY <5>1 DEF FrontLast, ClassOf
      <4>2. CASE cycles # <<>>
        <5>1. FrontLast(cycles') = CurrentStatement(Head(cycles))
          BY <1>4, <2>0, <2>2, <4>2, BackendFront
        <5> QED BY <1>4, <2>2, <4>2, <5>1 DEF ServerMaySend
      <4> QED BY <4>1, <4>2
    <3> QED BY <1>1, <3>1 DEF TransactionEnd
  <2>3. CASE f.tag = "C"
    <3>1. CompletionBoundary(f) = Ending'
      BY <2>0, <2>3, BoundaryIsEnding
    <3>2. Gate(f)
      BY <1>0, <3>1 DEF Gate, NeedsGate
    <3>3. ack' = Disposal(f)
      BY <1>4, <2>3 DEF ServerRelayed
    <3> QED BY <1>4, <3>2, <3>3, GateFacts
  <2> QED BY <2>1, <2>2, <2>3
<1>5. ASSUME NEW f \in BackendFrame, ServerMaySend(f), Observed(f), ServerReady(f)
      PROVE  FALSE
  <2>1. f.tag = "Z" /\ Backend(f) /\ StatusOf(f) # None
    <3>1. f.tag = "Z" /\ Backend(f) /\ f.status # "?"
      BY <1>5 DEF ServerReady, Observed, ServerMaySend
    <3>2. f.status \in {"I", "T", "E"}
      BY <3>1 DEF BackendFrame
    <3> QED BY <3>1, <3>2, NameAssumption DEF StatusOf, TxState
  <2>2. cycles' = Rest(cycles)
    <3>1. BackendReady(f)
      BY <2>1 DEF Backend, BackendParameterStatus, BackendAcknowledge, BackendRowDescription,
           BackendDataRow, BackendCommandComplete, BackendPortalSuspended, BackendError, BackendOther
    <3> QED BY <3>1 DEF BackendReady
  <2>3. cycles \in Seq(Cycle) /\ cycles' \in Seq(Cycle)
    BY DEF TypeOK
  <2>4. CASE cycles' = <<>>
    BY <1>1, <2>4 DEF FrontLast, ClassOf, TransactionEnd
  <2>5. CASE cycles' # <<>>
    <3>1. cycles # <<>> /\ cycles' = Tail(cycles)
      BY <2>2, <2>5 DEF Rest
    <3>2. 2 \in 2 .. Len(cycles) /\ cycles'[1] = cycles[2]
      <4>1. 1 \in 1 .. Len(Tail(cycles)) /\ Len(Tail(cycles)) = Len(cycles) - 1
        BY <2>3, <2>5, <3>1, EndsType
      <4> QED BY <2>3, <3>1, <4>1
    <3>3. cycles[2].command = ""
      BY <3>2 DEF Structure, LaterCyclesUnanswered
    <3>4. FrontCommand(cycles') = ""
      BY <2>5, <3>2, <3>3 DEF FrontCommand
    <3> QED BY <1>1, <3>4 DEF TransactionEnd
  <2> QED BY <2>4, <2>5
<1> QED BY <1>2, <1>3, <1>4, <1>5, OpenSteps

(***************************************************************************)
(* The completion gate works: while some scenario may still fire on the    *)
(* end of the transaction that the oldest cycle is about to report, the    *)
(* CommandComplete that announces it has not reached the client, whatever  *)
(* the client pipelines (completion_boundary() and connection()).          *)
(***************************************************************************)
THEOREM GateCorrect == ProxySpec => []GateHolds
<1>1. ProxyInit => GateHolds
  BY DEF ProxyInit, Init, GateHolds, Ending
<1>2. TypeOK /\ TypeOK' /\ Structure /\ ProxyTypeOK /\ GateHolds /\ [ProxyNext]_proxyVars
        => GateHolds'
  BY GateStep
<1> QED BY <1>1, <1>2, DrivesState, TypeCorrect, StructureCorrect, ProxyTypeCorrect, PTL
        DEF ProxySpec
-----------------------------------------------------------------------------
(***************************************************************************)
(* The loop implements Relay.                                              *)
(***************************************************************************)
Armed == {i \in DOMAIN Config : ~matchers[i].fired}

LEMMA ArmedShrinks ==
    ASSUME TypeOK, TypeOK', ProxyTypeOK, [ProxyNext]_proxyVars
    PROVE  Armed' \subseteq Armed
BY FiredStays DEF Armed

(***************************************************************************)
(* A frame is suppressed, or a socket cut, only by a scenario that was     *)
(* armed and now is not.                                                   *)
(***************************************************************************)
LEMMA ServerInterferes ==
    ASSUME ProxyTypeOK, NEW f, Observed(f), Suppresses(fired')
    PROVE  Armed' # Armed
<1>1. PICK i \in fired' : Config[i].action.suppress = TRUE
  BY DEF Suppresses
<1>2. i \in DOMAIN Config /\ matchers'[i].fired /\ ~matchers[i].fired
  BY ObserveAllFacts DEF Observed, ProxyTypeOK
<1> QED BY <1>2 DEF Armed

LEMMA ClientInterferes ==
    ASSUME ProxyTypeOK, NEW f, NEW ok, NEW forwarded, ClientApplies(f, ok, forwarded),
           NEW i \in Fired(matchers, events')
    PROVE  Armed' # Armed
<1> DEFINE ms == ObserveAll(matchers, events')
<1>1. /\ ms \in [DOMAIN Config -> Matcher] /\ i \in DOMAIN Config
      /\ ms[i].fired /\ ~matchers[i].fired
  <2>1. matchers \in [DOMAIN Config -> Matcher]
    BY DEF ProxyTypeOK
  <2>2. /\ ms \in [DOMAIN Config -> Matcher]
        /\ Fired(matchers, events') = {j \in DOMAIN Config : ms[j].fired /\ ~matchers[j].fired}
    BY <2>1, ObserveAllFacts
  <2> HIDE DEF ms
  <2> QED BY <2>2
<1>2. matchers' = ObserveAll(ms, forwarded)
  BY DEF ClientApplies
<1> HIDE DEF ms
<1>3. matchers'[i].fired
  BY <1>1, <1>2, ObserveAllFacts
<1> QED BY <1>1, <1>3 DEF Armed

(***************************************************************************)
(* The client's arm passes its frame up, or a scenario drops it, or the    *)
(* connection ends.                                                        *)
(***************************************************************************)
LEMMA ClientRefines ==
    ASSUME TypeOK, TypeOK', ProxyTypeOK, NEW f \in FrontendFrame, NEW ok \in BOOLEAN,
           ClientRelay(f, ok), Armed' \subseteq Armed
    PROVE  Promise!PassUp \/ Promise!End
<1>1. /\ conn = "open" /\ input' = f /\ to_client' = <<>> /\ held' = held
      /\ conn' = "open" => ~Disconnects(fired') /\ ok
  BY DEF ClientRelay, Return, StayOpen
<1>2. PICK forwarded : ClientApplies(f, ok, forwarded)
  BY ClientArm
<1>3. to_server' \in {<<>>, <<f>>}
  BY <1>2 DEF ClientApplies
<1>4. CASE conn' = "open"
  <2>1. to_server' = <<f>> \/ (to_server' = <<>> /\ Armed' # Armed)
    <3>1. CASE to_server' = <<>> /\ to_server' # <<f>>
      <4>1. Suppresses(Fired(matchers, events')) \/ Disconnects(Fired(matchers, events'))
        BY <1>1, <1>2, <1>4, <3>1 DEF ClientApplies
      <4>2. \E i : i \in Fired(matchers, events')
        BY <4>1 DEF Suppresses, Disconnects
      <4> QED BY <1>2, <3>1, <4>2, ClientInterferes
    <3> QED BY <1>3, <3>1
  <2> QED BY <1>1, <1>4, <2>1 DEF Promise!PassUp, Promise!Fire, Promise!Interfered, Armed
<1>5. CASE conn' # "open"
  <2>1. held \in Seq(BackendFrame)
    BY DEF ProxyTypeOK
  <2>2. 0 \in 0 .. Len(held) /\ SubSeq(held, 1, 0) = <<>>
    BY <2>1
  <2>3. \E n \in 0 .. Len(held) : to_client' = SubSeq(held, 1, n)
    BY <1>1, <2>2
  <2> QED BY <1>1, <1>3, <1>5, <2>3 DEF Promise!End, Promise!Fire, Armed
<1> QED BY <1>4, <1>5

(***************************************************************************)
(* The server's arm passes frames down, drops one or ends the connection.  *)
(***************************************************************************)
LEMMA ServerRefines ==
    ASSUME TypeOK, TypeOK', ProxyTypeOK, HeldArmed, HeldArmed', NEW f \in BackendFrame,
           ServerFrame(f), Armed' \subseteq Armed
    PROVE  Promise!PassDown \/ Promise!Drop \/ Promise!End
<1>0. /\ conn = "open" /\ Observed(f) /\ input' = f /\ to_server' = <<>>
      /\ held \in Seq(BackendFrame) /\ 0 \in 0 .. Len(held) /\ SubSeq(held, 1, 0) = <<>>
  <2>1. held \in Seq(BackendFrame)
    BY DEF ProxyTypeOK
  <2>2. 0 \in 0 .. Len(held) /\ SubSeq(held, 1, 0) = <<>>
    BY <2>1
  <2> QED BY <2>1, <2>2 DEF ServerFrame, Observed
<1>1. ASSUME conn' # "open", held' \in {held, <<>>, Append(held, f)},
             \/ \E n \in 0 .. Len(held) : to_client' = SubSeq(held, 1, n)
             \/ to_client' = <<>>
             \/ held = <<>> /\ to_client' = <<f>>
      PROVE  Promise!End
  <2>1. \/ \E n \in 0 .. Len(held) : to_client' = SubSeq(held, 1, n)
        \/ held = <<>> /\ to_client' = <<f>>
    BY <1>0, <1>1
  <2> QED BY <1>0, <1>1, <2>1 DEF Promise!End, Promise!Fire, Armed
<1>2. CASE ServerDisconnected \/ ServerCut(f) \/ ServerWriteFails(f)
  <2>1. conn' # "open" /\ held' = held /\ to_client' = <<>>
    BY <1>2 DEF ServerDisconnected, ServerCut, ServerWriteFails, Return
  <2> QED BY <1>1, <2>1
<1>3. CASE ServerReady(f)
  <2>0. held' = <<>> /\ f.tag = "Z"
    BY <1>3 DEF ServerReady
  <2>1. CASE conn' # "open"
    <3>1. \E n \in 0 .. Len(held) : to_client' = SubSeq(held, 1, n)
      BY <1>0, <1>3, <2>1 DEF ServerReady, StayOpen
    <3> QED BY <1>1, <2>0, <2>1, <3>1
  <2>2. CASE conn' = "open" /\ Suppresses(fired')
    <3>1. to_client' = <<>> /\ Armed' # Armed
      BY <1>0, <1>3, <2>2, ServerInterferes DEF ServerReady
    <3> QED BY <1>0, <2>0, <2>2, <3>1 DEF Promise!Drop, Promise!Fire, Promise!Interfered, Armed
  <2>3. CASE conn' = "open" /\ ~Suppresses(fired')
    <3>1. to_client' = Append(held, f)
      BY <1>3, <2>3 DEF ServerReady, Return, Released
    <3>2. Append(held, f) \o <<>> = Append(held, f)
      <4>1. Append(held, f) \in Seq(BackendFrame)
        BY <1>0, AppendProperties
      <4> QED BY <4>1
    <3>3. to_client' \o held' = Append(held, f)
      BY <2>0, <3>1, <3>2
    <3> QED BY <1>0, <2>0, <2>3, <3>3 DEF Promise!PassDown, Promise!Fire, Armed
  <2> QED BY <2>1, <2>2, <2>3
<1>4. CASE ServerRelayed(f)
  <2>0. /\ f.tag # "Z"
        /\ held' = IF Disposal(f) = "held" THEN Append(held, f) ELSE held
        /\ to_client' = IF Disposal(f) = "written" THEN <<f>> ELSE <<>>
        /\ Disposal(f) \in {"dropped", "held", "overflow", "written"}
    BY <1>4, DisposalType DEF ServerRelayed
  <2>1. Disposal(f) = "written" => held = <<>>
    BY DEF Disposal
  <2>2. CASE conn' # "open"
    BY <1>1, <2>0, <2>1, <2>2
  <2>3. CASE conn' = "open" /\ Disposal(f) = "dropped"
    <3>1. Suppresses(fired')
      BY <2>3 DEF Disposal
    <3>2. Armed' # Armed
      BY <1>0, <3>1, ServerInterferes
    <3> QED BY <1>0, <2>0, <2>3, <3>2 DEF Promise!Drop, Promise!Fire, Promise!Interfered, Armed
  <2>4. CASE conn' = "open" /\ Disposal(f) = "held"
    <3>1. held' = Append(held, f) /\ to_client' = <<>> /\ Append(held, f) \in Seq(BackendFrame)
          /\ held' # <<>>
      BY <1>0, <2>0, <2>4, AppendProperties
    <3>2. to_client' \o held' = Append(held, f)
      BY <3>1
    <3>3. Armed' # {}
      BY <2>4, <3>1 DEF HeldArmed, Armed
    <3> QED BY <1>0, <2>0, <2>4, <3>2, <3>3 DEF Promise!PassDown, Promise!Fire, Armed
  <2>5. CASE conn' = "open" /\ Disposal(f) = "written"
    <3>1. to_client' = <<f>> /\ held' = <<>> /\ held = <<>>
      BY <2>0, <2>1, <2>5
    <3>2. <<f>> \o <<>> = Append(<<>>, f)
      OBVIOUS
    <3>3. to_client' \o held' = Append(held, f)
      BY <3>1, <3>2, Zenon
    <3> QED BY <1>0, <2>5, <3>1, <3>3 DEF Promise!PassDown, Promise!Fire, Armed
  <2>6. ~(conn' = "open" /\ Disposal(f) = "overflow")
    BY <1>4 DEF ServerRelayed, Return
  <2> QED BY <2>0, <2>2, <2>3, <2>4, <2>5, <2>6
<1> QED BY <1>2, <1>3, <1>4 DEF ServerFrame

(***************************************************************************)
(* One step of the loop is one step of Relay, or none.                     *)
(***************************************************************************)
LEMMA RelayStep ==
    ASSUME TypeOK, TypeOK', ProxyTypeOK, HeldArmed, HeldArmed', [ProxyNext]_proxyVars
    PROVE  [Promise!Next]_Promise!vars
<1>0. Armed' \subseteq Armed
  BY ArmedShrinks
<1>1. CASE UNCHANGED proxyVars
  BY <1>1 DEF proxyVars, relayVars, Promise!vars
<1>2. ASSUME NEW f \in FrontendFrame, ClientFrame(f) PROVE Promise!Next
  BY <1>0, <1>2, ClientRefines DEF ClientFrame, Promise!Next
<1>3. ASSUME NEW f \in BackendFrame, ServerFrame(f) PROVE Promise!Next
  BY <1>0, <1>3, ServerRefines DEF Promise!Next
<1>4. CASE ClientEof \/ UpstreamEof \/ Failure
  <2>1. /\ conn = "open" /\ conn' # "open" /\ held' = held
        /\ to_client' = <<>> /\ to_server' = <<>>
    BY <1>4 DEF ClientEof, UpstreamEof, Failure, Return, Unrelayed
  <2>2. \E n \in 0 .. Len(held) : to_client' = SubSeq(held, 1, n)
    <3>1. held \in Seq(BackendFrame)
      BY DEF ProxyTypeOK
    <3>2. 0 \in 0 .. Len(held) /\ SubSeq(held, 1, 0) = <<>>
      BY <3>1
    <3> QED BY <2>1, <3>2
  <2> QED BY <1>0, <2>1, <2>2 DEF Promise!Next, Promise!End, Promise!Fire, Armed
<1> QED BY <1>1, <1>2, <1>3, <1>4 DEF ProxyNext

(***************************************************************************)
(* Whatever the frames and the scenarios, a connection is a FIFO relay in  *)
(* which each scenario interferes at most once: a frame is lost only in a  *)
(* step in which a scenario fires or the connection ends, and replies are  *)
(* kept back only while a scenario can still fire (connection(), apply()). *)
(***************************************************************************)
THEOREM RelayCorrect == ProxySpec => RelaysFaithfully
<1>1. ProxyInit => Promise!Init
  <2> SUFFICES ASSUME ProxyInit PROVE Promise!Init
    OBVIOUS
  <2>1. \A i \in DOMAIN Config : matchers[i] = NewMatcher
    BY DEF ProxyInit
  <2>2. {i \in DOMAIN Config : ~matchers[i].fired} = DOMAIN Config
    BY <2>1 DEF NewMatcher
  <2> QED BY <2>2 DEF ProxyInit, Promise!Init
<1>2. TypeOK /\ TypeOK' /\ ProxyTypeOK /\ HeldArmed /\ HeldArmed' /\ [ProxyNext]_proxyVars
        => [Promise!Next]_Promise!vars
  BY RelayStep
<1>3. ProxySpec => []HeldArmed
  BY HeldInvariant, PTL
<1> QED BY <1>1, <1>2, <1>3, DrivesState, TypeCorrect, ProxyTypeCorrect, PTL
        DEF ProxySpec, RelaysFaithfully, Promise!Spec
=============================================================================
