------------------------------ MODULE MCProxy ------------------------------
(***************************************************************************)
(* One proxied connection against every sequence of at most MaxFrames      *)
(* frames a client and a server can send, with scenarios that lose the     *)
(* acknowledgement of a commit, cut a connection or a result short and     *)
(* drop a query.                                                           *)
(***************************************************************************)
EXTENDS Proxy, Scenarios

CONSTANTS MaxFrames, ClientFrames, ServerFrames

VARIABLE frames     \* frames handled so far

MCClassify == [s \in Sql |-> CASE s = "COMMIT" -> "Commit"
                               [] s = "ROLLBACK" -> "Rollback"
                               [] OTHER -> "Select"]

MCStartup == [user |-> None, database |-> None, application_name |-> None]

MCConfig ==
    <<SecondCommit, CutRollback, PartialSelect(0),
      [PartialSelect(1) EXCEPT !.when.occurrence = 2],
      Everywhere([On("query.received") EXCEPT !.occurrence = 2], Suppress)>>

MCClientFrames ==
    [tag : {"Q"}, sql : Sql]
    \cup [tag : {"E"}, portal : {Unnamed}]

MCServerFrames ==
    [tag : {"1", "T", "D", "s", "E"}]
    \cup [tag : {"C"}, command : {"COMMIT", "ROLLBACK"}]
    \cup [tag : {"Z"}, status : {"I", "T"}]

BoundedInit == ProxyInit /\ frames = 0

Counted == frames < MaxFrames /\ frames' = frames + 1

ClientStep == Counted /\ \E f \in ClientFrames : ClientFrame(f)

ServerStep == Counted /\ \E f \in ServerFrames : ServerMaySend(f) /\ ServerFrame(f)

End == Counted /\ (ClientEof \/ UpstreamEof \/ Failure)

Done == (frames = MaxFrames \/ conn # "open") /\ UNCHANGED <<proxyVars, frames>>

BoundedNext == ClientStep \/ ServerStep \/ End \/ Done

BoundedSpec == BoundedInit /\ [][BoundedNext]_<<proxyVars, frames>>
=============================================================================
