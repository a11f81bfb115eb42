------------------------------ MODULE MCParts ------------------------------
(***************************************************************************)
(* The parts of the proxy around the relay loop, checked side by side: a   *)
(* behaviour is one of a single part, chosen at the beginning, while the   *)
(* others rest in an initial state.  Frames have a length of one byte.     *)
(***************************************************************************)
EXTENDS Wire, Stream, Backpressure, Trace, Server

VARIABLE part    \* the part that moves

MCMessages ==
    {<<>>,
     <<Frame(1, <<>>), Frame(2, <<3>>)>>,
     <<Frame(3, <<2, 1>>), <<2, 0>> >>,
     << <<2, 4>>, Frame(1, <<>>)>>}

Init ==
    /\ part \in {"wire", "stream", "flow", "trace", "server"}
    /\ WireInit /\ StreamInit /\ FlowInit /\ TraceInit /\ ServerInit
    /\ part # "wire" => messages = [p \in Peer |-> <<>>]
    /\ part # "flow" => window = 1
    /\ part # "stream" => layer = "plain" /\ ~unread

Next ==
    /\ UNCHANGED part
    /\ \/ /\ part = "wire" /\ WireNext
          /\ UNCHANGED <<streamVars, flowVars, traceVars, vars>>
       \/ /\ part = "stream" /\ StreamNext
          /\ UNCHANGED <<wireVars, flowVars, traceVars, vars>>
       \/ /\ part = "flow" /\ FlowNext
          /\ UNCHANGED <<wireVars, streamVars, traceVars, vars>>
       \/ /\ part = "trace" /\ TraceNext
          /\ UNCHANGED <<wireVars, streamVars, flowVars, vars>>
       \/ /\ part = "server" /\ ServerNext
          /\ UNCHANGED <<wireVars, streamVars, flowVars, traceVars>>

(***************************************************************************)
(* The fairness of each part, while it is the part that moves.             *)
(***************************************************************************)
Fairness ==
    /\ \A p \in Peer : /\ WF_wireVars(part = "wire" /\ Reader(p))
                      /\ WF_wireVars(part = "wire" /\ Write(p))
    /\ WF_streamVars(part = "stream" /\ (WritePlain \/ WriteTls))
    /\ WF_streamVars(part = "stream" /\ PeerReads)
    /\ WF_streamVars(part = "stream" /\ (EmptySession \/ CloseStream))
    /\ WF_flowVars(part = "flow" /\ ClientSends)
    /\ WF_flowVars(part = "flow" /\ ClientReads)
    /\ WF_flowVars(part = "flow" /\ ServerReads)
    /\ WF_flowVars(part = "flow" /\ ServerWrites)
    /\ SF_flowVars(part = "flow" /\ ReadsRequest)
    /\ WF_flowVars(part = "flow" /\ WritesRequest)
    /\ SF_flowVars(part = "flow" /\ ReadsAnswer)
    /\ WF_flowVars(part = "flow" /\ WritesAnswer)
    /\ WF_vars(part = "server" /\ Stop)
    /\ WF_vars(part = "server" /\ ServeReturns)
    /\ \A c \in Connection : /\ WF_vars(part = "server" /\ Join(c))
                            /\ WF_vars(part = "server" /\ Aborted(c))

Spec == Init /\ [][Next]_<<part, wireVars, streamVars, flowVars, traceVars, vars>> /\ Fairness
=============================================================================
