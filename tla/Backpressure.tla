---------------------------- MODULE Backpressure ----------------------------
(***************************************************************************)
(* The flow of frames through one proxied connection, sockets of bounded   *)
(* capacity between the parties.  The loop of connection() is one task: it *)
(* reads a frame from either side and does not read again until the frame  *)
(* is written to the other.  The client sends requests without waiting for *)
(* their answers, up to a window of them that it chooses, and reads all    *)
(* the time; the server takes a request when it has written all the        *)
(* answers to the last.                                                    *)
(***************************************************************************)
EXTENDS Naturals

CONSTANTS
    Capacity,    \* frames a socket holds
    Window,      \* bound: the largest window of a client
    Answers,     \* frames that answer a request
    Requests     \* bound: requests of a session

ASSUME FlowAssumption == {Capacity, Window, Answers, Requests} \subseteq Nat \ {0}

VARIABLES
    window,      \* requests the client has under way at most; never changes
    sent,        \* requests the client has sent
    received,    \* answers it has read
    hand,        \* what the proxy is writing: "none", "request" or "answer"
    pending,     \* answers the server still has to write
    socket       \* frames in each of the four sockets

flowVars == <<window, sent, received, hand, pending, socket>>

Socket == {"client-proxy", "proxy-server", "server-proxy", "proxy-client"}

FlowInit ==
    /\ window \in 1 .. Window
    /\ sent = 0 /\ received = 0
    /\ hand = "none"
    /\ pending = 0
    /\ socket = [s \in Socket |-> 0]

Put(s) == socket[s] < Capacity /\ socket' = [socket EXCEPT ![s] = @ + 1]

Take(s) == socket[s] > 0 /\ socket' = [socket EXCEPT ![s] = @ - 1]

(***************************************************************************)
(* The parties at the ends.                                                *)
(***************************************************************************)
ClientSends ==
    /\ sent < Requests
    /\ sent < received \div Answers + window
    /\ Put("client-proxy")
    /\ sent' = sent + 1
    /\ UNCHANGED <<window, received, hand, pending>>

ClientReads ==
    /\ Take("proxy-client")
    /\ received' = received + 1
    /\ UNCHANGED <<window, sent, hand, pending>>

ServerReads ==
    /\ pending = 0
    /\ Take("proxy-server")
    /\ pending' = Answers
    /\ UNCHANGED <<window, sent, received, hand>>

ServerWrites ==
    /\ pending > 0
    /\ Put("server-proxy")
    /\ pending' = pending - 1
    /\ UNCHANGED <<window, sent, received, hand>>

(***************************************************************************)
(* The two arms of the proxy's loop: a read and a write each.              *)
(***************************************************************************)
ReadsRequest ==
    /\ hand = "none"
    /\ Take("client-proxy")
    /\ hand' = "request"
    /\ UNCHANGED <<window, sent, received, pending>>

WritesRequest ==
    /\ hand = "request"
    /\ Put("proxy-server")
    /\ hand' = "none"
    /\ UNCHANGED <<window, sent, received, pending>>

ReadsAnswerLast ==                            \* mutant: all requests first
    /\ hand = "none" /\ sent = Requests
    /\ Take("server-proxy")
    /\ hand' = "answer"
    /\ UNCHANGED <<window, sent, received, pending>>

ReadsAnswer ==
    /\ hand = "none"
    /\ Take("server-proxy")
    /\ hand' = "answer"
    /\ UNCHANGED <<window, sent, received, pending>>

WritesAnswer ==
    /\ hand = "answer"
    /\ Put("proxy-client")
    /\ hand' = "none"
    /\ UNCHANGED <<window, sent, received, pending>>

FlowNext == ClientSends \/ ClientReads \/ ServerReads \/ ServerWrites
            \/ ReadsRequest \/ WritesRequest \/ ReadsAnswer \/ WritesAnswer

(***************************************************************************)
(* Every party goes on when it can; select! takes the arms in random       *)
(* order, so neither of them is passed over for ever.                      *)
(***************************************************************************)
FlowSpec ==
    /\ FlowInit /\ [][FlowNext]_flowVars
    /\ WF_flowVars(ClientSends) /\ WF_flowVars(ClientReads)
    /\ WF_flowVars(ServerReads) /\ WF_flowVars(ServerWrites)
    /\ SF_flowVars(ReadsRequest) /\ WF_flowVars(WritesRequest)
    /\ SF_flowVars(ReadsAnswer) /\ WF_flowVars(WritesAnswer)

(***************************************************************************)
(* The standstill: the task waits to write a request to a server that      *)
(* takes none before it has written its answers, and those wait for the    *)
(* task to read them.                                                      *)
(***************************************************************************)
Jammed ==
    /\ hand = "request" /\ socket["proxy-server"] = Capacity
    /\ pending > 0 /\ socket["server-proxy"] = Capacity

(***************************************************************************)
(* A session of a client that goes on reading settles in one of two ways:  *)
(* every request is answered, or the one task of the loop and the server   *)
(* wait for each other for ever (proxy 153).  The second happens only to a *)
(* client with more requests under way than the server, its socket and the *)
(* task hold between them; below that window every request is answered.    *)
(***************************************************************************)
AnsweredOrJammed ==
    <>[](\/ received = sent * Answers
         \/ Jammed /\ window >= Capacity + 2)

(***************************************************************************)
(* That every request is answered whatever the window, which is what a     *)
(* client without the proxy has.  It does not hold: Standstill.cfg.        *)
(***************************************************************************)
AllAnswered == <>[](received = sent * Answers)
=============================================================================
