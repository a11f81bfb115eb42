------------------------------- MODULE Stream -------------------------------
(***************************************************************************)
(* Writing to one side of a proxied connection: Stream, which is a TCP     *)
(* socket or a TLS session on top of one.  What write_all() is given goes  *)
(* to the socket's send buffer, of bounded size, and from there to the     *)
(* peer as it reads.  A TLS session (external) takes data into a buffer of *)
(* its own and passes on what the socket takes at that moment; the rest    *)
(* goes with the next write, flush or shutdown.  The proxy never flushes.  *)
(* A frame is FrameSize units of data, numbered in the order of writing.   *)
(***************************************************************************)
EXTENDS Naturals, Sequences

CONSTANTS
    FrameSize,     \* units of a frame
    MaxFrames,     \* bound: frames written
    SendBuffer,    \* units the socket takes before the peer reads
    SessionLimit   \* units a TLS session takes

ASSUME StreamAssumption == {FrameSize, MaxFrames, SendBuffer, SessionLimit} \subseteq Nat \ {0}

VARIABLES
    layer,       \* "plain" or "tls"
    unread,      \* is there data of the peer that the proxy has not read?
    begun,       \* frames whose write_all() has returned or is under way
    rest,        \* units the write_all() under way has still to write
    session,     \* units in the TLS session
    outgoing,    \* units in the send buffer
    arrived,     \* units the peer has read
    status       \* "open", "shutdown" begun, or how the socket was dropped

streamVars == <<layer, unread, begun, rest, session, outgoing, arrived, status>>

StreamInit ==
    /\ layer \in {"plain", "tls"}
    /\ unread \in BOOLEAN
    /\ begun = 0 /\ rest = 0
    /\ session = <<>> /\ outgoing = <<>> /\ arrived = <<>>
    /\ status = "open"

Written == begun * FrameSize - rest

Least(a, b) == IF a < b THEN a ELSE b

Upto(s, n) == SubSeq(s, 1, n)

Beyond(s, n) == SubSeq(s, n + 1, Len(s))

Units(n) == [k \in 1 .. n |-> Written + k]

-----------------------------------------------------------------------------
WriteAll ==
    /\ status = "open" /\ rest = 0 /\ begun < MaxFrames
    /\ begun' = begun + 1
    /\ rest' = FrameSize
    /\ UNCHANGED <<layer, unread, session, outgoing, arrived, status>>

Room == SendBuffer - Len(outgoing)

(***************************************************************************)
(* poll_write() of a socket: as much as it has room for.                   *)
(***************************************************************************)
WritePlainWhole ==                                       \* mutant: waits for room for all
    /\ status = "open" /\ layer = "plain" /\ rest > 0 /\ Room >= rest
    /\ outgoing' = outgoing \o Units(rest)
    /\ rest' = 0
    /\ UNCHANGED <<layer, unread, begun, session, arrived, status>>

WritePlain ==
    /\ status = "open" /\ layer = "plain" /\ rest > 0 /\ Room > 0
    /\ outgoing' = outgoing \o Units(Least(rest, Room))
    /\ rest' = rest - Least(rest, Room)
    /\ UNCHANGED <<layer, unread, begun, session, arrived, status>>

(***************************************************************************)
(* poll_write() of a TLS session: it takes what it can, then the socket    *)
(* does.                                                                   *)
(***************************************************************************)
WriteTls ==
    /\ status = "open" /\ layer = "tls" /\ rest > 0
    /\ LET n == Least(rest, SessionLimit - Len(session))
           data == session \o Units(n)
           out == Least(Len(data), Room)
       IN  /\ n > 0 \/ out > 0
           /\ outgoing' = outgoing \o Upto(data, out)
           /\ session' = Beyond(data, out)
           /\ rest' = rest - n
    /\ UNCHANGED <<layer, unread, begun, arrived, status>>

PeerReads ==
    /\ outgoing # <<>>
    /\ arrived' = Append(arrived, Head(outgoing))
    /\ outgoing' = Tail(outgoing)
    /\ UNCHANGED <<layer, unread, begun, rest, session, status>>

(***************************************************************************)
(* shutdown(): a TLS session is emptied first.                             *)
(***************************************************************************)
ShutdownStream ==
    /\ status = "open" /\ rest = 0
    /\ status' = "shutdown"
    /\ UNCHANGED <<layer, unread, begun, rest, session, outgoing, arrived>>

EmptySession ==
    /\ status = "shutdown" /\ session # <<>> /\ Room > 0
    /\ LET out == Least(Len(session), Room)
       IN  /\ outgoing' = outgoing \o Upto(session, out)
           /\ session' = Beyond(session, out)
    /\ UNCHANGED <<layer, unread, begun, rest, arrived, status>>

MayCloseAtOnce == TRUE                                   \* mutant: the session not emptied

MayClose == session = <<>>

(***************************************************************************)
(* The stream is dropped after a shutdown: the system still delivers the   *)
(* send buffer, unless it has data of the peer that was never read.        *)
(***************************************************************************)
CloseStream ==
    /\ status = "shutdown" /\ MayClose
    /\ status' = "closed"
    /\ outgoing' = IF unread THEN <<>> ELSE outgoing
    /\ UNCHANGED <<layer, unread, begun, rest, session, arrived>>

(***************************************************************************)
(* reset() and the drop that follows it: SO_LINGER with zero discards the  *)
(* send buffer, whatever the layer.                                        *)
(***************************************************************************)
Reset ==
    /\ status = "open" /\ rest = 0
    /\ status' = "reset"
    /\ session' = <<>> /\ outgoing' = <<>>
    /\ UNCHANGED <<layer, unread, begun, rest, arrived>>

StreamNext == WriteAll \/ WritePlain \/ WriteTls \/ PeerReads
              \/ ShutdownStream \/ EmptySession \/ CloseStream \/ Reset

(***************************************************************************)
(* The task polls its write, a shutdown is carried out and the peer reads; *)
(* nothing has to be written, and no stream has to end.                    *)
(***************************************************************************)
StreamSpec ==
    /\ StreamInit /\ [][StreamNext]_streamVars
    /\ WF_streamVars(WritePlain \/ WriteTls)
    /\ WF_streamVars(PeerReads)
    /\ WF_streamVars(EmptySession \/ CloseStream)

-----------------------------------------------------------------------------
(***************************************************************************)
(* disconnect with mode close is an orderly shutdown: the peer gets all    *)
(* that was written, in order and without a gap, TLS or not, unless it had *)
(* sent what was not read.                                                 *)
(***************************************************************************)
Numbers(n) == [k \in 1 .. n |-> k]

ShutdownDelivers == status = "shutdown" /\ ~unread ~> arrived = Numbers(Written)

(***************************************************************************)
(* On a plain connection all that write_all() was given arrives, in order, *)
(* while the connection is open, though the peer reads it in pieces.       *)
(***************************************************************************)
Given == begun * FrameSize

Arrives(l) == layer = l /\ status = "open" => arrived = Numbers(Given)

PlainArrives == <>[]Arrives("plain")

(***************************************************************************)
(* TLS on either side works as a plaintext hop does. Does not hold         *)
(* (StreamLosses.cfg): the relay loop never flushes.                       *)
(***************************************************************************)
TlsArrives == <>[]Arrives("tls")

(***************************************************************************)
(* truncate_result delivers the rows written before the reset. Does not    *)
(* hold (StreamLosses.cfg): the reset discards what the client has not     *)
(* read.                                                                   *)
(***************************************************************************)
RowsBeforeReset == status = "reset" => Len(arrived) = Written
=============================================================================
