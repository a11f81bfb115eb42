-------------------------------- MODULE Wire --------------------------------
(***************************************************************************)
(* Framing (pgfault-wire) under the select! of the relay loop.  Each peer  *)
(* writes a stream of bytes that reaches the proxy in pieces of any size.  *)
(* The loop waits for FrameReader::next() on both streams at once; when    *)
(* one of the two returns, the other is dropped wherever it is, and it is  *)
(* called anew in the next round.                                          *)
(*                                                                         *)
(* A stream has ended the loop as "end of stream", "EOF inside frame" or   *)
(* "invalid length"; until then it is "open".                              *)
(*                                                                         *)
(* A frame is a tag byte, a length of LengthBytes bytes (four in the code) *)
(* that counts itself but not the tag, and a body.                         *)
(***************************************************************************)
EXTENDS Naturals, Sequences, FiniteSets

CONSTANTS
    Peer,           \* the two ends: the client and the server
    Byte,           \* the values of a byte: 0 .. Base - 1
    LengthBytes,    \* bytes of the length field
    MAX_FRAME,      \* largest length accepted
    Messages        \* the sequences of frames, good and bad, a peer may write

Base == Cardinality(Byte)

ASSUME WireAssumption ==
    /\ Byte = 0 .. Base - 1
    /\ LengthBytes \in Nat \ {0} /\ MAX_FRAME \in Nat
    /\ Messages \subseteq Seq(Seq(Byte))

(***************************************************************************)
(* The length field of what begins with a frame.                           *)
(***************************************************************************)
BigEndian(bytes) ==
    LET value[k \in 0 .. Len(bytes)] == IF k = 0 THEN 0 ELSE Base * value[k - 1] + bytes[k]
    IN  value[Len(bytes)]

FrameLength(buf) == BigEndian(SubSeq(buf, 2, LengthBytes + 1))

(***************************************************************************)
(* frame(tag, body), for a body whose length fits into one byte.           *)
(***************************************************************************)
Frame(tag, body) ==
    LET zeros == [k \in 1 .. LengthBytes - 1 |-> 0]
    IN  <<tag>> \o zeros \o <<Len(body) + LengthBytes>> \o body

(***************************************************************************)
(* A frame as frame() makes it, or as a peer may make it: its length field *)
(* says how many bytes follow the tag.                                     *)
(***************************************************************************)
WellFormedFrame(f) ==
    /\ Len(f) - 1 \in LengthBytes .. MAX_FRAME
    /\ FrameLength(f) = Len(f) - 1

(***************************************************************************)
(* A frame whose length field says what no frame has.                      *)
(***************************************************************************)
MalformedFrame(f) ==
    Len(f) >= LengthBytes + 1 /\ FrameLength(f) \notin LengthBytes .. MAX_FRAME

(***************************************************************************)
(* Every stream of bytes reads as frames that end where their length says, *)
(* up to its end or to the first length that no frame has; what follows    *)
(* that is of no matter.  A peer may stop inside any of them.              *)
(***************************************************************************)
ASSUME MessagesAssumption ==
    \A m \in Messages : \A k \in DOMAIN m :
        (\A j \in 1 .. k - 1 : WellFormedFrame(m[j]))
            => WellFormedFrame(m[k]) \/ MalformedFrame(m[k])

VARIABLES
    messages,   \* what each peer has to say
    unsent,     \* bytes each peer has still to write
    transit,    \* bytes written and not read
    closed,     \* has the peer closed its end?
    buffer,     \* FrameReader.buffer, one for each stream
    waiting,    \* the futures of the select! that still wait for bytes
    taken,      \* frames the loop has got from each stream, in order
    outcome     \* "open", or how the peer's stream has ended the loop

wireVars == <<messages, unsent, transit, closed, buffer, waiting, taken, outcome>>

Running == \A p \in Peer : outcome[p] = "open"

Flatten(fs) ==
    LET upto[k \in 0 .. Len(fs)] == IF k = 0 THEN <<>> ELSE upto[k - 1] \o fs[k]
    IN  upto[Len(fs)]

WireInit ==
    /\ messages \in [Peer -> Messages]
    /\ unsent = [p \in Peer |-> Flatten(messages[p])]
    /\ transit = [p \in Peer |-> <<>>]
    /\ closed = [p \in Peer |-> FALSE]
    /\ buffer = [p \in Peer |-> <<>>]
    /\ waiting = {}
    /\ taken = [p \in Peer |-> <<>>]
    /\ outcome = [p \in Peer |-> "open"]

(***************************************************************************)
(* decode(buf): "incomplete", "invalid", or the number of bytes of the     *)
(* frame at the front of the buffer.                                       *)
(***************************************************************************)
Size(buf) == FrameLength(buf) + 1

DecodeLate(buf) ==                                             \* mutant: one byte more
    CASE Len(buf) < LengthBytes + 1 -> "incomplete"
      [] Len(buf) >= LengthBytes + 1 /\ FrameLength(buf) \notin LengthBytes .. MAX_FRAME ->
            "invalid"
      [] OTHER -> IF Len(buf) <= Size(buf) THEN "incomplete" ELSE "frame"

Decode(buf) ==
    CASE Len(buf) < LengthBytes + 1 -> "incomplete"
      [] Len(buf) >= LengthBytes + 1 /\ FrameLength(buf) \notin LengthBytes .. MAX_FRAME ->
            "invalid"
      [] OTHER -> IF Len(buf) < Size(buf) THEN "incomplete" ELSE "frame"

-----------------------------------------------------------------------------
(***************************************************************************)
(* The peers: bytes travel in pieces, and the stream may end anywhere.     *)
(***************************************************************************)
Write(p) ==
    /\ ~closed[p]
    /\ \E n \in 1 .. Len(unsent[p]) :
          /\ transit' = [transit EXCEPT ![p] = @ \o SubSeq(unsent[p], 1, n)]
          /\ unsent' = [unsent EXCEPT ![p] = SubSeq(@, n + 1, Len(@))]
    /\ UNCHANGED <<messages, closed, buffer, waiting, taken, outcome>>

PeerCloses(p) ==
    /\ ~closed[p]
    /\ closed' = [closed EXCEPT ![p] = TRUE]
    /\ UNCHANGED <<messages, unsent, transit, buffer, waiting, taken, outcome>>

(***************************************************************************)
(* A round of select!: both futures are made, and each runs whenever it    *)
(* is polled.  Polled for the first time it decodes what the buffer holds; *)
(* from then on it waits for bytes.                                        *)
(***************************************************************************)
Poll(p) ==
    /\ Running /\ p \notin waiting
    /\ Decode(buffer[p]) = "incomplete"
    /\ waiting' = waiting \cup {p}
    /\ UNCHANGED <<messages, unsent, transit, closed, buffer, taken, outcome>>

(***************************************************************************)
(* read_buf() takes what has arrived, or a part of it.                     *)
(***************************************************************************)
Read(p) ==
    /\ Running /\ p \in waiting
    /\ \E n \in 1 .. Len(transit[p]) :
          /\ buffer' = [buffer EXCEPT ![p] = @ \o SubSeq(transit[p], 1, n)]
          /\ transit' = [transit EXCEPT ![p] = SubSeq(@, n + 1, Len(@))]
    /\ waiting' = waiting \ {p}
    /\ UNCHANGED <<messages, unsent, closed, taken, outcome>>

(***************************************************************************)
(* What the other peer's buffer is when its future is dropped.             *)
(***************************************************************************)
DroppedWithFuture(p) == [q \in Peer |-> IF q = p THEN buffer[q] ELSE <<>>]  \* mutant

Dropped(p) == buffer

(***************************************************************************)
(* next() returns a frame.  The loop handles it, and begins a new round.   *)
(***************************************************************************)
Returned(p) ==
    /\ Running /\ p \notin waiting
    /\ Decode(buffer[p]) = "frame"
    /\ taken' = [taken EXCEPT ![p] = Append(@, SubSeq(buffer[p], 1, Size(buffer[p])))]
    /\ buffer' = [Dropped(p) EXCEPT ![p] = SubSeq(@, Size(@) + 1, Len(@))]
    /\ waiting' = {}
    /\ UNCHANGED <<messages, unsent, transit, closed, outcome>>

Ends(p, how) ==
    /\ outcome' = [outcome EXCEPT ![p] = how]
    /\ UNCHANGED <<messages, unsent, transit, closed, buffer, waiting, taken>>

Invalid(p) ==
    /\ Running /\ p \notin waiting
    /\ Decode(buffer[p]) = "invalid"
    /\ Ends(p, "invalid length")

AtEofSilent(buf) == "end of stream"                            \* mutant: rest not noticed

AtEof(buf) == IF buf = <<>> THEN "end of stream" ELSE "EOF inside frame"

EndOfStream(p) ==
    /\ Running /\ p \in waiting
    /\ closed[p] /\ transit[p] = <<>>
    /\ Ends(p, AtEof(buffer[p]))

Reader(p) == Poll(p) \/ Read(p) \/ Returned(p) \/ Invalid(p) \/ EndOfStream(p)

WireNext == \E p \in Peer : Write(p) \/ PeerCloses(p) \/ Reader(p)

WireSpec == WireInit /\ [][WireNext]_wireVars

(***************************************************************************)
(* select! polls its arms in random order, so a future that can go on does *)
(* so in the end; the peers write what they have to write.                 *)
(***************************************************************************)
FairWireSpec == WireSpec /\ \A p \in Peer : WF_wireVars(Reader(p)) /\ WF_wireVars(Write(p))

-----------------------------------------------------------------------------
(***************************************************************************)
(* Framing is exact, whatever futures are dropped and however the bytes    *)
(* are cut up: the loop gets the peer's frames one by one, each whole, and *)
(* none after a malformed one; with the buffer and what has not been read  *)
(* they make up the stream, nothing lost, added or moved (decode() and     *)
(* FrameReader: "Buffer survives cancellation").                           *)
(***************************************************************************)
FramesExact ==
    \A p \in Peer :
        /\ Len(taken[p]) <= Len(messages[p])
        /\ \A k \in DOMAIN taken[p] : /\ taken[p][k] = messages[p][k]
                                      /\ WellFormedFrame(taken[p][k])
        /\ Flatten(taken[p]) \o buffer[p] \o transit[p] \o unsent[p] = Flatten(messages[p])

(***************************************************************************)
(* The loop ends for the reason that holds: in silence only if the peer    *)
(* closed between two frames and every frame has been returned; with an    *)
(* error for a close inside a frame or for a malformed one.                *)
(***************************************************************************)
EndsRightly ==
    \A p \in Peer :
        LET n == Len(taken[p])
            written == Len(Flatten(messages[p])) - Len(unsent[p])
            returned == Len(Flatten(taken[p]))
        IN  CASE outcome[p] = "open" -> TRUE
              [] outcome[p] = "end of stream" -> closed[p] /\ written = returned
              [] outcome[p] = "EOF inside frame" ->
                   n < Len(messages[p]) /\ written < returned + Len(messages[p][n + 1])
              [] OTHER -> n < Len(messages[p]) /\ ~WellFormedFrame(messages[p][n + 1])

(***************************************************************************)
(* Every frame arrives, however busy the other direction is, as long as    *)
(* neither stream closes or breaks.                                        *)
(***************************************************************************)
EveryFrameArrives ==
    \A p \in Peer :
        <>(taken[p] = messages[p] \/ ~Running \/ \E q \in Peer : closed[q])
=============================================================================
