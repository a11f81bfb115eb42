----------------------------- MODULE WireProofs -----------------------------
(***************************************************************************)
(* Proofs about framing under select!, for any frames, any length field    *)
(* and any way the bytes are cut up: what FrameReader returns are the      *)
(* peer's frames, and the loop ends for the reason that holds.             *)
(***************************************************************************)
EXTENDS Wire, SequenceFacts

-----------------------------------------------------------------------------
(***************************************************************************)
(* Flatten, one frame at a time.                                           *)
(***************************************************************************)
Bytes == Seq(Byte)

LEMMA Reassociate == \A s, t, u \in Seq(Byte) : (s \o t) \o u = s \o (t \o u)
<1> TAKE s, t, u \in Seq(Byte)
<1> QED BY ConcatAssociative

Joined(fs, f) == [k \in 0 .. Len(fs) |-> IF k = 0 THEN <<>> ELSE f[k - 1] \o fs[k]]

LEMMA JoinedExists ==
    ASSUME NEW fs \in Seq(Bytes)
    PROVE  \E f \in [0 .. Len(fs) -> Bytes] : f = Joined(fs, f)
<1> DEFINE n == Len(fs)
           h == [p \in (1 .. n) \X Bytes |-> p[2] \o fs[p[1]]]
<1>1. n \in Nat /\ <<>> \in Bytes
  BY DEF Bytes
<1>2. h \in [(1 .. n) \X Bytes -> Bytes]
  <2> SUFFICES ASSUME NEW k \in 1 .. n, NEW s \in Bytes PROVE s \o fs[k] \in Bytes
    OBVIOUS
  <2>1. fs[k] \in Bytes
    OBVIOUS
  <2> QED BY <2>1, ConcatProperties DEF Bytes
<1>a. \A k \in 1 .. n, s \in Bytes : h[<<k, s>>] = s \o fs[k]
  OBVIOUS
<1> HIDE DEF h
<1>3. PICK f \in [0 .. n -> Bytes] : Follows(f, n, <<>>, h)
  BY <1>1, <1>2, RecursionExists
<1>4. \A k \in 0 .. n : f[k] = IF k = 0 THEN <<>> ELSE f[k - 1] \o fs[k]
  <2> SUFFICES ASSUME NEW k \in 0 .. n
               PROVE  f[k] = IF k = 0 THEN <<>> ELSE f[k - 1] \o fs[k]
    OBVIOUS
  <2>1. CASE k = 0
    BY <1>3, <2>1 DEF Follows
  <2>2. CASE k # 0
    <3>1. k \in 1 .. n /\ k - 1 \in 0 .. n
      BY <1>1, <2>2
    <3>2. f[k] = h[<<k, f[k - 1]>>] /\ f[k - 1] \in Bytes
      BY <1>3, <3>1 DEF Follows
    <3> QED BY <1>a, <2>2, <3>1, <3>2
  <2> QED BY <2>1, <2>2
<1>5. f = Joined(fs, f)
  BY <1>3, <1>4 DEF Joined
<1> QED BY <1>3, <1>5

LEMMA JoinedUnique ==
    ASSUME NEW fs \in Seq(Bytes), NEW f, NEW g, f = Joined(fs, f), g = Joined(fs, g)
    PROVE  f = g
<1> DEFINE n == Len(fs)
           T == {m \in Nat : m <= n => f[m] = g[m]}
<1>0. n \in Nat
  OBVIOUS
<1>1. \A k \in 0 .. n : /\ f[k] = IF k = 0 THEN <<>> ELSE f[k - 1] \o fs[k]
                        /\ g[k] = IF k = 0 THEN <<>> ELSE g[k - 1] \o fs[k]
  BY DEF Joined
<1>2. 0 \in T
  BY <1>0, <1>1
<1>3. ASSUME NEW m \in Nat, m \in T PROVE m + 1 \in T
  <2> SUFFICES ASSUME m + 1 <= n PROVE f[m + 1] = g[m + 1]
    OBVIOUS
  <2>1. f[m] = g[m] /\ m + 1 \in 0 .. n /\ (m + 1) - 1 = m /\ m + 1 # 0
    BY <1>0, <1>3
  <2>2. f[m + 1] = f[m] \o fs[m + 1] /\ g[m + 1] = g[m] \o fs[m + 1]
    BY <1>1, <2>1
  <2> QED BY <2>1, <2>2
<1> HIDE DEF T
<1>4. Nat \subseteq T
  BY <1>2, <1>3, InductionOverNat
<1>5. \A k \in 0 .. n : f[k] = g[k]
  BY <1>0, <1>4 DEF T
<1>6. f = [k \in 0 .. n |-> f[k]] /\ g = [k \in 0 .. n |-> g[k]]
  BY DEF Joined
<1> QED BY <1>5, <1>6

LEMMA FlattenIs ==
    ASSUME NEW fs \in Seq(Bytes), NEW f, f = Joined(fs, f)
    PROVE  Flatten(fs) = f[Len(fs)]
<1> DEFINE u == CHOOSE u : u = Joined(fs, u)
<1>1. Flatten(fs) = u[Len(fs)]
  BY DEF Flatten, Joined
<1>2. u = Joined(fs, u)
  OBVIOUS
<1> HIDE DEF u
<1>3. u = f
  BY <1>2, JoinedUnique
<1> QED BY <1>1, <1>3

(***************************************************************************)
(* Frames that agree with the first ones of a longer sequence: their bytes *)
(* are followed by the bytes of the next frame.                            *)
(***************************************************************************)
LEMMA FlattenPrefix ==
    ASSUME NEW fs \in Seq(Bytes), NEW more \in Seq(Bytes), Len(fs) <= Len(more),
           \A k \in 1 .. Len(fs) : fs[k] = more[k]
    PROVE  /\ Flatten(fs) \in Bytes
           /\ Len(fs) = Len(more) => Flatten(more) = Flatten(fs)
           /\ Len(fs) + 1 = Len(more) => Flatten(more) = Flatten(fs) \o more[Len(fs) + 1]
           /\ Len(fs) < Len(more) =>
                 \E r \in Bytes : Flatten(more) = (Flatten(fs) \o more[Len(fs) + 1]) \o r
<1> DEFINE n == Len(fs)
           m == Len(more)
<1>0. n \in Nat /\ m \in Nat /\ n <= m
  OBVIOUS
<1>1. PICK f \in [0 .. m -> Bytes] : f = Joined(more, f)
  BY JoinedExists
<1>a. n = Len(fs) /\ m = Len(more) /\ \A k \in 1 .. m : more[k] \in Bytes
  OBVIOUS
<1>b. /\ \A k \in 0 .. m : f[k] = IF k = 0 THEN <<>> ELSE f[k - 1] \o more[k]
      /\ \A k \in 0 .. m : f[k] \in Bytes
      /\ \A k \in 1 .. n : fs[k] = more[k]
  BY <1>1 DEF Joined
<1>c. Flatten(more) = f[m]
  BY <1>1, FlattenIs
<1> HIDE DEF n, m
<1>2. /\ f[0] = <<>>
      /\ \A k \in 0 .. m : k + 1 <= m => f[k + 1] = f[k] \o more[k + 1]
  <2>2. f[0] = <<>>
    <3>1. 0 \in 0 .. m
      BY <1>0
    <3> QED BY <1>b, <3>1
  <2>3. ASSUME NEW k \in 0 .. m, k + 1 <= m PROVE f[k + 1] = f[k] \o more[k + 1]
    <3>1. k + 1 \in 0 .. m /\ k + 1 # 0 /\ (k + 1) - 1 = k
      BY <1>0, <2>3
    <3> QED BY <1>b, <3>1
  <2> QED BY <2>2, <2>3
<1>3. Flatten(more) = f[m] /\ f[m] \in Bytes /\ f[n] \in Bytes
  BY <1>0, <1>b, <1>c
<1>4. Flatten(fs) = f[n]
  <2> DEFINE g == [k \in 0 .. n |-> f[k]]
  <2>1. \A k \in 0 .. n : g[k] = IF k = 0 THEN <<>> ELSE g[k - 1] \o fs[k]
    <3> SUFFICES ASSUME NEW k \in 0 .. n PROVE g[k] = IF k = 0 THEN <<>> ELSE g[k - 1] \o fs[k]
      OBVIOUS
    <3>1. CASE k = 0
      BY <1>0, <1>2, <3>1
    <3>2. CASE k # 0
      <4>1. k - 1 \in 0 .. n /\ k - 1 \in 0 .. m /\ (k - 1) + 1 = k /\ k <= m /\ k \in 1 .. n
        BY <1>0, <3>2
      <4>2. f[k] = f[k - 1] \o more[k] /\ more[k] = fs[k]
        BY <1>2, <1>b, <4>1
      <4> QED BY <3>2, <4>1, <4>2
    <3> QED BY <3>1, <3>2
  <2>2. g = [k \in 0 .. n |-> g[k]] /\ g[n] = f[n]
    BY <1>0
  <2> HIDE DEF g
  <2>3. g = Joined(fs, g)
    BY <1>a, <2>1, <2>2 DEF Joined
  <2> QED BY <1>a, <2>2, <2>3, FlattenIs
<1>5. ASSUME n < m
      PROVE  \E r \in Bytes : f[m] = (f[n] \o more[n + 1]) \o r
  <2> DEFINE base == f[n + 1]
             T == {d \in Nat : n + 1 + d <= m => \E r \in Bytes : f[n + 1 + d] = base \o r}
  <2>0. base \in Bytes /\ n \in 0 .. m /\ n + 1 <= m /\ <<>> \in Bytes
    BY <1>0, <1>b, <1>5 DEF Bytes
  <2>1. base = f[n] \o more[n + 1]
    BY <1>2, <2>0
  <2>2. 0 \in T
    <3>1. base \o <<>> = base
      BY <2>0 DEF Bytes
    <3>2. n + 1 + 0 = n + 1
      BY <1>0
    <3> HIDE DEF base
    <3> QED BY <2>0, <3>1, <3>2 DEF base
  <2>3. ASSUME NEW d \in Nat, d \in T PROVE d + 1 \in T
    <3> SUFFICES ASSUME n + 1 + (d + 1) <= m
                 PROVE  \E r \in Bytes : f[n + 1 + (d + 1)] = base \o r
      <4> HIDE DEF base
      <4> QED OBVIOUS
    <3> DEFINE k == n + 1 + d
    <3>1. k \in 0 .. m /\ k + 1 <= m /\ n + 1 + (d + 1) = k + 1 /\ k + 1 \in 1 .. m
      <4> HIDE DEF T, base
      <4>1. n + 1 + (d + 1) = k + 1
        BY <1>0
      <4>2. k \in Nat /\ k + 1 <= m
        BY <1>0, <4>1
      <4> HIDE DEF k
      <4> QED BY <1>0, <4>1, <4>2
    <3>2. PICK r \in Bytes : f[k] = base \o r
      <4>1. k <= m /\ n + 1 + d <= m
        BY <1>0, <3>1
      <4> HIDE DEF base
      <4> QED BY <2>3, <4>1
    <3>3. f[k + 1] = f[k] \o more[k + 1] /\ more[k + 1] \in Bytes
      <4> HIDE DEF k
      <4> QED BY <1>2, <1>a, <3>1
    <3> HIDE DEF base, k
    <3>4. r \o more[k + 1] \in Bytes /\ (base \o r) \o more[k + 1] = base \o (r \o more[k + 1])
      <4>1. base \in Seq(Byte) /\ r \in Seq(Byte) /\ more[k + 1] \in Seq(Byte)
        BY <2>0, <3>3 DEF Bytes
      <4>2. r \o more[k + 1] \in Seq(Byte)
        BY <4>1, ConcatProperties, Zenon
      <4>3. (base \o r) \o more[k + 1] = base \o (r \o more[k + 1])
        BY <4>1, Reassociate
      <4> QED BY <4>2, <4>3 DEF Bytes
    <3> QED BY <3>1, <3>2, <3>3, <3>4
  <2> HIDE DEF T
  <2>4. Nat \subseteq T
    BY <2>2, <2>3, InductionOverNat
  <2>5. m - (n + 1) \in Nat /\ n + 1 + (m - (n + 1)) = m
    BY <1>0, <1>5
  <2>6. \E r \in Bytes : f[m] = base \o r
    <3> HIDE DEF base
    <3> DEFINE d == m - (n + 1)
    <3>1. d \in T /\ n + 1 + d = m
      BY <2>4, <2>5
    <3>2. n + 1 + d <= m
      BY <1>0, <3>1
    <3> HIDE DEF d
    <3>3. \E r \in Bytes : f[n + 1 + d] = base \o r
      BY <3>1, <3>2 DEF T
    <3> QED BY <3>1, <3>3
  <2> QED BY <2>1, <2>6
<1>6. n = m => Flatten(more) = Flatten(fs)
  BY <1>3, <1>4
<1>7. n + 1 = m => Flatten(more) = Flatten(fs) \o more[n + 1]
  <2> SUFFICES ASSUME n + 1 = m PROVE f[m] = f[n] \o more[n + 1]
    BY <1>c, <1>4
  <2>1. n \in 0 .. m /\ n + 1 <= m
    BY <1>0
  <2>2. f[n + 1] = f[n] \o more[n + 1]
    BY <1>2, <2>1
  <2> QED BY <2>2
<1> QED BY <1>3, <1>4, <1>5, <1>6, <1>7 DEF n, m

LEMMA FlattenFacts ==
    /\ Flatten(<<>>) = <<>>
    /\ \A fs \in Seq(Bytes), f \in Bytes : Flatten(Append(fs, f)) = Flatten(fs) \o f
<1>1. Flatten(<<>>) = <<>>
  <2>1. <<>> \in Seq(Bytes) /\ Len(<<>>) = 0
    OBVIOUS
  <2>2. PICK g : g = Joined(<<>>, g)
    BY <2>1, JoinedExists
  <2>3. g[0] = <<>>
    <3>1. g = [k \in 0 .. 0 |-> IF k = 0 THEN <<>> ELSE g[k - 1] \o <<>>[k]]
      BY <2>1, <2>2 DEF Joined
    <3> QED BY <3>1
  <2> QED BY <2>1, <2>2, <2>3, FlattenIs
<1>2. ASSUME NEW fs \in Seq(Bytes), NEW f \in Bytes PROVE Flatten(Append(fs, f)) = Flatten(fs) \o f
  <2> DEFINE more == Append(fs, f)
  <2>1. /\ more \in Seq(Bytes) /\ Len(more) = Len(fs) + 1 /\ more[Len(fs) + 1] = f
        /\ \A k \in 1 .. Len(fs) : fs[k] = more[k]
    BY AppendProperties
  <2> HIDE DEF more
  <2>2. Len(fs) <= Len(more)
    BY <2>1
  <2> QED BY <2>1, <2>2, FlattenPrefix DEF more
<1> QED BY <1>1, <1>2

-----------------------------------------------------------------------------
(***************************************************************************)
(* What the buffer shows, when the frames taken are the first ones of the  *)
(* peer's and the stream is whole: the beginning of the next frame.        *)
(***************************************************************************)
Aligned(m, ts, buf, rest) ==
    /\ Len(ts) <= Len(m)
    /\ \A k \in 1 .. Len(ts) : ts[k] = m[k] /\ WellFormedFrame(ts[k])
    /\ (Flatten(ts) \o buf) \o rest = Flatten(m)

LEMMA NextFrame ==
    ASSUME NEW m \in Messages, NEW ts \in Seq(Bytes), NEW buf \in Bytes, NEW rest \in Bytes,
           Aligned(m, ts, buf, rest), Len(buf) > 0
    PROVE  /\ Len(ts) + 1 \in 1 .. Len(m)
           /\ m[Len(ts) + 1] \in Bytes
           /\ WellFormedFrame(m[Len(ts) + 1]) \/ MalformedFrame(m[Len(ts) + 1])
           /\ \A i \in 1 .. Len(buf) :
                 i <= Len(m[Len(ts) + 1]) => buf[i] = m[Len(ts) + 1][i]
<1> DEFINE n == Len(ts)
           f == m[n + 1]
           a == Flatten(ts)
           all == Flatten(m)
<1>0. /\ m \in Seq(Bytes) /\ n \in Nat /\ Len(m) \in Nat /\ n <= Len(m)
      /\ \A k \in 1 .. n : ts[k] = m[k] /\ WellFormedFrame(ts[k])
      /\ buf \in Seq(Byte) /\ rest \in Seq(Byte) /\ (a \o buf) \o rest = all
  BY WireAssumption DEF Aligned, Bytes
<1>1. /\ a \in Seq(Byte)
      /\ n = Len(m) => all = a
      /\ n < Len(m) => \E r \in Seq(Byte) : all = (a \o f) \o r
  BY <1>0, FlattenPrefix DEF Bytes
<1> HIDE DEF a, all
<1>2. /\ Len(all) = Len(a) + Len(buf) + Len(rest)
      /\ \A i \in 1 .. Len(buf) : all[Len(a) + i] = buf[i]
  <2>1. /\ a \o buf \in Seq(Byte) /\ Len(a \o buf) = Len(a) + Len(buf)
        /\ \A i \in 1 .. Len(buf) : (a \o buf)[Len(a) + i] = buf[i]
    BY <1>0, <1>1, ConcatProperties
  <2> DEFINE ab == a \o buf
  <2> HIDE DEF ab
  <2>2. /\ Len(ab \o rest) = Len(ab) + Len(rest)
        /\ \A i \in 1 .. Len(ab) : (ab \o rest)[i] = ab[i]
    BY <1>0, <2>1, ConcatProperties DEF ab
  <2>3. \A i \in 1 .. Len(buf) : Len(a) + i \in 1 .. Len(ab)
    BY <1>0, <1>1, <2>1 DEF ab
  <2> QED BY <1>0, <2>1, <2>2, <2>3 DEF ab
<1>3. n < Len(m)
  <2>1. Len(a) \in Nat /\ Len(buf) \in Nat /\ Len(rest) \in Nat
    BY <1>0, <1>1
  <2> QED BY <1>0, <1>1, <1>2, <2>1
<1>4. n + 1 \in 1 .. Len(m) /\ f \in Bytes
  BY <1>0, <1>3
<1>5. WellFormedFrame(f) \/ MalformedFrame(f)
  <2>1. \A j \in 1 .. (n + 1) - 1 : WellFormedFrame(m[j])
    BY <1>0
  <2> QED BY <1>0, <1>4, <2>1, MessagesAssumption
<1> HIDE DEF f
<1>6. ASSUME NEW i \in 1 .. Len(buf), i <= Len(f) PROVE buf[i] = f[i]
  <2>1. PICK r \in Seq(Byte) : all = (a \o f) \o r
    BY <1>1, <1>3
  <2> DEFINE af == a \o f
  <2>2. /\ af \in Seq(Byte) /\ Len(af) = Len(a) + Len(f)
        /\ \A k \in 1 .. Len(f) : af[Len(a) + k] = f[k]
    BY <1>1, <1>4, ConcatProperties DEF Bytes
  <2> HIDE DEF af
  <2>3. \A k \in 1 .. Len(af) : (af \o r)[k] = af[k]
    BY <2>2, ConcatProperties
  <2>4. i \in 1 .. Len(f) /\ Len(a) + i \in 1 .. Len(af)
    BY <1>0, <1>1, <1>4, <1>6, <2>2 DEF Bytes
  <2>5. all[Len(a) + i] = f[i]
    BY <2>1, <2>2, <2>3, <2>4 DEF af
  <2> QED BY <1>2, <1>6, <2>5
<1> QED BY <1>4, <1>5, <1>6 DEF f

(***************************************************************************)
(* decode() sees the length field of the next frame as soon as the buffer  *)
(* has it, and so judges as it should.                                     *)
(***************************************************************************)
LEMMA SameLength ==
    ASSUME NEW f \in Bytes, NEW buf \in Bytes,
           Len(f) >= LengthBytes + 1, Len(buf) >= LengthBytes + 1,
           \A i \in 1 .. Len(buf) : i <= Len(f) => buf[i] = f[i]
    PROVE  FrameLength(buf) = FrameLength(f)
<1> DEFINE l == LengthBytes + 1
<1>0. l \in Nat /\ l >= 2 /\ Len(buf) \in Nat /\ Len(f) \in Nat
  BY WireAssumption DEF Bytes
<1>1. \A i \in 2 .. l : i \in 1 .. Len(buf) /\ i \in 1 .. Len(f) /\ i <= Len(f)
  BY <1>0
<1>2. \A i \in 2 .. l : buf[i] = f[i] /\ buf[i] \in Byte /\ f[i] \in Byte
  BY <1>1 DEF Bytes
<1> HIDE DEF l
<1>3. /\ SubSeq(buf, 2, l) \in Seq(Byte)
      /\ Len(SubSeq(buf, 2, l)) = l - 1
      /\ \A i \in 1 .. l - 1 : SubSeq(buf, 2, l)[i] = buf[1 + i]
  <2>1. l \in Int /\ 2 \in Int /\ 2 <= l /\ l - 2 + 1 = l - 1 /\ \A i \in 1 .. l - 1 : 2 + i - 1 = 1 + i
    BY <1>0
  <2>2. \A i \in 2 .. l : buf[i] \in Byte
    BY <1>2
  <2> QED BY <2>1, <2>2, SubSeqProperties
<1>4. /\ SubSeq(f, 2, l) \in Seq(Byte)
      /\ Len(SubSeq(f, 2, l)) = l - 1
      /\ \A i \in 1 .. l - 1 : SubSeq(f, 2, l)[i] = f[1 + i]
  <2>1. l \in Int /\ 2 \in Int /\ 2 <= l /\ l - 2 + 1 = l - 1 /\ \A i \in 1 .. l - 1 : 2 + i - 1 = 1 + i
    BY <1>0
  <2>2. \A i \in 2 .. l : f[i] \in Byte
    BY <1>2
  <2> QED BY <2>1, <2>2, SubSeqProperties
<1>5. \A i \in 1 .. l - 1 : 1 + i \in 2 .. l
  BY <1>0
<1>6. SubSeq(buf, 2, l) = SubSeq(f, 2, l)
  <2> DEFINE x == SubSeq(buf, 2, l)
             y == SubSeq(f, 2, l)
  <2>1. x \in Seq(Byte) /\ y \in Seq(Byte) /\ Len(x) = Len(y) /\ Len(x) = l - 1
    BY <1>3, <1>4
  <2>2. \A i \in 1 .. l - 1 : x[i] = y[i]
    BY <1>2, <1>3, <1>4, <1>5
  <2> HIDE DEF x, y
  <2>3. x = y
    BY <2>1, <2>2, SeqEqual
  <2> QED BY <2>3 DEF x, y
<1> QED BY <1>6 DEF FrameLength, l

LEMMA DecodeJudges ==
    ASSUME NEW f \in Bytes, NEW buf \in Bytes, WellFormedFrame(f) \/ MalformedFrame(f),
           \A i \in 1 .. Len(buf) : i <= Len(f) => buf[i] = f[i]
    PROVE  /\ Decode(buf) = "incomplete" => Len(buf) < Len(f)
           /\ Decode(buf) = "invalid" => ~WellFormedFrame(f)
           /\ Decode(buf) = "frame" => /\ WellFormedFrame(f)
                                       /\ Size(buf) = Len(f) /\ Len(f) <= Len(buf)
<1>0. LengthBytes \in Nat \ {0} /\ MAX_FRAME \in Nat /\ Len(buf) \in Nat /\ Len(f) \in Nat
  BY WireAssumption DEF Bytes
<1>1. Len(f) >= LengthBytes + 1
  BY <1>0 DEF WellFormedFrame, MalformedFrame
<1>2. CASE Len(buf) < LengthBytes + 1
  <2>1. Decode(buf) = "incomplete"
    BY <1>0, <1>2 DEF Decode
  <2> QED BY <1>0, <1>1, <1>2, <2>1
<1>3. CASE Len(buf) >= LengthBytes + 1
  <2>1. FrameLength(buf) = FrameLength(f)
    BY <1>1, <1>3, SameLength
  <2>2. CASE FrameLength(f) \notin LengthBytes .. MAX_FRAME
    <3>1. Decode(buf) = "invalid"
      BY <1>0, <1>3, <2>1, <2>2 DEF Decode
    <3>2. ~WellFormedFrame(f)
      BY <2>2 DEF WellFormedFrame
    <3> QED BY <3>1, <3>2
  <2>3. CASE FrameLength(f) \in LengthBytes .. MAX_FRAME
    <3>1. WellFormedFrame(f)
      BY <2>3 DEF MalformedFrame
    <3>2. Size(buf) = Len(f)
      BY <1>0, <2>1, <3>1 DEF Size, WellFormedFrame
    <3>3. Decode(buf) = IF Len(buf) < Size(buf) THEN "incomplete" ELSE "frame"
      BY <1>0, <1>3, <2>1, <2>3 DEF Decode
    <3> QED BY <1>0, <3>1, <3>2, <3>3
  <2> QED BY <2>2, <2>3
<1> QED BY <1>0, <1>2, <1>3

(***************************************************************************)
(* Bytes cut in two are the same bytes.                                    *)
(***************************************************************************)
LEMMA CutInTwo ==
    ASSUME NEW s \in Bytes, NEW n \in 0 .. Len(s)
    PROVE  /\ SubSeq(s, 1, n) \in Bytes /\ SubSeq(s, n + 1, Len(s)) \in Bytes
           /\ Len(SubSeq(s, 1, n)) = n
           /\ \A i \in 1 .. n : SubSeq(s, 1, n)[i] = s[i]
           /\ SubSeq(s, 1, n) \o SubSeq(s, n + 1, Len(s)) = s
<1> DEFINE m == Len(s)
           x == SubSeq(s, 1, n)
           y == SubSeq(s, n + 1, m)
<1>0. m \in Nat /\ n \in Nat /\ n <= m /\ s \in Seq(Byte) /\ \A i \in 1 .. m : s[i] \in Byte
  BY DEF Bytes
<1>m. m = Len(s)
  OBVIOUS
<1> HIDE DEF m
<1>1. x \in Seq(Byte) /\ Len(x) = n /\ \A i \in 1 .. n : x[i] = s[i]
  <2>1. n \in Int /\ 1 \in Int /\ (1 <= n => n - 1 + 1 = n) /\ (~(1 <= n) => n = 0) /\ n - 1 + 1 = n
    BY <1>0
  <2>2. \A i \in 1 .. n : s[i] \in Byte /\ 1 + i - 1 = i
    BY <1>0
  <2>3. \A i \in 1 .. n : s[i] \in Byte
    BY <2>2
  <2>4. /\ SubSeq(s, 1, n) \in Seq(Byte)
        /\ Len(SubSeq(s, 1, n)) = IF 1 <= n THEN n - 1 + 1 ELSE 0
        /\ \A i \in 1 .. n - 1 + 1 : SubSeq(s, 1, n)[i] = s[1 + i - 1]
    BY <2>1, <2>3, SubSeqProperties
  <2> QED BY <2>1, <2>2, <2>4
<1>2. y \in Seq(Byte) /\ Len(y) = m - n /\ \A i \in 1 .. m - n : y[i] = s[n + i]
  <2>1. n + 1 \in Int /\ m \in Int /\ m - (n + 1) + 1 = m - n /\ (~(n + 1 <= m) => m - n = 0)
    BY <1>0
  <2>2. \A i \in 1 .. m - n : (n + 1) + i - 1 = n + i
    BY <1>0
  <2>3. \A i \in n + 1 .. m : s[i] \in Byte
    BY <1>0
  <2>4. /\ SubSeq(s, n + 1, m) \in Seq(Byte)
        /\ Len(SubSeq(s, n + 1, m)) = IF n + 1 <= m THEN m - (n + 1) + 1 ELSE 0
        /\ \A i \in 1 .. m - (n + 1) + 1 : SubSeq(s, n + 1, m)[i] = s[(n + 1) + i - 1]
    <3> DEFINE j == n + 1
    <3>1. j \in Int /\ \A i \in j .. m : s[i] \in Byte
      BY <2>1, <2>3
    <3> HIDE DEF j
    <3>2. /\ SubSeq(s, j, m) \in Seq(Byte)
          /\ Len(SubSeq(s, j, m)) = IF j <= m THEN m - j + 1 ELSE 0
          /\ \A i \in 1 .. m - j + 1 : SubSeq(s, j, m)[i] = s[j + i - 1]
      BY <2>1, <3>1, SubSeqProperties
    <3> QED BY <3>2 DEF j
  <2> QED BY <2>1, <2>2, <2>4
<1> HIDE DEF x, y
<1>3. x \o y = s
  <2> DEFINE z == x \o y
  <2>1. /\ z \in Seq(Byte) /\ Len(z) = Len(x) + Len(y)
        /\ \A i \in 1 .. Len(x) + Len(y) : z[i] = IF i <= Len(x) THEN x[i] ELSE y[i - Len(x)]
    BY <1>1, <1>2, ConcatProperties
  <2> HIDE DEF z
  <2>2. Len(z) = m
    BY <1>0, <1>1, <1>2, <2>1
  <2>3. ASSUME NEW i \in 1 .. m PROVE z[i] = s[i]
    <3>1. CASE i <= n
      BY <1>0, <1>1, <1>2, <2>1, <3>1
    <3>2. CASE ~(i <= n)
      <4>1. i - n \in 1 .. m - n /\ n + (i - n) = i /\ i \in 1 .. Len(x) + Len(y)
        BY <1>0, <1>1, <1>2, <3>2
      <4>2. z[i] = y[i - n]
        BY <1>1, <2>1, <3>2, <4>1
      <4>3. y[i - n] = s[n + (i - n)]
        BY <1>2, <4>1
      <4> QED BY <4>1, <4>2, <4>3
    <3> QED BY <3>1, <3>2
  <2>4. z = s
    BY <1>0, <1>m, <2>1, <2>2, <2>3, SeqEqual
  <2> QED BY <2>4 DEF z
<1> QED BY <1>1, <1>2, <1>3 DEF x, y, m, Bytes

LEMMA FrontIsFrame ==
    ASSUME NEW f \in Bytes, NEW buf \in Bytes, Len(f) <= Len(buf),
           \A i \in 1 .. Len(buf) : i <= Len(f) => buf[i] = f[i]
    PROVE  SubSeq(buf, 1, Len(f)) = f
<1> DEFINE n == Len(f)
           x == SubSeq(buf, 1, n)
<1>0. n \in 0 .. Len(buf) /\ n \in Nat
  BY DEF Bytes
<1>n. f \in Seq(Byte) /\ Len(f) = n
  BY DEF Bytes
<1>1. \A i \in 1 .. n : buf[i] = f[i]
  <2>1. \A i \in 1 .. n : i \in 1 .. Len(buf) /\ i <= Len(f)
    BY <1>0
  <2> QED BY <2>1
<1> HIDE DEF n
<1>2. x \in Seq(Byte) /\ Len(x) = n /\ \A i \in 1 .. n : x[i] = buf[i]
  BY <1>0, CutInTwo DEF Bytes
<1> HIDE DEF x
<1>3. x = f
  BY <1>n, <1>1, <1>2, SeqEqual
<1> QED BY <1>3 DEF x, n
-----------------------------------------------------------------------------
(***************************************************************************)
(* The invariant: the stream of each peer is whole, cut after the frames   *)
(* taken; a future waits only while its buffer holds no whole frame,       *)
(* whichever future was dropped; and a stream that has ended the loop      *)
(* stays as it was found.                                                  *)
(***************************************************************************)
Outcomes == {"open", "end of stream", "EOF inside frame", "invalid length"}

WireTypeOK ==
    /\ messages \in [Peer -> Messages]
    /\ unsent \in [Peer -> Bytes]
    /\ transit \in [Peer -> Bytes]
    /\ closed \in [Peer -> BOOLEAN]
    /\ buffer \in [Peer -> Bytes]
    /\ waiting \subseteq Peer
    /\ taken \in [Peer -> Seq(Bytes)]
    /\ outcome \in [Peer -> Outcomes]

Whole(p) == Aligned(messages[p], taken[p], buffer[p], transit[p] \o unsent[p])

WaitsRightly == \A p \in waiting : Decode(buffer[p]) = "incomplete"

FoundSo(p) ==
    /\ outcome[p] = "end of stream" => closed[p] /\ transit[p] = <<>> /\ buffer[p] = <<>>
    /\ outcome[p] = "EOF inside frame" =>
          /\ closed[p] /\ transit[p] = <<>> /\ buffer[p] # <<>>
          /\ Decode(buffer[p]) = "incomplete"
    /\ outcome[p] = "invalid length" => Decode(buffer[p]) = "invalid"

WireInvariant ==
    /\ WireTypeOK
    /\ WaitsRightly
    /\ \A p \in Peer : Whole(p) /\ FoundSo(p)

LEMMA WireTypes ==
    ASSUME WireTypeOK, NEW p \in Peer
    PROVE  /\ messages[p] \in Messages /\ messages[p] \in Seq(Bytes)
           /\ taken[p] \in Seq(Bytes) /\ buffer[p] \in Bytes
           /\ transit[p] \in Bytes /\ unsent[p] \in Bytes
           /\ transit[p] \o unsent[p] \in Bytes /\ Flatten(taken[p]) \in Bytes
<1>1. /\ messages[p] \in Messages /\ taken[p] \in Seq(Bytes) /\ buffer[p] \in Bytes
      /\ transit[p] \in Bytes /\ unsent[p] \in Bytes
  BY DEF WireTypeOK
<1>2. messages[p] \in Seq(Bytes)
  BY <1>1, WireAssumption DEF Bytes
<1>3. transit[p] \o unsent[p] \in Bytes
  BY <1>1, ConcatProperties DEF Bytes
<1>4. Flatten(taken[p]) \in Bytes
  <2> DEFINE ts == taken[p]
  <2>1. ts \in Seq(Bytes)
    BY <1>1
  <2> HIDE DEF ts
  <2>2. Len(ts) <= Len(ts) /\ \A k \in 1 .. Len(ts) : ts[k] = ts[k]
    BY <2>1
  <2> QED BY <2>1, <2>2, FlattenPrefix DEF ts
<1> QED BY <1>1, <1>2, <1>3, <1>4

(***************************************************************************)
(* What the invariant is for.                                              *)
(***************************************************************************)
LEMMA InvariantExact == WireInvariant => FramesExact
<1> SUFFICES ASSUME WireInvariant, NEW p \in Peer
             PROVE  /\ Len(taken[p]) <= Len(messages[p])
                    /\ \A k \in DOMAIN taken[p] : /\ taken[p][k] = messages[p][k]
                                                  /\ WellFormedFrame(taken[p][k])
                    /\ Flatten(taken[p]) \o buffer[p] \o transit[p] \o unsent[p]
                         = Flatten(messages[p])
  BY DEF FramesExact
<1>1. WireTypeOK /\ Whole(p)
  BY DEF WireInvariant
<1>2. /\ taken[p] \in Seq(Bytes) /\ buffer[p] \in Seq(Byte) /\ transit[p] \in Seq(Byte)
      /\ unsent[p] \in Seq(Byte) /\ Flatten(taken[p]) \in Seq(Byte)
  BY <1>1, WireTypes DEF Bytes
<1>3. DOMAIN taken[p] = 1 .. Len(taken[p])
  BY <1>2
<1>4. Flatten(taken[p]) \o buffer[p] \in Seq(Byte)
  BY <1>2, ConcatProperties
<1>5. ((Flatten(taken[p]) \o buffer[p]) \o transit[p]) \o unsent[p]
        = (Flatten(taken[p]) \o buffer[p]) \o (transit[p] \o unsent[p])
  BY <1>2, <1>4, Reassociate
<1> QED BY <1>1, <1>3, <1>5 DEF Whole, Aligned

LEMMA InvariantEnds == WireInvariant => EndsRightly
<1> SUFFICES ASSUME WireInvariant, NEW p \in Peer
             PROVE  LET n == Len(taken[p])
                        written == Len(Flatten(messages[p])) - Len(unsent[p])
                        returned == Len(Flatten(taken[p]))
                    IN  CASE outcome[p] = "open" -> TRUE
                          [] outcome[p] = "end of stream" -> closed[p] /\ written = returned
                          [] outcome[p] = "EOF inside frame" ->
                               n < Len(messages[p]) /\ written < returned + Len(messages[p][n + 1])
                          [] OTHER -> n < Len(messages[p]) /\ ~WellFormedFrame(messages[p][n + 1])
  BY DEF EndsRightly
<1> DEFINE n == Len(taken[p])
           f == messages[p][n + 1]
           written == Len(Flatten(messages[p])) - Len(unsent[p])
           returned == Len(Flatten(taken[p]))
<1>1. WireTypeOK /\ Whole(p) /\ FoundSo(p) /\ outcome[p] \in Outcomes
  BY DEF WireInvariant, WireTypeOK
<1>2. /\ messages[p] \in Messages /\ messages[p] \in Seq(Bytes) /\ taken[p] \in Seq(Bytes)
      /\ buffer[p] \in Bytes /\ transit[p] \in Bytes /\ unsent[p] \in Bytes
      /\ transit[p] \o unsent[p] \in Bytes /\ Flatten(taken[p]) \in Bytes
  BY <1>1, WireTypes
<1>3. Aligned(messages[p], taken[p], buffer[p], transit[p] \o unsent[p])
  BY <1>1 DEF Whole
<1>4. /\ Len(Flatten(messages[p]))
           = Len(Flatten(taken[p])) + Len(buffer[p]) + Len(transit[p]) + Len(unsent[p])
      /\ returned \in Nat /\ Len(buffer[p]) \in Nat /\ Len(transit[p]) \in Nat
      /\ Len(unsent[p]) \in Nat
  <2> DEFINE a == Flatten(taken[p])
             b == buffer[p]
             x == transit[p]
             u == unsent[p]
  <2>1. a \in Seq(Byte) /\ b \in Seq(Byte) /\ x \in Seq(Byte) /\ u \in Seq(Byte)
    BY <1>2 DEF Bytes
  <2>2. Flatten(messages[p]) = (a \o b) \o (x \o u)
    BY <1>3 DEF Aligned
  <2> HIDE DEF a, b, x, u
  <2>3. /\ a \o b \in Seq(Byte) /\ Len(a \o b) = Len(a) + Len(b)
        /\ x \o u \in Seq(Byte) /\ Len(x \o u) = Len(x) + Len(u)
    BY <2>1, ConcatProperties
  <2>4. Len((a \o b) \o (x \o u)) = Len(a \o b) + Len(x \o u)
    <3> DEFINE ab == a \o b
               xu == x \o u
    <3>1. ab \in Seq(Byte) /\ xu \in Seq(Byte)
      BY <2>3
    <3> HIDE DEF ab, xu
    <3>2. Len(ab \o xu) = Len(ab) + Len(xu)
      BY <3>1, ConcatProperties
    <3> QED BY <3>2 DEF ab, xu
  <2>5. Len(a) \in Nat /\ Len(b) \in Nat /\ Len(x) \in Nat /\ Len(u) \in Nat
    BY <2>1
  <2>6. Len(Flatten(messages[p])) = Len(a) + Len(b) + Len(x) + Len(u)
    BY <2>2, <2>3, <2>4, <2>5
  <2> QED BY <2>5, <2>6 DEF a, b, x, u
<1>5. ASSUME Len(buffer[p]) > 0
      PROVE  /\ n < Len(messages[p]) /\ Len(f) \in Nat
             /\ Decode(buffer[p]) = "incomplete" => Len(buffer[p]) < Len(f)
             /\ Decode(buffer[p]) = "invalid" => ~WellFormedFrame(f)
  <2>1. /\ n + 1 \in 1 .. Len(messages[p]) /\ f \in Bytes
        /\ WellFormedFrame(f) \/ MalformedFrame(f)
        /\ \A i \in 1 .. Len(buffer[p]) : i <= Len(f) => buffer[p][i] = f[i]
    BY <1>2, <1>3, <1>5, NextFrame
  <2>2. Len(f) \in Nat /\ n < Len(messages[p])
    BY <1>2, <2>1 DEF Bytes
  <2> HIDE DEF f
  <2> QED BY <1>2, <2>1, <2>2, DecodeJudges
<1> HIDE DEF n, f
<1>6. ASSUME outcome[p] = "end of stream" PROVE closed[p] /\ written = returned
  <2>1. closed[p] /\ Len(transit[p]) = 0 /\ Len(buffer[p]) = 0
    BY <1>1, <1>6 DEF FoundSo
  <2>2. Len(Flatten(messages[p])) = Len(Flatten(taken[p])) + Len(unsent[p])
    BY <1>4, <2>1
  <2> QED BY <1>4, <2>1, <2>2
<1>7. ASSUME outcome[p] = "EOF inside frame"
      PROVE  n < Len(messages[p]) /\ written < returned + Len(f)
  <2>1. Len(transit[p]) = 0 /\ Len(buffer[p]) > 0 /\ Decode(buffer[p]) = "incomplete"
    <3>1. transit[p] = <<>> /\ buffer[p] # <<>> /\ Decode(buffer[p]) = "incomplete"
      BY <1>1, <1>7 DEF FoundSo
    <3>2. \A s \in Seq(Byte) : s # <<>> => Len(s) > 0
      OBVIOUS
    <3>3. Len(transit[p]) = 0
      BY <3>1
    <3>4. Len(buffer[p]) > 0
      BY <1>2, <3>1, <3>2 DEF Bytes
    <3> QED BY <3>1, <3>3, <3>4
  <2>2. n < Len(messages[p]) /\ Len(f) \in Nat /\ Len(buffer[p]) < Len(f)
    BY <1>5, <2>1
  <2>3. Len(Flatten(messages[p])) = Len(Flatten(taken[p])) + Len(buffer[p]) + Len(unsent[p])
    BY <1>4, <2>1
  <2>4. written = returned + Len(buffer[p])
    <3> DEFINE all == Len(Flatten(messages[p]))
               got == Len(Flatten(taken[p]))
               b == Len(buffer[p])
               u == Len(unsent[p])
    <3>1. all = got + b + u /\ got \in Nat /\ b \in Nat /\ u \in Nat
      BY <1>4, <2>3
    <3> HIDE DEF all, got, b, u
    <3>2. all - u = got + b
      BY <3>1
    <3> QED BY <3>2 DEF all, got, b, u
  <2> HIDE DEF written, returned
  <2> QED BY <1>4, <2>2, <2>4
<1>8. ASSUME outcome[p] = "invalid length" PROVE n < Len(messages[p]) /\ ~WellFormedFrame(f)
  <2>1. Decode(buffer[p]) = "invalid"
    BY <1>1, <1>8 DEF FoundSo
  <2>2. Len(buffer[p]) > 0
    BY <1>2, <2>1, WireAssumption DEF Decode, Bytes
  <2> QED BY <1>5, <2>1, <2>2
<1> QED BY <1>1, <1>6, <1>7, <1>8 DEF Outcomes, n, f
-----------------------------------------------------------------------------
(***************************************************************************)
(* A step leaves alone a stream whose variables it does not change.        *)
(***************************************************************************)
LEMMA StreamKept ==
    ASSUME NEW q \in Peer, Whole(q), FoundSo(q),
           messages'[q] = messages[q], taken'[q] = taken[q], buffer'[q] = buffer[q],
           transit'[q] = transit[q], unsent'[q] = unsent[q],
           outcome'[q] = outcome[q], closed'[q] = closed[q]
    PROVE  Whole(q)' /\ FoundSo(q)'
  BY DEF Whole, FoundSo

LEMMA WriteStep ==
    ASSUME WireInvariant, NEW p \in Peer, Write(p)
    PROVE  WireInvariant'
<1>0. WireTypeOK /\ WaitsRightly /\ Whole(p) /\ FoundSo(p)
  BY DEF WireInvariant
<1>1. PICK n \in 1 .. Len(unsent[p]) :
        /\ transit' = [transit EXCEPT ![p] = @ \o SubSeq(unsent[p], 1, n)]
        /\ unsent' = [unsent EXCEPT ![p] = SubSeq(@, n + 1, Len(@))]
  BY DEF Write
<1>2. ~closed[p] /\ UNCHANGED <<messages, closed, buffer, waiting, taken, outcome>>
  BY DEF Write
<1> DEFINE x == transit[p]
           u == unsent[p]
           head == SubSeq(u, 1, n)
           tail == SubSeq(u, n + 1, Len(u))
<1>3. x \in Seq(Byte) /\ u \in Bytes
  BY <1>0, WireTypes DEF Bytes
<1>4. head \in Seq(Byte) /\ tail \in Seq(Byte) /\ head \o tail = u
  <2>1. n \in 0 .. Len(u)
    BY <1>3 DEF Bytes
  <2> QED BY <1>3, <2>1, CutInTwo DEF Bytes
<1>5. x \o head \in Seq(Byte)
  <2> HIDE DEF x, head
  <2> QED BY <1>3, <1>4, ConcatProperties
<1>6. (x \o head) \o tail = x \o u
  <2> HIDE DEF x, head, tail, u
  <2>1. (x \o head) \o tail = x \o (head \o tail)
    BY <1>3, <1>4, Reassociate
  <2> QED BY <1>4, <2>1
<1>7. transit'[p] = x \o head /\ unsent'[p] = tail
  BY <1>0, <1>1 DEF WireTypeOK
<1> HIDE DEF x, u, head, tail
<1>8. WireTypeOK'
  <2>1. transit' = [transit EXCEPT ![p] = x \o head] /\ unsent' = [unsent EXCEPT ![p] = tail]
    BY <1>1 DEF x, u, head, tail
  <2> QED BY <1>0, <1>2, <1>4, <1>5, <2>1 DEF WireTypeOK, Bytes
<1>9. WaitsRightly'
  BY <1>0, <1>2 DEF WaitsRightly
<1>10. Whole(p)'
  <2>1. transit'[p] \o unsent'[p] = transit[p] \o unsent[p]
    BY <1>6, <1>7 DEF x, u
  <2> QED BY <1>0, <1>2, <2>1 DEF Whole
<1>11. FoundSo(p)'
  BY <1>0, <1>2 DEF FoundSo
<1>12. ASSUME NEW q \in Peer \ {p} PROVE Whole(q)' /\ FoundSo(q)'
  <2>1. transit'[q] = transit[q] /\ unsent'[q] = unsent[q]
    BY <1>0, <1>1 DEF WireTypeOK
  <2>2. Whole(q) /\ FoundSo(q)
    BY DEF WireInvariant
  <2> QED BY <1>2, <2>1, <2>2, StreamKept
<1>13. \A q \in Peer : Whole(q)' /\ FoundSo(q)'
  BY <1>10, <1>11, <1>12
<1> QED BY <1>8, <1>9, <1>13 DEF WireInvariant

(***************************************************************************)
(* While the loop runs no stream has ended, so nothing is to be kept of    *)
(* how it ended.                                                           *)
(***************************************************************************)
LEMMA RunningFound == Running /\ UNCHANGED outcome => \A q \in Peer : FoundSo(q)'
  BY DEF Running, FoundSo

LEMMA ReadStep ==
    ASSUME WireInvariant, NEW p \in Peer, Read(p)
    PROVE  WireInvariant'
<1>0. WireTypeOK /\ WaitsRightly /\ Whole(p)
  BY DEF WireInvariant
<1>1. PICK n \in 1 .. Len(transit[p]) :
        /\ buffer' = [buffer EXCEPT ![p] = @ \o SubSeq(transit[p], 1, n)]
        /\ transit' = [transit EXCEPT ![p] = SubSeq(@, n + 1, Len(@))]
  BY DEF Read
<1>2. /\ Running /\ waiting' = waiting \ {p}
      /\ UNCHANGED <<messages, unsent, closed, taken, outcome>>
  BY DEF Read
<1> DEFINE a == Flatten(taken[p])
           b == buffer[p]
           x == transit[p]
           u == unsent[p]
           head == SubSeq(x, 1, n)
           tail == SubSeq(x, n + 1, Len(x))
<1>3. a \in Seq(Byte) /\ b \in Seq(Byte) /\ x \in Bytes /\ u \in Seq(Byte)
  BY <1>0, WireTypes DEF Bytes
<1>4. head \in Seq(Byte) /\ tail \in Seq(Byte) /\ head \o tail = x
  <2>1. n \in 0 .. Len(x)
    BY <1>3 DEF Bytes
  <2> QED BY <1>3, <2>1, CutInTwo DEF Bytes
<1>5. buffer'[p] = b \o head /\ transit'[p] = tail
  BY <1>0, <1>1 DEF WireTypeOK
<1>6. buffer' = [buffer EXCEPT ![p] = b \o head] /\ transit' = [transit EXCEPT ![p] = tail]
  BY <1>1
<1> HIDE DEF a, b, x, u, head, tail
<1>7. b \o head \in Seq(Byte) /\ a \o b \in Seq(Byte) /\ tail \o u \in Seq(Byte)
  BY <1>3, <1>4, ConcatProperties
<1>8. (a \o (b \o head)) \o (tail \o u) = (a \o b) \o (x \o u)
  <2>1. a \o (b \o head) = (a \o b) \o head
    BY <1>3, <1>4, Reassociate
  <2>2. ((a \o b) \o head) \o (tail \o u) = (a \o b) \o (head \o (tail \o u))
    BY <1>4, <1>7, Reassociate
  <2>3. head \o (tail \o u) = (head \o tail) \o u
    <3>1. head \in Seq(Byte) /\ tail \in Seq(Byte) /\ u \in Seq(Byte)
      BY <1>3, <1>4
    <3> QED BY <3>1, Reassociate
  <2> QED BY <1>4, <2>1, <2>2, <2>3
<1>9. WireTypeOK'
  BY <1>0, <1>2, <1>4, <1>6, <1>7 DEF WireTypeOK, Bytes
<1>10. WaitsRightly'
  BY <1>0, <1>2, <1>6 DEF WaitsRightly, WireTypeOK
<1>11. Whole(p)'
  <2>1. taken'[p] = taken[p] /\ messages'[p] = messages[p] /\ unsent'[p] = unsent[p]
    BY <1>2
  <2>2. (Flatten(taken[p]) \o buffer'[p]) \o (transit'[p] \o unsent[p])
          = (Flatten(taken[p]) \o buffer[p]) \o (transit[p] \o unsent[p])
    BY <1>5, <1>8 DEF a, b, x, u
  <2> QED BY <1>0, <2>1, <2>2 DEF Whole, Aligned
<1>12. ASSUME NEW q \in Peer \ {p} PROVE Whole(q)'
  <2>1. transit'[q] = transit[q] /\ buffer'[q] = buffer[q]
    BY <1>0, <1>6 DEF WireTypeOK
  <2>2. Whole(q)
    BY DEF WireInvariant
  <2> QED BY <1>2, <2>1, <2>2 DEF Whole
<1>13. \A q \in Peer : Whole(q)'
  BY <1>11, <1>12
<1>14. \A q \in Peer : FoundSo(q)'
  BY <1>2, RunningFound
<1> QED BY <1>9, <1>10, <1>13, <1>14 DEF WireInvariant

LEMMA ReturnedStep ==
    ASSUME WireInvariant, NEW p \in Peer, Returned(p)
    PROVE  WireInvariant'
<1>0. WireTypeOK /\ Whole(p)
  BY DEF WireInvariant
<1>1. /\ Running /\ Decode(buffer[p]) = "frame" /\ waiting' = {}
      /\ UNCHANGED <<messages, unsent, transit, closed, outcome>>
      /\ taken' = [taken EXCEPT ![p] = Append(@, SubSeq(buffer[p], 1, Size(buffer[p])))]
      /\ buffer' = [buffer EXCEPT ![p] = SubSeq(@, Size(@) + 1, Len(@))]
  BY DEF Returned, Dropped
<1> DEFINE m == messages[p]
           ts == taken[p]
           b == buffer[p]
           rest == transit[p] \o unsent[p]
           f == m[Len(ts) + 1]
           after == SubSeq(b, Len(f) + 1, Len(b))
<1>2. /\ m \in Messages /\ m \in Seq(Bytes) /\ ts \in Seq(Bytes) /\ b \in Bytes /\ rest \in Bytes
      /\ Flatten(ts) \in Bytes /\ Aligned(m, ts, b, rest)
  BY <1>0, WireTypes DEF Whole
<1>3. Len(b) > 0
  BY <1>1, <1>2, WireAssumption DEF Decode, Bytes
<1>4. /\ Len(ts) + 1 \in 1 .. Len(m) /\ f \in Bytes
      /\ WellFormedFrame(f) \/ MalformedFrame(f)
      /\ \A i \in 1 .. Len(b) : i <= Len(f) => b[i] = f[i]
  <2> HIDE DEF m, ts, b, rest
  <2> QED BY <1>2, <1>3, NextFrame
<1> HIDE DEF f
<1>5. WellFormedFrame(f) /\ Size(b) = Len(f) /\ Len(f) <= Len(b)
  <2> HIDE DEF m, ts, b, rest
  <2> QED BY <1>1, <1>2, <1>4, DecodeJudges DEF b
<1>6. SubSeq(b, 1, Len(f)) = f
  BY <1>2, <1>4, <1>5, FrontIsFrame
<1>7. after \in Bytes /\ f \o after = b
  <2>1. Len(f) \in 0 .. Len(b)
    BY <1>2, <1>4, <1>5 DEF Bytes
  <2> HIDE DEF b
  <2> QED BY <1>2, <1>6, <2>1, CutInTwo
<1>8. taken' = [taken EXCEPT ![p] = Append(ts, f)] /\ buffer' = [buffer EXCEPT ![p] = after]
  BY <1>1, <1>5, <1>6
<1> HIDE DEF m, ts, b, rest, after
<1>9. /\ Append(ts, f) \in Seq(Bytes) /\ Len(Append(ts, f)) = Len(ts) + 1
      /\ Append(ts, f)[Len(ts) + 1] = f
      /\ \A k \in 1 .. Len(ts) : Append(ts, f)[k] = ts[k]
  BY <1>2, <1>4, AppendProperties
<1>10. Aligned(m, Append(ts, f), after, rest)
  <2>1. Len(Append(ts, f)) <= Len(m)
    BY <1>2, <1>4, <1>9
  <2>2. ASSUME NEW k \in 1 .. Len(Append(ts, f))
        PROVE  Append(ts, f)[k] = m[k] /\ WellFormedFrame(Append(ts, f)[k])
    <3>1. CASE k = Len(ts) + 1
      BY <1>5, <1>9, <3>1 DEF f
    <3>2. CASE k # Len(ts) + 1
      <4>1. k \in 1 .. Len(ts)
        BY <1>2, <1>9, <3>2
      <4> QED BY <1>2, <1>9, <4>1 DEF Aligned
    <3> QED BY <3>1, <3>2
  <2>3. (Flatten(Append(ts, f)) \o after) \o rest = Flatten(m)
    <3>1. Flatten(Append(ts, f)) = Flatten(ts) \o f
      BY <1>2, <1>4, FlattenFacts
    <3>2. (Flatten(ts) \o f) \o after = Flatten(ts) \o (f \o after)
      BY <1>2, <1>4, <1>7, Reassociate DEF Bytes
    <3> QED BY <1>2, <1>7, <3>1, <3>2 DEF Aligned
  <2> QED BY <2>1, <2>2, <2>3 DEF Aligned
<1>11. /\ taken'[p] = Append(ts, f) /\ buffer'[p] = after
       /\ \A q \in Peer \ {p} : taken'[q] = taken[q] /\ buffer'[q] = buffer[q]
  BY <1>0, <1>8 DEF WireTypeOK
<1>12. WireTypeOK'
  <2>1. taken' \in [Peer -> Seq(Bytes)]
    BY <1>0, <1>8, <1>9 DEF WireTypeOK
  <2>2. buffer' \in [Peer -> Bytes]
    BY <1>0, <1>7, <1>8 DEF WireTypeOK
  <2> QED BY <1>0, <1>1, <2>1, <2>2 DEF WireTypeOK
<1>13. WaitsRightly'
  BY <1>1 DEF WaitsRightly
<1>14. Whole(p)'
  BY <1>1, <1>10, <1>11 DEF Whole, m, rest
<1>15. ASSUME NEW q \in Peer \ {p} PROVE Whole(q)'
  <2>1. Whole(q)
    BY DEF WireInvariant
  <2> QED BY <1>1, <1>11, <2>1 DEF Whole
<1>16. \A q \in Peer : Whole(q)'
  BY <1>14, <1>15
<1>17. \A q \in Peer : FoundSo(q)'
  BY <1>1, RunningFound
<1> QED BY <1>12, <1>13, <1>16, <1>17 DEF WireInvariant

LEMMA WireStep == WireInvariant /\ [WireNext]_wireVars => WireInvariant'
<1> SUFFICES ASSUME WireInvariant, [WireNext]_wireVars PROVE WireInvariant'
  OBVIOUS
<1>0. WireTypeOK /\ WaitsRightly /\ \A q \in Peer : Whole(q) /\ FoundSo(q)
  BY DEF WireInvariant
<1>1. ASSUME NEW p \in Peer, PeerCloses(p) PROVE WireInvariant'
  <2>1. /\ UNCHANGED <<messages, unsent, transit, buffer, waiting, taken, outcome>>
        /\ closed' = [closed EXCEPT ![p] = TRUE]
    BY <1>1 DEF PeerCloses
  <2>2. WireTypeOK' /\ WaitsRightly' /\ \A q \in Peer : Whole(q)'
    BY <1>0, <2>1 DEF WireTypeOK, WaitsRightly, Whole
  <2>3. ASSUME NEW q \in Peer PROVE FoundSo(q)'
    <3>1. closed[q] => closed'[q]
      BY <1>0, <2>1 DEF WireTypeOK
    <3> QED BY <1>0, <2>1, <3>1 DEF FoundSo
  <2> QED BY <2>2, <2>3 DEF WireInvariant
<1>2. ASSUME NEW p \in Peer, Poll(p) PROVE WireInvariant'
  <2>1. /\ UNCHANGED <<messages, unsent, transit, closed, buffer, taken, outcome>>
        /\ waiting' = waiting \cup {p} /\ Decode(buffer[p]) = "incomplete"
    BY <1>2 DEF Poll
  <2>2. WireTypeOK' /\ WaitsRightly'
    BY <1>0, <2>1 DEF WireTypeOK, WaitsRightly
  <2>3. ASSUME NEW q \in Peer PROVE Whole(q)' /\ FoundSo(q)'
    BY <1>0, <2>1, StreamKept
  <2> QED BY <2>2, <2>3 DEF WireInvariant
<1>3. ASSUME NEW p \in Peer, Invalid(p) \/ EndOfStream(p) PROVE WireInvariant'
  <2>1. /\ UNCHANGED <<messages, unsent, transit, closed, buffer, waiting, taken>>
        /\ \E how \in Outcomes : outcome' = [outcome EXCEPT ![p] = how]
        /\ \A q \in Peer : outcome[q] = "open"
    BY <1>3 DEF Invalid, EndOfStream, Ends, Outcomes, AtEof, Running
  <2>2. WireTypeOK' /\ WaitsRightly' /\ \A q \in Peer : Whole(q)'
    BY <1>0, <2>1 DEF WireTypeOK, WaitsRightly, Whole
  <2>3. ASSUME NEW q \in Peer \ {p} PROVE FoundSo(q)'
    <3>1. outcome'[q] = "open"
      BY <1>0, <2>1 DEF WireTypeOK
    <3> QED BY <3>1 DEF FoundSo
  <2>4. FoundSo(p)'
    <3>1. CASE Invalid(p)
      <4>1. outcome'[p] = "invalid length" /\ Decode(buffer[p]) = "invalid"
        BY <1>0, <3>1 DEF Invalid, Ends, WireTypeOK
      <4> QED BY <2>1, <4>1 DEF FoundSo
    <3>2. CASE EndOfStream(p)
      <4>1. /\ closed[p] /\ transit[p] = <<>> /\ Decode(buffer[p]) = "incomplete"
            /\ outcome'[p] = AtEof(buffer[p])
        BY <1>0, <3>2 DEF EndOfStream, Ends, WireTypeOK, WaitsRightly
      <4> QED BY <2>1, <4>1 DEF FoundSo, AtEof
    <3> QED BY <1>3, <3>1, <3>2
  <2> QED BY <2>2, <2>3, <2>4 DEF WireInvariant
<1>4. CASE UNCHANGED wireVars
  <2>1. UNCHANGED <<messages, unsent, transit, closed, buffer, waiting, taken, outcome>>
    BY <1>4 DEF wireVars
  <2>2. WireTypeOK' /\ WaitsRightly'
    BY <1>0, <2>1 DEF WireTypeOK, WaitsRightly
  <2>3. ASSUME NEW q \in Peer PROVE Whole(q)' /\ FoundSo(q)'
    BY <1>0, <2>1, StreamKept
  <2> QED BY <2>2, <2>3 DEF WireInvariant
<1> QED BY <1>1, <1>2, <1>3, <1>4, WriteStep, ReadStep, ReturnedStep DEF WireNext, Reader

LEMMA WireInitially == WireInit => WireInvariant
<1> SUFFICES ASSUME WireInit PROVE WireInvariant
  OBVIOUS
<1>1. <<>> \in Bytes /\ <<>> \in Seq(Bytes)
  BY DEF Bytes
<1>2. ASSUME NEW m \in Messages PROVE Flatten(m) \in Bytes
  <2>1. m \in Seq(Bytes)
    BY WireAssumption DEF Bytes
  <2>2. Len(m) <= Len(m) /\ \A k \in 1 .. Len(m) : m[k] = m[k]
    BY <2>1
  <2> QED BY <2>1, <2>2, FlattenPrefix
<1>3. WireTypeOK
  BY <1>1, <1>2 DEF WireInit, WireTypeOK, Outcomes
<1>4. WaitsRightly
  BY DEF WireInit, WaitsRightly
<1>5. ASSUME NEW p \in Peer PROVE Whole(p) /\ FoundSo(p)
  <2> DEFINE all == Flatten(messages[p])
  <2>1. /\ transit[p] = <<>> /\ buffer[p] = <<>> /\ taken[p] = <<>> /\ unsent[p] = all
        /\ outcome[p] = "open" /\ messages[p] \in Messages
    BY DEF WireInit
  <2>2. all \in Seq(Byte) /\ messages[p] \in Seq(Bytes)
    BY <1>2, <2>1, WireAssumption DEF Bytes
  <2> HIDE DEF all
  <2>3. (Flatten(<<>>) \o <<>>) \o (<<>> \o all) = all
    <3>1. <<>> \o all = all /\ <<>> \o <<>> = <<>>
      BY <2>2
    <3> QED BY <3>1, FlattenFacts
  <2>4. Whole(p)
    <3>1. Len(<<>>) <= Len(messages[p]) /\ 1 .. Len(<<>>) = {}
      BY <2>2
    <3> QED BY <2>1, <2>3, <3>1 DEF Whole, Aligned, all
  <2>5. FoundSo(p)
    BY <2>1 DEF FoundSo
  <2> QED BY <2>4, <2>5
<1> QED BY <1>3, <1>4, <1>5 DEF WireInvariant

(***************************************************************************)
(* Framing is exact for any frames, any length field and any number of     *)
(* peers, however the bytes are cut up and whichever future select! drops  *)
(* (FrameReader::next, decode).                                            *)
(***************************************************************************)
THEOREM FramesExactCorrect == WireSpec => []FramesExact
  BY WireInitially, WireStep, InvariantExact, PTL DEF WireSpec

(***************************************************************************)
(* And the loop ends for the reason that holds: silently only between two  *)
(* frames all of which were returned.                                      *)
(***************************************************************************)
THEOREM EndsRightlyCorrect == WireSpec => []EndsRightly
  BY WireInitially, WireStep, InvariantEnds, PTL DEF WireSpec
=============================================================================
