---------------------------- MODULE TraceProofs ----------------------------
(***************************************************************************)
(* Proofs about the trace file, for any number of tasks and faults: lines  *)
(* do not mix, a fault that took effect has its line, and replay() finds   *)
(* it in what is there whenever the process dies.                          *)
(***************************************************************************)
EXTENDS Trace, SequenceFacts

Kinds == {"event", "fault", "closed"}

Lines == [task : Task, kind : Kinds, n : Nat]

Pieces == [record : Lines, half : {1, 2}]

Half(r, h) == [record |-> r, half |-> h]

TraceTypeOK ==
    /\ alive \in BOOLEAN
    /\ lock \in SUBSET Task
    /\ file \in Seq(Pieces)
    /\ line \in [Task -> Lines]
    /\ step \in [Task -> {"ready", "begun", "half", "ended"}]
    /\ acted \in SUBSET Lines
    /\ torn \in BOOLEAN

(***************************************************************************)
(* Only the task in the mutex is in the midst of a line, and the first     *)
(* half of that line is the last thing in the file.                        *)
(***************************************************************************)
Writing == {t \in Task : step[t] \in {"begun", "half"}}

Mutex == Writing = lock /\ \A t, u \in lock : t = u

LastPiece ==
    \A t \in Task : step[t] = "half" =>
        Len(file) \in Nat \ {0} /\ file[Len(file)] = Half(line[t], 1)

(***************************************************************************)
(* As long as no line is torn, the file is a sequence of whole lines, but  *)
(* for the line that is being written.                                     *)
(***************************************************************************)
InHalf == \E t \in Task : step[t] = "half"

Shape == ~torn => Parses(IF InHalf THEN Front(file) ELSE file)

FaultsOnly == \A r \in acted : r.kind = "fault"

TraceInvariant == TraceTypeOK /\ Mutex /\ LastPiece /\ Shape /\ FaultsOnly /\ ActedRecorded

-----------------------------------------------------------------------------
(***************************************************************************)
(* The lines a task goes on with.                                          *)
(***************************************************************************)
LEMMA AfterType ==
    ASSUME NEW r \in Lines PROVE After(r) \subseteq Lines
<1>1. /\ Line(r.task, "closed", r.n) \in Lines
      /\ Line(r.task, "fault", r.n) \in Lines
      /\ Line(r.task, "event", r.n + 1) \in Lines
  BY DEF Lines, Line, Kinds
<1> QED BY <1>1 DEF After

(***************************************************************************)
(* Adding a whole line, and taking the last piece away.                    *)
(***************************************************************************)
LEMMA ParsesLine ==
    ASSUME NEW f \in Seq(Pieces), NEW g \in Seq(Pieces), NEW r, Parses(f),
           Len(g) = Len(f) + 2, \A k \in 1 .. Len(f) : g[k] = f[k],
           g[Len(f) + 1] = Half(r, 1), g[Len(f) + 2] = Half(r, 2)
    PROVE  Parses(g)
<1> DEFINE n == Len(f)
<1>0. n \in Nat /\ Len(g) = n + 2 /\ n % 2 = 0
  BY DEF Parses
<1>1. (n + 2) % 2 = 0
  BY <1>0
<1>2. \A k \in 1 .. n + 2 : g[k].half = IF k % 2 = 1 THEN 1 ELSE 2
  <2> SUFFICES ASSUME NEW k \in 1 .. n + 2 PROVE g[k].half = IF k % 2 = 1 THEN 1 ELSE 2
    OBVIOUS
  <2>1. CASE k \in 1 .. n
    BY <2>1 DEF Parses
  <2>2. CASE k = n + 1
    <3>1. k % 2 = 1
      BY <1>0, <2>2
    <3>2. g[k].half = 1
      BY <2>2 DEF Half
    <3> QED BY <3>1, <3>2
  <2>3. CASE k = n + 2
    <3>1. k % 2 # 1
      BY <1>0, <2>3
    <3>2. g[k].half = 2
      BY <2>3 DEF Half
    <3> QED BY <3>1, <3>2
  <2> QED BY <1>0, <2>1, <2>2, <2>3
<1>3. \A k \in 1 .. (n + 2) \div 2 : g[2 * k - 1].record = g[2 * k].record
  <2> SUFFICES ASSUME NEW k \in 1 .. (n + 2) \div 2
               PROVE  g[2 * k - 1].record = g[2 * k].record
    OBVIOUS
  <2>1. CASE k \in 1 .. n \div 2
    <3>1. f[2 * k - 1].record = f[2 * k].record
      BY <2>1 DEF Parses
    <3>2. 2 * k - 1 \in 1 .. n /\ 2 * k \in 1 .. n
      BY <1>0, <2>1
    <3> QED BY <3>1, <3>2
  <2>2. CASE k \notin 1 .. n \div 2
    <3>1. 2 * k - 1 = n + 1 /\ 2 * k = n + 2
      BY <1>0, <2>2
    <3> QED BY <3>1 DEF Half
  <2> QED BY <2>1, <2>2
<1> QED BY <1>0, <1>1, <1>2, <1>3 DEF Parses

LEMMA FrontFacts ==
    ASSUME NEW S, NEW f \in Seq(S), f # <<>>
    PROVE  /\ Front(f) \in Seq(S) /\ Len(Front(f)) = Len(f) - 1 /\ Len(f) \in Nat \ {0}
           /\ \A k \in 1 .. Len(f) - 1 : Front(f)[k] = f[k]
<1> DEFINE n == Len(f) - 1
<1>1. Len(f) \in Nat \ {0} /\ n \in Nat /\ \A k \in 1 .. n : f[k] \in S
  OBVIOUS
<1> HIDE DEF n
<1>2. /\ SubSeq(f, 1, n) \in Seq(S) /\ Len(SubSeq(f, 1, n)) = n
      /\ \A k \in 1 .. n : SubSeq(f, 1, n)[k] = f[k]
  BY <1>1, SubSeqProperties
<1> QED BY <1>1, <1>2 DEF Front, n

LEMMA FrontOfAppend ==
    ASSUME NEW S, NEW f \in Seq(S), NEW x \in S
    PROVE  Front(Append(f, x)) = f
<1> DEFINE g == Append(f, x)
<1>1. g \in Seq(S) /\ g # <<>> /\ Len(g) = Len(f) + 1 /\ Len(f) \in Nat
  BY AppendProperties
<1>2. \A k \in 1 .. Len(f) : g[k] = f[k]
  BY AppendProperties
<1> HIDE DEF g
<1>3. /\ Front(g) \in Seq(S) /\ Len(Front(g)) = Len(f)
      /\ \A k \in 1 .. Len(f) : Front(g)[k] = f[k]
  BY <1>1, <1>2, FrontFacts
<1>4. Front(g) = f
  BY <1>3, SeqEqual
<1> QED BY <1>4 DEF g

-----------------------------------------------------------------------------
(***************************************************************************)
(* A record that is in the file stays there.                               *)
(***************************************************************************)
InFile(f, r) == \E k \in 1 .. Len(f) - 1 : f[k] = Half(r, 1) /\ f[k + 1] = Half(r, 2)

LEMMA InFileKept ==
    ASSUME NEW f \in Seq(Pieces), NEW p \in Pieces, NEW r, InFile(f, r)
    PROVE  InFile(Append(f, p), r)
<1> DEFINE g == Append(f, p)
<1>1. Len(g) = Len(f) + 1 /\ Len(f) \in Nat /\ \A k \in 1 .. Len(f) : g[k] = f[k]
  BY AppendProperties
<1>2. PICK k \in 1 .. Len(f) - 1 : f[k] = Half(r, 1) /\ f[k + 1] = Half(r, 2)
  BY DEF InFile
<1> HIDE DEF g
<1>3. k \in 1 .. Len(g) - 1 /\ k \in 1 .. Len(f) /\ k + 1 \in 1 .. Len(f)
  BY <1>1
<1>4. g[k] = Half(r, 1) /\ g[k + 1] = Half(r, 2)
  BY <1>1, <1>2, <1>3
<1>5. InFile(g, r)
  BY <1>3, <1>4 DEF InFile
<1> QED BY <1>5 DEF g

LEMMA InFileWritten ==
    ASSUME NEW f \in Seq(Pieces), NEW r \in Lines, Len(f) \in Nat \ {0},
           f[Len(f)] = Half(r, 1)
    PROVE  InFile(Append(f, Half(r, 2)), r)
<1> DEFINE g == Append(f, Half(r, 2))
<1>0. Half(r, 2) \in Pieces
  BY DEF Half, Pieces
<1>1. /\ Len(g) = Len(f) + 1 /\ \A k \in 1 .. Len(f) : g[k] = f[k]
      /\ g[Len(f) + 1] = Half(r, 2)
  BY <1>0, AppendProperties
<1> HIDE DEF g
<1>2. Len(f) \in 1 .. Len(g) - 1 /\ g[Len(f)] = Half(r, 1)
  BY <1>1
<1>3. InFile(g, r)
  BY <1>1, <1>2 DEF InFile
<1> QED BY <1>3 DEF g

LEMMA ActedIs == ActedRecorded <=> \A r \in acted : InFile(file, r)
BY DEF ActedRecorded, InFile, Half
-----------------------------------------------------------------------------
(***************************************************************************)
(* Leaving the mutex: the task that was in it, alone, is no longer.        *)
(***************************************************************************)
LEMMA LeaveFacts ==
    ASSUME TraceInvariant, NEW t \in Task, NEW written \in BOOLEAN,
           step[t] \in {"begun", "half"}, Leave(t, written)
    PROVE  /\ lock' \in SUBSET Task /\ line' \in [Task -> Lines] /\ acted' \in SUBSET Lines
           /\ step' \in [Task -> {"ready", "begun", "half", "ended"}]
           /\ Writing' = {} /\ lock' = {} /\ alive' = alive
           /\ acted' \subseteq acted \cup {line[t]}
           /\ line[t] \in acted' /\ line[t] \notin acted => written /\ line[t].kind = "fault"
<1>0. TraceTypeOK /\ Mutex /\ line[t] \in Lines /\ step[t] \in {"begun", "half"}
  BY DEF TraceInvariant, TraceTypeOK
<1>1. lock = {t} /\ \A u \in Task : step[u] \in {"begun", "half"} => u = t
  BY <1>0 DEF Mutex, Writing
<1>2. lock' = {}
  BY <1>1 DEF Leave
<1>3. \/ step' = [step EXCEPT ![t] = "ended"]
      \/ step' = [step EXCEPT ![t] = "ready"]
  BY DEF Leave
<1>4. step' \in [Task -> {"ready", "begun", "half", "ended"}]
  BY <1>0, <1>3 DEF TraceTypeOK
<1>5. Writing' = {}
  BY <1>0, <1>1, <1>3 DEF Writing, TraceTypeOK
<1>6. line' \in [Task -> Lines]
  <2>1. line' = line \/ \E r \in After(line[t]) : line' = [line EXCEPT ![t] = r]
    BY DEF Leave
  <2> QED BY <1>0, <2>1, AfterType DEF TraceTypeOK
<1>7. acted' = IF line[t].kind = "fault" /\ written THEN acted \cup {line[t]} ELSE acted
  BY DEF Leave, ActsOn
<1> QED BY <1>0, <1>2, <1>4, <1>5, <1>6, <1>7 DEF Leave, TraceTypeOK

(***************************************************************************)
(* One step per action.                                                    *)
(***************************************************************************)
LEMMA TraceStep ==
    ASSUME TraceInvariant, [TraceNext]_traceVars
    PROVE  TraceInvariant'
<1>0. /\ TraceTypeOK /\ Mutex /\ LastPiece /\ Shape /\ FaultsOnly
      /\ \A r \in acted : InFile(file, r)
      /\ file \in Seq(Pieces) /\ step \in [Task -> {"ready", "begun", "half", "ended"}]
      /\ line \in [Task -> Lines]
  BY ActedIs DEF TraceInvariant, TraceTypeOK
<1>a. (\A r \in acted' : InFile(file', r)) => ActedRecorded'
  BY DEF ActedRecorded, InFile, Half
<1>1. CASE UNCHANGED traceVars
  BY <1>1 DEF traceVars, TraceInvariant, TraceTypeOK, Mutex, Writing, LastPiece, Shape, InHalf,
       FaultsOnly, ActedRecorded
<1>2. CASE Kill
  BY <1>2 DEF Kill, TraceInvariant, TraceTypeOK, Mutex, Writing, LastPiece, Shape, InHalf,
       FaultsOnly, ActedRecorded
<1>3. ASSUME NEW t \in Task, Lock(t) PROVE TraceInvariant'
  <2>0. /\ lock = {} /\ lock' = {t} /\ step' = [step EXCEPT ![t] = "begun"] /\ step[t] = "ready"
        /\ UNCHANGED <<alive, file, line, acted, torn>>
    BY <1>3 DEF Lock
  <2>1. TraceTypeOK'
    BY <1>0, <2>0 DEF TraceTypeOK
  <2>2. Mutex'
    BY <1>0, <2>0 DEF Mutex, Writing
  <2>3. \A u \in Task : step'[u] = "half" <=> step[u] = "half"
    BY <1>0, <2>0
  <2>4. LastPiece' /\ Shape' /\ FaultsOnly'
    BY <1>0, <2>0, <2>3 DEF LastPiece, Shape, InHalf, FaultsOnly
  <2> QED BY <1>0, <1>a, <2>0, <2>1, <2>2, <2>4 DEF TraceInvariant
<1>4. ASSUME NEW t \in Task, WriteFirst(t) PROVE TraceInvariant'
  <2>0. /\ file' = Append(file, Half(line[t], 1)) /\ step[t] = "begun"
        /\ step' = [step EXCEPT ![t] = "half"] /\ UNCHANGED <<alive, lock, line, acted, torn>>
    BY <1>4 DEF WriteFirst, Piece, Half
  <2>1. Half(line[t], 1) \in Pieces
    BY <1>0 DEF Half, Pieces
  <2>2. /\ file' \in Seq(Pieces) /\ Len(file') = Len(file) + 1 /\ Len(file) \in Nat
        /\ file'[Len(file) + 1] = Half(line[t], 1)
    BY <1>0, <2>0, <2>1, AppendProperties
  <2>3. TraceTypeOK'
    BY <1>0, <2>0, <2>2 DEF TraceTypeOK
  <2>4. Mutex'
    BY <1>0, <2>0 DEF Mutex, Writing
  <2>5. \A u \in Task : step[u] # "half" /\ (step'[u] = "half" => u = t)
    BY <1>0, <2>0 DEF Mutex, Writing
  <2>6. LastPiece'
    BY <2>0, <2>2, <2>5 DEF LastPiece
  <2>7. Shape'
    <3>1. ~InHalf /\ InHalf'
      BY <1>0, <2>0, <2>5 DEF InHalf
    <3>2. Front(file') = file
      BY <1>0, <2>0, <2>1, FrontOfAppend
    <3> QED BY <1>0, <2>0, <3>1, <3>2 DEF Shape
  <2>8. \A r \in acted' : InFile(file', r)
    BY <1>0, <2>0, <2>1, InFileKept
  <2> QED BY <1>0, <1>a, <2>0, <2>3, <2>4, <2>6, <2>7, <2>8 DEF TraceInvariant, FaultsOnly
<1>5. ASSUME NEW t \in Task, WriteRest(t) PROVE TraceInvariant'
  <2>0. /\ file' = Append(file, Half(line[t], 2)) /\ step[t] = "half" /\ Leave(t, TRUE)
        /\ torn' = torn /\ line[t] \in Lines
    BY <1>0, <1>5 DEF WriteRest, Piece, Half
  <2>1. Half(line[t], 2) \in Pieces
    BY <2>0 DEF Half, Pieces
  <2>2. /\ file' \in Seq(Pieces) /\ Len(file') = Len(file) + 1
        /\ \A k \in 1 .. Len(file) : file'[k] = file[k]
        /\ file'[Len(file) + 1] = Half(line[t], 2)
    BY <1>0, <2>0, <2>1, AppendProperties
  <2>3. Len(file) \in Nat \ {0} /\ file[Len(file)] = Half(line[t], 1) /\ file # <<>>
    BY <1>0, <2>0 DEF LastPiece
  <2>4. /\ TraceTypeOK' /\ Mutex' /\ ~InHalf'
        /\ acted' \subseteq acted \cup {line[t]}
        /\ line[t] \in acted' /\ line[t] \notin acted => line[t].kind = "fault"
    <3>1. /\ lock' \in SUBSET Task /\ line' \in [Task -> Lines] /\ acted' \in SUBSET Lines
          /\ step' \in [Task -> {"ready", "begun", "half", "ended"}]
          /\ Writing' = {} /\ lock' = {} /\ alive' = alive
          /\ acted' \subseteq acted \cup {line[t]}
          /\ line[t] \in acted' /\ line[t] \notin acted => line[t].kind = "fault"
      BY <2>0, LeaveFacts
    <3> QED BY <1>0, <2>0, <2>2, <3>1 DEF TraceTypeOK, Mutex, Writing, InHalf
  <2>5. LastPiece' /\ FaultsOnly'
    BY <1>0, <2>4 DEF LastPiece, InHalf, FaultsOnly
  <2>6. Shape'
    <3> SUFFICES ASSUME ~torn PROVE Parses(file')
      BY <2>0, <2>4 DEF Shape
    <3> DEFINE f == Front(file)
    <3>1. Parses(f)
      BY <1>0, <2>0 DEF Shape, InHalf
    <3>2. /\ f \in Seq(Pieces) /\ Len(f) = Len(file) - 1
          /\ \A k \in 1 .. Len(file) - 1 : f[k] = file[k]
      BY <1>0, <2>3, FrontFacts
    <3> HIDE DEF f
    <3>3. /\ Len(file') = Len(f) + 2 /\ \A k \in 1 .. Len(f) : file'[k] = f[k]
          /\ file'[Len(f) + 1] = Half(line[t], 1) /\ file'[Len(f) + 2] = Half(line[t], 2)
      <4>1. Len(f) + 1 = Len(file) /\ Len(f) + 2 = Len(file) + 1
        BY <2>3, <3>2
      <4>2. Len(file) \in 1 .. Len(file) /\ \A k \in 1 .. Len(f) : k \in 1 .. Len(file)
        BY <2>3, <3>2
      <4> QED BY <2>2, <2>3, <3>2, <4>1, <4>2
    <3> QED BY <2>2, <3>1, <3>2, <3>3, ParsesLine
  <2>7. \A r \in acted' : InFile(file', r)
    <3>1. \A r \in acted : InFile(file', r)
      BY <1>0, <2>0, <2>1, InFileKept
    <3>2. InFile(file', line[t])
      BY <1>0, <2>0, <2>3, InFileWritten
    <3> QED BY <2>4, <3>1, <3>2
  <2> QED BY <1>a, <2>4, <2>5, <2>6, <2>7 DEF TraceInvariant
<1>6. ASSUME NEW t \in Task, WriteFails(t) PROVE TraceInvariant'
  <2>0. /\ step[t] \in {"begun", "half"} /\ torn' = (torn \/ step[t] = "half")
        /\ file' = file /\ Leave(t, FALSE)
    BY <1>6 DEF WriteFails
  <2>1. /\ lock' \in SUBSET Task /\ line' \in [Task -> Lines] /\ acted' \in SUBSET Lines
        /\ step' \in [Task -> {"ready", "begun", "half", "ended"}]
        /\ Writing' = {} /\ lock' = {} /\ alive' = alive
        /\ acted' \subseteq acted
    BY <2>0, LeaveFacts
  <2>2. TraceTypeOK' /\ Mutex' /\ ~InHalf'
    BY <1>0, <2>0, <2>1 DEF TraceTypeOK, Mutex, Writing, InHalf
  <2>3. LastPiece' /\ FaultsOnly'
    BY <1>0, <2>1, <2>2 DEF LastPiece, InHalf, FaultsOnly
  <2>4. Shape'
    <3> SUFFICES ASSUME ~torn' PROVE Parses(file)
      BY <2>0, <2>2 DEF Shape
    <3>1. ~torn /\ step[t] = "begun"
      BY <2>0
    <3>2. ~InHalf
      BY <1>0, <3>1 DEF InHalf, Mutex, Writing
    <3> QED BY <1>0, <3>1, <3>2 DEF Shape
  <2> QED BY <1>0, <1>a, <2>0, <2>1, <2>2, <2>3, <2>4 DEF TraceInvariant
<1> QED BY <1>1, <1>2, <1>3, <1>4, <1>5, <1>6 DEF TraceNext

LEMMA TraceInvariantHolds == TraceSpec => []TraceInvariant
<1>1. TraceInit => TraceInvariant
  <2> SUFFICES ASSUME TraceInit PROVE TraceInvariant
    OBVIOUS
  <2>1. \A t \in Task : Line(t, "event", 1) \in Lines
    BY DEF Line, Lines, Kinds
  <2>2. TraceTypeOK
    <3>1. <<>> \in Seq(Pieces)
      OBVIOUS
    <3> QED BY <2>1, <3>1 DEF TraceInit, TraceTypeOK
  <2>3. Mutex /\ LastPiece /\ FaultsOnly /\ ActedRecorded /\ ~InHalf
    BY DEF TraceInit, Mutex, Writing, LastPiece, FaultsOnly, ActedRecorded, InHalf
  <2>4. Shape
    <3>1. Parses(<<>>)
      BY DEF Parses
    <3> QED BY <2>3, <3>1 DEF TraceInit, Shape
  <2> QED BY <2>2, <2>3, <2>4 DEF TraceInvariant
<1>2. TraceInvariant /\ [TraceNext]_traceVars => TraceInvariant'
  BY TraceStep
<1> QED BY <1>1, <1>2, PTL DEF TraceSpec

(***************************************************************************)
(* A fault that took effect has its whole line in the file, however the    *)
(* tasks interleave and whatever writes fail (record(), apply()).          *)
(***************************************************************************)
THEOREM ActedRecordedCorrect == TraceSpec => []ActedRecorded
<1>1. TraceInvariant => ActedRecorded
  BY DEF TraceInvariant
<1> QED BY <1>1, TraceInvariantHolds, PTL

(***************************************************************************)
(* Unless a failed write has torn a line, only the last line of the file   *)
(* can be incomplete, at whatever moment the process dies, and replay() of *)
(* the others finds every fault that took effect.                          *)
(***************************************************************************)
THEOREM ReplayCompleteCorrect == TraceSpec => []ReplayComplete
<1>1. TraceInvariant => ReplayComplete
  <2> SUFFICES ASSUME TraceInvariant, ~torn
               PROVE  Parses(WholeLines) /\ acted \subseteq Replay(WholeLines)
    BY DEF ReplayComplete
  <2>0. /\ file \in Seq(Pieces) /\ LastPiece /\ Shape /\ FaultsOnly
        /\ \A r \in acted : InFile(file, r)
    BY ActedIs DEF TraceInvariant, TraceTypeOK
  <2>1. /\ Parses(WholeLines) /\ WholeLines \in Seq(Pieces)
        /\ \A r \in acted : \E k \in 1 .. Len(WholeLines) : WholeLines[k].record = r
    <3>1. CASE InHalf
      <4>1. PICK t \in Task : step[t] = "half"
        BY <3>1 DEF InHalf
      <4>2. Len(file) \in Nat \ {0} /\ file[Len(file)] = Half(line[t], 1) /\ file # <<>>
        BY <2>0, <4>1 DEF LastPiece
      <4>3. /\ Parses(Front(file)) /\ Front(file) \in Seq(Pieces)
            /\ Len(Front(file)) = Len(file) - 1
            /\ \A k \in 1 .. Len(file) - 1 : Front(file)[k] = file[k]
        BY <2>0, <3>1, <4>2, FrontFacts DEF Shape
      <4>4. ~Parses(file)
        <5>1. (Len(file) - 1) % 2 = 0
          BY <4>3 DEF Parses
        <5>2. Len(file) % 2 # 0
          BY <4>2, <5>1
        <5> QED BY <5>2 DEF Parses
      <4>5. WholeLines = Front(file)
        BY <4>4 DEF WholeLines
      <4>6. ASSUME NEW r \in acted
            PROVE  \E k \in 1 .. Len(file) - 1 : file[k].record = r
        <5>1. PICK k \in 1 .. Len(file) - 1 : file[k] = Half(r, 1)
          BY <2>0 DEF InFile
        <5> QED BY <5>1 DEF Half
      <4> QED BY <4>3, <4>5, <4>6
    <3>2. CASE ~InHalf
      <4>1. Parses(file) /\ WholeLines = file
        BY <2>0, <3>2 DEF Shape, WholeLines
      <4>2. ASSUME NEW r \in acted
            PROVE  \E k \in 1 .. Len(file) : file[k].record = r
        <5>1. PICK k \in 1 .. Len(file) - 1 : file[k] = Half(r, 1)
          BY <2>0 DEF InFile
        <5>2. k \in 1 .. Len(file)
          BY <2>0
        <5> QED BY <5>1, <5>2 DEF Half
      <4> QED BY <2>0, <4>1, <4>2
    <3> QED BY <3>1, <3>2
  <2>2. acted \subseteq Faults(WholeLines)
    BY <2>0, <2>1 DEF Faults, FaultsOnly
  <2> QED BY <2>1, <2>2 DEF Replay
<1> QED BY <1>1, TraceInvariantHolds, PTL
=============================================================================
