------------------------------- MODULE Trace -------------------------------
(***************************************************************************)
(* The trace file: Recorder, which the tasks of all connections share, and *)
(* replay(), which reads the file back.  A task writes one line for each   *)
(* event and one for each fault that fires at it before it acts on the     *)
(* fault, and a last line when its connection ends.  write_all() may take  *)
(* several writes, and may fail after any of them; a line is two pieces    *)
(* here, the second with the newline.  The process may be killed.          *)
(***************************************************************************)
EXTENDS Naturals, Sequences, SequencesExt

CONSTANTS
    Task,          \* the connections' tasks
    MaxFaults      \* bound: faults of one connection

ASSUME TraceAssumption == MaxFaults \in Nat

VARIABLES
    alive,     \* is the process?
    lock,      \* the task in the mutex of the file, or none
    file,      \* the pieces of lines in the file
    line,      \* the record each task writes next: its kind and number
    step,      \* "ready" for the next line, "begun", "half" written or "ended"
    acted,     \* faults that took effect
    torn       \* history: has a write failed in the midst of a line?

traceVars == <<alive, lock, file, line, step, acted, torn>>

Line(t, kind, n) == [task |-> t, kind |-> kind, n |-> n]

TraceInit ==
    /\ alive = TRUE
    /\ lock = {}
    /\ file = <<>>
    /\ line = [t \in Task |-> Line(t, "event", 1)]
    /\ step = [t \in Task |-> "ready"]
    /\ acted = {}
    /\ torn = FALSE

-----------------------------------------------------------------------------
(***************************************************************************)
(* record(): serialize, lock, write_all.                                   *)
(***************************************************************************)
LockShared(t) ==                                             \* mutant: no mutex
    /\ alive /\ step[t] = "ready"
    /\ lock' = lock \cup {t}
    /\ step' = [step EXCEPT ![t] = "begun"]
    /\ UNCHANGED <<alive, file, line, acted, torn>>

Lock(t) ==
    /\ alive /\ step[t] = "ready" /\ lock = {}
    /\ lock' = {t}
    /\ step' = [step EXCEPT ![t] = "begun"]
    /\ UNCHANGED <<alive, file, line, acted, torn>>

Piece(t, half) == [record |-> line[t], half |-> half]

WriteFirst(t) ==
    /\ alive /\ step[t] = "begun"
    /\ file' = Append(file, Piece(t, 1))
    /\ step' = [step EXCEPT ![t] = "half"]
    /\ UNCHANGED <<alive, lock, line, acted, torn>>

(***************************************************************************)
(* What the task does after a line: the fault that fired at the event has  *)
(* its line next; a fault that is recorded takes effect; the connection    *)
(* may end after any of them, and does after MaxFaults.                    *)
(***************************************************************************)
After(r) ==
    {Line(r.task, "closed", r.n)}
    \cup CASE r.kind = "event" -> {Line(r.task, "fault", r.n)}
           [] r.kind = "fault" /\ r.n < MaxFaults -> {Line(r.task, "event", r.n + 1)}
           [] OTHER -> {}

ActsRegardless(r, written) == r.kind = "fault"               \* mutant: a failed record ignored

ActsOn(r, written) == r.kind = "fault" /\ written

Leave(t, written) ==
    /\ lock' = lock \ {t}
    /\ acted' = IF ActsOn(line[t], written) THEN acted \cup {line[t]} ELSE acted
    /\ IF line[t].kind = "closed"
       THEN step' = [step EXCEPT ![t] = "ended"] /\ UNCHANGED line
       ELSE /\ step' = [step EXCEPT ![t] = "ready"]
            /\ \E r \in After(line[t]) :
                  /\ written \/ r.kind = "closed"
                  /\ line' = [line EXCEPT ![t] = r]
    /\ UNCHANGED alive

WriteRest(t) ==
    /\ alive /\ step[t] = "half"
    /\ file' = Append(file, Piece(t, 2))
    /\ Leave(t, TRUE)
    /\ UNCHANGED torn

(***************************************************************************)
(* A write fails: the line is lost, or its beginning stays in the file,    *)
(* and the error ends the connection, which still writes its last line.    *)
(***************************************************************************)
WriteFails(t) ==
    /\ alive /\ step[t] \in {"begun", "half"}
    /\ torn' = (torn \/ step[t] = "half")
    /\ UNCHANGED file
    /\ Leave(t, FALSE)

Kill ==
    /\ alive
    /\ alive' = FALSE
    /\ UNCHANGED <<lock, file, line, step, acted, torn>>

TraceNext == Kill \/ \E t \in Task : Lock(t) \/ WriteFirst(t) \/ WriteRest(t) \/ WriteFails(t)

TraceSpec == TraceInit /\ [][TraceNext]_traceVars

-----------------------------------------------------------------------------
(***************************************************************************)
(* replay(): every line has to parse, the last one too; the faults are     *)
(* the schedule, each once, and there must be some.                        *)
(***************************************************************************)
Parses(f) ==
    /\ Len(f) % 2 = 0
    /\ \A k \in 1 .. Len(f) : f[k].half = IF k % 2 = 1 THEN 1 ELSE 2
    /\ \A k \in 1 .. Len(f) \div 2 : f[2 * k - 1].record = f[2 * k].record

Faults(f) == {r \in {f[k].record : k \in 1 .. Len(f)} : r.kind = "fault"}

Replay(f) == IF Parses(f) /\ Faults(f) # {} THEN Faults(f) ELSE {}

(***************************************************************************)
(* Whatever the tasks and failures do, a fault that took effect has its    *)
(* whole line in the file.                                                 *)
(***************************************************************************)
ActedRecorded ==
    \A r \in acted : \E k \in 1 .. Len(file) - 1 :
        file[k] = [record |-> r, half |-> 1] /\ file[k + 1] = [record |-> r, half |-> 2]

(***************************************************************************)
(* However many tasks write, and also in the trace of a process that still *)
(* runs or was killed, only the last line can be incomplete, unless a      *)
(* failed write tore one: the lines before it parse, and replay() finds    *)
(* every fault that took effect in them.                                   *)
(***************************************************************************)
WholeLines == IF Parses(file) THEN file ELSE Front(file)

ReplayComplete == ~torn => Parses(WholeLines) /\ acted \subseteq Replay(WholeLines)
=============================================================================
