-------------------------- MODULE MCConnectionState --------------------------
(***************************************************************************)
(* ConnectionState against every sequence of at most MaxFrames frames,     *)
(* arbitrary ones, from both sides.                                        *)
(***************************************************************************)
EXTENDS ConnectionState

CONSTANT MaxFrames

VARIABLE frames     \* frames handled so far

MCClassify == [s \in Sql |-> IF s = "COMMIT" THEN "Commit" ELSE "Select"]

MCStartup == [user |-> None, database |-> None, application_name |-> None]

BoundedInit == Init /\ frames = 0

Counted == frames < MaxFrames /\ frames' = frames + 1

FrontendStep == Counted /\ \E f \in FrontendFrame : Frontend(f)

BackendStep == Counted /\ \E f \in BackendFrame : Backend(f)

Done == frames = MaxFrames /\ UNCHANGED <<stateVars, frames>>

BoundedNext == FrontendStep \/ BackendStep \/ Done

BoundedSpec == BoundedInit /\ [][BoundedNext]_<<stateVars, frames>>
=============================================================================
