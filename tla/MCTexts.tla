------------------------------ MODULE MCTexts ------------------------------
(***************************************************************************)
(* The two scanners of texts that clients send, side by side: SQL texts    *)
(* (classify) and the bodies of startup packets (metadata), each built up  *)
(* symbol by symbol while the other is empty.                              *)
(***************************************************************************)
EXTENDS SqlScan, Startup

Init == ScanInit /\ StartupInit

Next ==
    \/ body = <<>> /\ ScanNext /\ UNCHANGED body
    \/ text = <<>> /\ StartupNext /\ UNCHANGED text

Spec == Init /\ [][Next]_<<text, body>>
=============================================================================
