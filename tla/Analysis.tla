------------------------------ MODULE Analysis ------------------------------
(***************************************************************************)
(* The tools of server.py that look without taking part: diagnose,         *)
(* parse_pcap and detect_device.  They share no state, so a behaviour is   *)
(* one call of one of them.                                                *)
(***************************************************************************)
EXTENDS Diagnosis, Capture, Detection

VARIABLE tool   \* the tool that is called

vars == <<tool, diagnosis_vars, capture_vars, detection_vars>>

Init == tool = "none" /\ DiagnosisInit /\ CaptureInit /\ DetectionInit

Calls(name) == tool \in {"none", name} /\ tool' = name

Next ==
  \/ Calls("diagnose") /\ DiagnosisNext /\ UNCHANGED <<capture_vars, detection_vars>>
  \/ Calls("parse_pcap") /\ CaptureNext /\ UNCHANGED <<diagnosis_vars, detection_vars>>
  \/ Calls("detect_device") /\ DetectionNext /\ UNCHANGED <<diagnosis_vars, capture_vars>>

Spec == Init /\ [][Next]_vars
=============================================================================
