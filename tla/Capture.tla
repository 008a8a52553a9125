------------------------------ MODULE Capture ------------------------------
(***************************************************************************)
(* What running a subprocess promises: the child writes to its two streams *)
(* and ends, and the caller then gets all it wrote, and how it ended.      *)
(***************************************************************************)
EXTENDS Integers

CONSTANTS Streams, Running

VARIABLES
  wrote,    \* chunks written to each stream
  ended,    \* how the child ended, or Running
  captured  \* what the caller was given: nothing or one result

captureVars == <<wrote, ended, captured>>

CaptureInit ==
  /\ wrote = [s \in Streams |-> 0]
  /\ ended = Running /\ captured = {}

Write ==
  /\ ended = Running
  /\ \E s \in Streams : wrote' = [wrote EXCEPT ![s] = @ + 1]
  /\ UNCHANGED <<ended, captured>>

End ==
  /\ ended = Running
  /\ ended' \in -1 .. 255
  /\ UNCHANGED <<wrote, captured>>

Give ==
  /\ ended # Running /\ captured = {}
  /\ captured' = {[text |-> wrote, code |-> ended]}
  /\ UNCHANGED <<wrote, ended>>

CaptureNext == Write \/ End \/ Give

CaptureSpec == CaptureInit /\ [][CaptureNext]_captureVars
=============================================================================
