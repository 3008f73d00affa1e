---------------------------- MODULE MCAuthGate ----------------------------
(* AuthGate with two concurrent requests next to main.                     *)
EXTENDS AuthGate

CONSTANTS r1, r2, f1, f2
=============================================================================
