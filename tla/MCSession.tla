----------------------------- MODULE MCSession -----------------------------
(* The instance of Session that TLC checks: GenTop leaves the watermark room *)
(* for one cancel past the last generation below the closing value.          *)
EXTENDS Session
=============================================================================
