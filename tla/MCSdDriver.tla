----------------------------- MODULE MCSdDriver -----------------------------
(* SdDriver with two cards of different kinds.                             *)
EXTENDS SdDriver, TLC

CONSTANTS c1, c2

KindPair == c1 :> "SDHC" @@ c2 :> "SD1"
KindOne == c1 :> "SDHC"
=============================================================================
