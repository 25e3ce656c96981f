------------------------------ MODULE Parties ------------------------------
(***************************************************************************)
(* What the modules about reviews and badges share.                        *)
(***************************************************************************)
CONSTANTS
    Prestataires,
    Null            \* no value
=============================================================================
