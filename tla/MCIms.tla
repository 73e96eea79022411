------------------------------- MODULE MCIms -------------------------------
(* The users of Ims: A calls, B answers, C is the third party. *)
EXTENDS Ims, TLC

Users == "A" :> {"REG", "CALL", "HOLD", "RESUME", "CONF", "BYE", "QUIT"}
         @@ "B" :> {"ACCEPT", "REJECT", "VIDEO", "VOICE", "UPDATE", "BYE", "BARR"}
         @@ "C" :> {"REG", "CALL", "ACCEPT"}

(* The Call-IDs of A and C begin alike, or everybody's begin differently. *)
AlikeAC  == "A" :> "A" @@ "B" :> "B" @@ "C" :> "A"
Distinct == "A" :> "A" @@ "B" :> "B" @@ "C" :> "C"
=============================================================================
