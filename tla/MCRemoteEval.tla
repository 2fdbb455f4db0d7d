--------------------------- MODULE MCRemoteEval ---------------------------
(* Small instances of RemoteEval for TLC. *)
EXTENDS RemoteEval, TLC

CONSTANTS s, t

LongAndShort == s :> 2 @@ t :> 1
\* The king edits or its engine fails; the challenger does whatever a model can.
Models == "previous_king" :> {"edit", "error"}
          @@ "challenger" :> {"edit", "submit", "submitThenPatch", "truncated", "error"}
=============================================================================
