--------------------------- MODULE MCEvalControl ---------------------------
(* Small instances of EvalControl for TLC. *)
EXTENDS EvalControl, TLC

CONSTANTS h1, h2

SharedHotkey  == 1 :> h1 @@ 2 :> h1
OneHotkey     == 1 :> h1

\* What any later step can read: the log and the recorded events of a finalized run
\* that nobody follows are never read again.
Observable ==
  <<subs, attempts, king, oldReg, proc, faults,
    [r \in Runs |-> IF Readable(r) THEN <<evals[r], log[r]>>
                    ELSE <<[evals[r] EXCEPT !.recorded = {}], <<>> >>]>>
=============================================================================
