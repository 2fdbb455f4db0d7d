--------------------------- MODULE MCPrivateStore ---------------------------
(* Small instances of PrivateStore for TLC. *)
EXTENDS PrivateStore, TLC

CONSTANTS a, b, c, u, v

\* A public hotkey holds one uid, a private one whose row never moves the other.
PublicFirst == u :> c @@ v :> a
=============================================================================
