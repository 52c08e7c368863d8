--------------------------- MODULE MCProxyAccess ---------------------------
(* Symmetry sets for the model-checking runs of ProxyAccess. *)
EXTENDS ProxyAccess, TLC

\* Connections differ in nothing but their identity.  (Slots and channels are
\* taken with CHOOSE or one at a time and are left out.)
ConnSymmetry == Permutations(Conn)
=============================================================================
