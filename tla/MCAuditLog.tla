----------------------------- MODULE MCAuditLog -----------------------------
(* A ring and a file of two entries each, with twice as many requests. *)
EXTENDS AuditLog, TLC
Kinds == {[provider |-> "", isolation |-> ""], [provider |-> "docker", isolation |-> "vm"]}
Symmetry == Permutations(Request)
=============================================================================
