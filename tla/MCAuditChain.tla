---------------------------- MODULE MCAuditChain ----------------------------
(* Model-checking instance of AuditChain: sessions are interchangeable.    *)
EXTENDS AuditChain, TLC

WriterSymmetry == Permutations(Writers)
=============================================================================
