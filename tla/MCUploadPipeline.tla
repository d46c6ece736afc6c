-------------------------- MODULE MCUploadPipeline --------------------------
(* Model-checking instance of UploadPipeline: one cycle with a budget       *)
(* series (keyed by org unit), a personnel and a shared cost series.       *)
EXTENDS UploadPipeline, TLC

CONSTANTS Cycle, Shared, Personnel, Year

TheYear   == [c \in Cycles |-> Year]
TheCycle  == [k \in Series |-> Cycle]
Importers == [k \in Series |-> IF k = Shared THEN "shared"
                               ELSE IF k = Personnel THEN "personnel" ELSE "budget"]

Symmetry == Permutations(Sessions) \cup Permutations(Docs)
=============================================================================
