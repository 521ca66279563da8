----------------------- MODULE MCKnowledgePublication -----------------------
(* Small instances of KnowledgePublication for TLC.                        *)
EXTENDS KnowledgePublication
CONSTANTS d1, d2
=============================================================================
