--------------------------- MODULE MCQualifiedTime ---------------------------
(* Model-checking instance of QualifiedTime: three instants, so that a log *)
(* can hold a message before, at and after a boundary, and a recorder that *)
(* appends up to three messages, so that a log can hold a tie and a       *)
(* message after it.                                                       *)
EXTENDS QualifiedTime

MCTimes == 0..2
MCMaxMessages == 3
=============================================================================
