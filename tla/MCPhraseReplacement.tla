------------------------- MODULE MCPhraseReplacement -------------------------
(* Instances of PhraseReplacement for TLC.                                  *)
EXTENDS PhraseReplacement
=============================================================================
