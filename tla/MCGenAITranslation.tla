------------------------ MODULE MCGenAITranslation -------------------------
(* Two overlapping calls, two densities of one text: requests that share a *)
(* key and requests that must not.                                          *)
EXTENDS GenAITranslation

MCTexts == {"go left"}
MCLanguages == {"es"}
MCDensities == {"low", "high"}
=============================================================================
