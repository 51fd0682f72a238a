--------------------------- MODULE MCAnswerHead ---------------------------
(* AnswerHead with a buffer of seven bytes and a head of five: the head ends  *)
(* in every place of a character, whatever its width.                         *)
EXTENDS AnswerHead
=============================================================================
