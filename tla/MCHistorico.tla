---------------------------- MODULE MCHistorico ----------------------------
(* The instance of MCEstudio with the history of its lives. *)
EXTENDS MCEstudio, HistoricoDoEstudio
=============================================================================
