------------------------------ MODULE MCPainel ------------------------------
(***************************************************************************)
(* Small instances, for TLC, of what the panels must come to show: the     *)
(* booths of Estudio, the monthly history of Metricas and the TikTok       *)
(* account of ContaTikTok.  They share no state: a behaviour is of one of  *)
(* them, its scene, and the others stay in their initial states.           *)
(***************************************************************************)
EXTENDS Estudio, Metricas, ContaTikTok

CONSTANTS b1, ana, r1, m1, m2, ca, cb, t1, t2, a1

VARIABLE cena

MCClienteDe == [ct \in Contratos |-> ana]
MCPedidoDe == [p \in Pedidos |-> [cabine |-> b1, cliente |-> ana, hoje |-> TRUE]]
MCEventoDe == [e \in Eventos |-> [cabine |-> b1, cliente |-> ana, hoje |-> TRUE]]

PainelInit ==
    /\ Init /\ MetricasInit /\ ContaTikTokInit
    /\ cena \in {"estudio", "metricas", "conta_tiktok"}
    /\ cena # "conta_tiktok" => \A t \in Unidades : ~TemPar(t)

NaCena(c) == cena = c /\ cena' = c

PainelNext ==
    \/ NaCena("estudio") /\ Next /\ UNCHANGED <<varsMetricas, varsContaTikTok>>
    \/ NaCena("metricas") /\ MetricasNext /\ UNCHANGED <<vars, varsContaTikTok>>
    \/ NaCena("conta_tiktok") /\ ContaTikTokNext /\ UNCHANGED <<vars, varsMetricas>>

PainelSpec == PainelInit /\ [][PainelNext]_<<cena, vars, varsMetricas, varsContaTikTok>>

\* PainelConsulta, FechamentoDiario and RenovacaoDiaria, each asked only of its
\* scene: elsewhere the component does not move.
ConsultaNaCena ==
    /\ \A r \in Leitores, b \in Cabines : SF_vars(cena = "estudio" /\ LerCabine(r, b))
    /\ \A r \in Leitores : /\ WF_vars(cena = "estudio" /\ BuscarLive(r))
                           /\ WF_vars(cena = "estudio" /\ CorrigirCabine(r))
    /\ <>[][Atendimento]_vars

FechamentoNaCena ==
    /\ WF_varsMetricas(cena = "metricas" /\ IniciarFechamento)
    /\ WF_varsMetricas(cena = "metricas" /\ FecharCorrente)
    /\ WF_varsMetricas(cena = "metricas" /\ FecharAnterior)

RenovacaoNaCena ==
    \A r \in Rotinas : /\ WF_varsContaTikTok(cena = "conta_tiktok" /\ IniciarRotina(r))
                       /\ WF_varsContaTikTok(cena = "conta_tiktok" /\ PassoDaRotina(r))

PainelSpecJusta ==
    PainelSpec /\ ConsultaNaCena /\ FechamentoNaCena /\ RenovacaoNaCena

\* The variables of Metricas and ContaTikTok stay in their types.
PainelTypeOK == MetricasTypeOK /\ ContaTikTokTypeOK
=============================================================================
