----------------------------- MODULE MCPedidos -----------------------------
(* The instance of MCEstudio that plans ahead.                             *)
EXTENDS MCEstudio

CONSTANT caio     \* owns the marca, has no contract

MCEventoDoCaio == [e \in Eventos |-> [cabine |-> b1, cliente |-> caio, hoje |-> TRUE]]

\* Bound: the requests of two clients with their contracts, or the agenda of a
\* client that owns a marca, not both at once.
UmAssunto ==
    \/ \A e \in TodosEventos : evento'[e].status = "inexistente"
    \/ /\ \A p \in Pedidos : pedido'[p] = "inexistente" /\ aprovacao'[p].fase = "livre"
       /\ \A ct \in Contratos : contrato'[ct] = "inativo" /\ \A l \in Lives : horas'[ct][l] = 0
       /\ \A b \in Cabines : cabine'[b].contrato = Nenhum
       /\ inadimplente' = {}
=============================================================================
