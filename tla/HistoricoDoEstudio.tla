------------------------- MODULE HistoricoDoEstudio -------------------------
(***************************************************************************)
(* Estudio with two history variables, for what can only be said of a live *)
(* from its start to its bill: no step of the studio reads them.           *)
(***************************************************************************)
EXTENDS Estudio

VARIABLES
    partida,    \* partida[l]: contract the booth of l carried when l went on air
    soltas      \* lives whose booth stopped naming them while they were on air

historico == <<partida, soltas>>
HistVars == <<cabine, lives, contrato, inadimplente, horas, pedido, aprovacao,
              recusando, evento, leitor, poller, partida, soltas>>

EmAndamento(l) == lives[l].status = "em_andamento"

HistInit ==
    /\ Init
    /\ partida = [l \in Lives |-> Nenhum]
    /\ soltas = {}

\* A start leaves its contract in the row of the booth: the UPDATEs of cabines
\* in POST /v1/lives come before its COMMIT.
AnotaPartida ==
    partida' = [l \in Lives |->
                    IF lives[l].status = "nova" /\ EmAndamento(l)'
                    THEN cabine'[lives'[l].cabine].contrato
                    ELSE partida[l]]

\* liberar, a repair from old reads, or the end of another live of the booth.
AnotaSoltas ==
    soltas' = soltas \cup
        {l \in Lives : /\ EmAndamento(l) /\ EmAndamento(l)'
                       /\ \E b \in Cabines : cabine[b].live = l /\ cabine'[b].live # l}

HistNext == Next /\ AnotaPartida /\ AnotaSoltas

HistSpec == HistInit /\ [][HistNext]_HistVars

----------------------------------------------------------------------------
\* The hours of a live are deducted from the contract its booth carried when it
\* went on air, although encerrar reads the contract from the booth at the end
\* and knows nothing of the start: whatever reservations, manual statuses,
\* repairs, approvals, cancelled contracts and ends of other lives come in
\* between.  The code keeps this as long as the booth never lets go of the live
\* on air; a live set loose (soltas) and linked again by live-atual is billed to
\* whatever contract the booth carries by then.
HorasDaPartida ==
    \A l \in Lives, ct \in Contratos :
        horas[ct][l] # 0 => ct = partida[l] \/ l \in soltas

\* A live on air that its booth never let go is the one the booth names, and the
\* booth still carries the contract it had at the start.
NoArComPartida ==
    \A l \in Lives :
        EmAndamento(l) /\ l \notin soltas =>
            /\ cabine[lives[l].cabine].live = l
            /\ cabine[lives[l].cabine].contrato = partida[l]

PartidaInv == HorasDaPartida /\ NoArComPartida
=============================================================================
