------------------------------ MODULE Estudio ------------------------------
(***************************************************************************)
(* The studio of one tenant: every writer of its booths and lives together *)
(* (routes, contract status changes with their trigger, TikTok poller,     *)
(* restart of the process), and what must hold however they interleave.    *)
(***************************************************************************)
EXTENDS RotasCabines, RotasLives, RotasSolicitacoes

----------------------------------------------------------------------------
(* Contracts and clients, as the studio sees them. *)

\* The routes of the credit review and of the audit also write the status of
\* the contract to its client, ativar, analisar and cancelar do not.
StatusDoCliente(ct) ==
    inadimplente' \in {inadimplente, inadimplente \ {ClienteDe[ct]}}

\* A contract becomes active: PATCH ativar, analisar, assumir-risco, audit.
Ativar(ct) ==
    /\ contrato[ct] = "inativo"
    /\ contrato' = [contrato EXCEPT ![ct] = "ativo"]
    /\ StatusDoCliente(ct)
    /\ UNCHANGED <<cabine, lives, horas, solicitacoes, evento, leitor, poller>>

\* Mutant of SoltaPeloGatilho: only the status that migration 081 removed.
SoltaCabineAtiva(b, ct) == cabine[b].contrato = ct /\ cabine[b].status = "ativa"

SoltaPeloGatilho(b, ct) == cabine[b].contrato = ct /\ cabine[b].status = "reservada"

\* A contract leaves 'ativo' (cancelar, arquivar) and the trigger of migration
\* 017 frees the booths reserved with it.
Desativar(ct) ==
    /\ contrato[ct] = "ativo"
    /\ contrato' = [contrato EXCEPT ![ct] = "inativo"]
    /\ cabine' = [b \in Cabines |->
                    IF SoltaPeloGatilho(b, ct)
                    THEN [status |-> "disponivel", contrato |-> Nenhum, live |-> Nenhum]
                    ELSE cabine[b]]
    /\ StatusDoCliente(ct)
    /\ UNCHANGED <<lives, horas, solicitacoes, evento, leitor, poller>>

\* PATCH /v1/clientes/:id writes any status.
MudarCliente(c) ==
    /\ inadimplente' \in {inadimplente \cup {c}, inadimplente \ {c}}
    /\ UNCHANGED <<cabine, lives, contrato, horas, solicitacoes, evento, leitor, poller>>

NextContratos ==
    \/ \E ct \in Contratos : Ativar(ct) \/ Desativar(ct)
    \/ \E c \in Devedores : MudarCliente(c)

----------------------------------------------------------------------------
(* The poller: TikTokService.pollAllTenants, never two at a time. *)

\* getLiveData answers 'offline': no broadcast, or no token, or any HTTP
\* status but 200, or an exception.  (When it answers 'ao_vivo' no row of
\* lives changes: the id it uses is the TikTok room's.)
PollerConsulta ==
    /\ ComToken
    /\ poller.pc = "parado"
    /\ poller' = [poller EXCEPT !.pc = "offline"]
    /\ UNCHANGED <<cabine, lives, lado, horas, solicitacoes, evento, leitor>>

\* SELECT of one live on air of the tenant, in any booth.
PollerBusca ==
    LET emAndamento == {l \in Lives : lives[l].status = "em_andamento"}
    IN  /\ poller.pc = "offline"
        /\ \E l \in UmOuNenhum(emAndamento) :
            poller' = IF l = Nenhum THEN PollerParado ELSE [pc |-> "achou", live |-> l]
        /\ UNCHANGED <<cabine, lives, lado, horas, solicitacoes, evento, leitor>>

\* UPDATE lives ... WHERE id: the status is not looked at again.
PollerEncerra ==
    /\ poller.pc = "achou"
    /\ lives' = IF lives[poller.live].status = "excluida" THEN lives
                ELSE [lives EXCEPT ![poller.live].status = "encerrada"]
    /\ poller' = [poller EXCEPT !.pc = "encerrou"]
    /\ UNCHANGED <<cabine, lado, horas, solicitacoes, evento, leitor>>

\* UPDATE cabines ... WHERE live_atual_id.
PollerLibera ==
    /\ poller.pc = "encerrou"
    /\ cabine' = [b \in Cabines |->
                    IF cabine[b].live = poller.live
                    THEN [cabine[b] EXCEPT !.status = "disponivel", !.live = Nenhum]
                    ELSE cabine[b]]
    /\ poller' = PollerParado
    /\ UNCHANGED <<lives, lado, horas, solicitacoes, evento, leitor>>

NextPoller == PollerConsulta \/ PollerBusca \/ PollerEncerra \/ PollerLibera

\* The process stops and starts again, or every open connection fails: open
\* transactions roll back and requests between two queries are forgotten.
Reiniciar ==
    /\ aprovacao' = [p \in Pedidos |-> SemAprovacao]
    /\ recusando' = {}
    /\ leitor' = [r \in Leitores |-> LeitorParado]
    /\ poller' = PollerParado
    /\ UNCHANGED <<cabine, lives, lado, horas, pedido, evento>>

\* Every step but a restart.
Atendimento ==
    \/ NextCabines
    \/ NextLives
    \/ NextSolicitacoes
    \/ NextAgenda
    \/ NextContratos
    \/ NextPoller

Next == Atendimento \/ Reiniciar

Spec == Init /\ [][Next]_vars

----------------------------------------------------------------------------
(* Safety. *)

TypeOK ==
    /\ cabine \in [Cabines -> Cabine]
    /\ lives \in [Lives -> Live]
    /\ contrato \in [Contratos -> StatusContrato]
    /\ inadimplente \subseteq Clientes
    /\ horas \in [Contratos -> [Lives -> Nat]]
    /\ pedido \in [Pedidos -> StatusPedido]
    /\ aprovacao \in [Pedidos -> Aprovacao]
    /\ recusando \subseteq Pedidos
    /\ evento \in [TodosEventos -> Evento]
    /\ leitor \in [Leitores -> Leitura]
    /\ poller \in Poller

\* A booth that points at a live is on air: no route leaves a link behind in a
\* booth that is free, reserved or in maintenance (POST /lives and reservar
\* refuse a booth by its link, MudarStatus by either).
VinculoAoVivo ==
    \A b \in Cabines : cabine[b].live # Nenhum => cabine[b].status = "ao_vivo"

\* A booth only ever points at a live that started in that booth and still
\* exists, even after stale repairs by GET live-atual, moves of ended lives to
\* another booth, deletions and the poller.
VinculoDeOrigem ==
    \A b \in Cabines :
        cabine[b].live # Nenhum =>
            /\ lives[cabine[b].live].origem = b
            /\ lives[cabine[b].live].status \in {"em_andamento", "encerrada"}

\* The hours of a live are deducted at most once, from at most one contract,
\* and only when it has ended: encerrar retried, raced by the poller or by a
\* deletion never charges twice.
HorasUmaVez ==
    \A l \in Lives, ct \in Contratos :
        horas[ct][l] # 0 =>
            /\ horas[ct][l] = 1
            /\ lives[l].status \in {"encerrada", "excluida"}
            /\ \A outro \in Contratos \ {ct} : horas[outro][l] = 0

\* A booth that carries a contract while reserved carries an active one.
ReservaComContratoAtivo ==
    \A b \in Cabines :
        cabine[b].status = "reservada" /\ cabine[b].contrato # Nenhum
            => contrato[cabine[b].contrato] = "ativo"

\* While a booth stays on air its contract does not change, whoever writes the
\* row.  Of the booth only: whose contract a live is billed to is HorasDaPartida
\* of HistoricoDoEstudio, which rests on this.
ContratoFixoNoAr ==
    [][\A b \in Cabines :
        cabine[b].status = "ao_vivo" /\ cabine'[b].status = "ao_vivo"
            => cabine'[b].contrato = cabine[b].contrato]_vars

\* A booth reserved with a contract goes on air charging the same client: no
\* start, repair or approval turns one client's reservation into another's bill.
ReservaDoMesmoCliente ==
    [][\A b \in Cabines :
        LET antes == cabine[b].contrato
            depois == cabine'[b].contrato
        IN  cabine[b].status = "reservada" /\ antes # Nenhum /\ cabine'[b].status = "ao_vivo"
                => depois # Nenhum /\ ClienteDe[depois] = ClienteDe[antes]]_vars

\* A live never has two agenda events of its own: the one it was started from,
\* or else the one its start created.
UmEventoPorLive ==
    \A e, f \in TodosEventos :
        evento[e].dono # Nenhum /\ evento[e].dono = evento[f].dono => e = f

\* Every behaviour of the studio is one of the life cycle of its lives.
Ciclo == INSTANCE CicloDaLive WITH
    fase <- [l \in Lives |-> lives[l].status],
    cobradas <- {par \in Contratos \X Lives : horas[par[1]][par[2]] # 0}
CicloRespeitado == Ciclo!CicloSpec

----------------------------------------------------------------------------
(* What the links and the hours rest on: with TypeOK, inductive.           *)

\* A live on air is still in the booth where it started: only ended lives move.
NoArNaOrigem ==
    \A l \in Lives : lives[l].status = "em_andamento" =>
        lives[l].cabine \in Cabines /\ lives[l].origem = lives[l].cabine

\* What a reader or the poller found earlier may be stale, but the live did
\* start, and in the booth the reader will write to.
LeituraDeOrigem ==
    \A r \in Leitores :
        /\ leitor[r].pc # "parado" => leitor[r].cabine \in Cabines
        /\ leitor[r].pc = "buscou" /\ leitor[r].live # Nenhum =>
            /\ lives[leitor[r].live].origem = leitor[r].cabine
            /\ lives[leitor[r].live].status # "nova"
AlvoDoPoller ==
    poller.pc \in {"achou", "encerrou"} =>
        poller.live \in Lives /\ lives[poller.live].status # "nova"

VinculosInv == /\ VinculoAoVivo /\ VinculoDeOrigem
               /\ NoArNaOrigem /\ LeituraDeOrigem /\ AlvoDoPoller

\* Nothing is deducted before the end.
HorasSoNoFim ==
    \A l \in Lives, ct \in Contratos :
        lives[l].status \in {"nova", "em_andamento"} => horas[ct][l] = 0

HorasInv == HorasUmaVez /\ HorasSoNoFim

\* An event that names a live names one that has started.
DonoIniciou ==
    \A e \in TodosEventos : evento[e].dono # Nenhum => lives[evento[e].dono].status # "nova"

EventosInv == UmEventoPorLive /\ DonoIniciou

----------------------------------------------------------------------------
(* Liveness: what GET live-atual repairs. *)

\* The panel keeps asking live-atual for every booth and each request runs to
\* its end, once the process stops restarting (a request may end in the very
\* state a restart would leave: such a step is no restart).
PainelConsulta ==
    /\ \A r \in Leitores, b \in Cabines : SF_vars(LerCabine(r, b))
    /\ \A r \in Leitores : WF_vars(BuscarLive(r)) /\ WF_vars(CorrigirCabine(r))
    /\ <>[][Atendimento]_vars

SpecJusta == Spec /\ PainelConsulta

\* A booth stuck on air with no live on air in it (the poller died between its
\* two UPDATEs, the live it points at was deleted) is freed.
CabinePresa(b) == cabine[b].status = "ao_vivo" /\ NoAr(b) = {}
CabinePresaSeSolta == \A b \in Cabines : CabinePresa(b) ~> ~CabinePresa(b)

\* A live on air whose booth lost the link (liberar) is linked again, or ends.
Orfa(b) == NoAr(b) # {} /\ cabine[b].live \notin NoAr(b)
OrfaSeLiga == \A b \in Cabines : Orfa(b) ~> ~Orfa(b)

----------------------------------------------------------------------------
(* A claim of the repository that the code does not keep. *)

\* At most one live on air in each booth.
UmaLivePorCabine ==
    \A b \in Cabines : \A k, l \in NoAr(b) : k = l
=============================================================================
