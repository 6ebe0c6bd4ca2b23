---------------------------- MODULE EstudioBase ----------------------------
(***************************************************************************)
(* The tables of one tenant that the studio routes share, and the local    *)
(* state of the handlers that take more than one database round trip.      *)
(*                                                                         *)
(* A studio has booths (cabines).  A live runs in a booth, is charged to   *)
(* the contract the booth carries, and may come from an agenda event or    *)
(* from an approved request (live_requests).  Handlers of different        *)
(* requests, the TikTok poller and the self-healing read of a booth all    *)
(* write the same rows.                                                    *)
(*                                                                         *)
(* Rows that can be created are drawn from fixed sets; live ids are taken  *)
(* in increasing order, so "ORDER BY iniciado_em DESC LIMIT 1" is Max.     *)
(* One tenant only: every query is scoped by tenant_id.                    *)
(***************************************************************************)
EXTENDS Integers, FiniteSets

CONSTANTS
    Cabines,      \* booths that exist
    MaxLives,     \* bound: lives ever created
    Clientes,
    Devedores,    \* bound: clients that may become 'inadimplente'
    ComMarca,     \* clients that own an active marca
    Contratos,
    ClienteDe,    \* contratos.cliente_id
    Pedidos,      \* rows of live_requests that may be created
    PedidoDe,     \* their cabine, cliente and whether the date is today
    Sobrepoe,     \* pairs of requests: same booth and day, overlapping hours
    Eventos,      \* rows of agenda_eventos created through the agenda
    EventoDe,     \* their cabine, client of the marca, and whether it is today
    ComToken,     \* the tenant has a TikTok token, so the poller visits it
    Leitores,     \* concurrent GET live-atual requests
    Nenhum        \* SQL NULL

Lives == 1..MaxLives
TodosEventos == Eventos \cup Lives   \* event l: created by the start of live l
OuNenhum(S) == S \cup {Nenhum}

ASSUME MaxLivesNatural == MaxLives \in Nat
ASSUME NenhumEForaDosDados ==
    Nenhum \notin Cabines \cup Lives \cup Clientes \cup Contratos \cup TodosEventos
ASSUME ClientesTipados == ComMarca \subseteq Clientes /\ Devedores \subseteq Clientes
ASSUME TokenBooleano == ComToken \in BOOLEAN
ASSUME ContratosTipados == ClienteDe \in [Contratos -> Clientes]
ASSUME PedidosTipados ==
    /\ PedidoDe \in [Pedidos -> [cabine: Cabines, cliente: Clientes, hoje: BOOLEAN]]
    /\ Sobrepoe \subseteq Pedidos \X Pedidos
ASSUME EventosTipados ==
    /\ Eventos \cap Lives = {}
    /\ EventoDe \in [Eventos -> [cabine: OuNenhum(Cabines),
                                 cliente: OuNenhum(Clientes), hoje: BOOLEAN]]

VARIABLES
    cabine,        \* rows of cabines
    lives,         \* rows of lives
    contrato,      \* contratos.status, as the booth code reads it
    inadimplente,  \* clients whose status is 'inadimplente'
    horas,         \* horas[ct][l]: times live l was added to horas_consumidas of ct
    pedido,        \* live_requests.status
    aprovacao,     \* requests being created or approved
    recusando,     \* recusar requests between their SELECT and their UPDATE
    evento,        \* rows of agenda_eventos
    leitor,        \* GET live-atual requests in progress
    poller         \* the TikTok poller

lado == <<contrato, inadimplente>>
solicitacoes == <<pedido, aprovacao, recusando>>
vars == <<cabine, lives, contrato, inadimplente, horas, pedido, aprovacao,
          recusando, evento, leitor, poller>>

----------------------------------------------------------------------------
(* Types. *)

StatusCabine == {"disponivel", "reservada", "ao_vivo", "manutencao"}
StatusLive == {"nova", "em_andamento", "encerrada", "excluida"}
StatusContrato == {"ativo", "inativo"}
StatusPedido == {"inexistente", "pendente", "aprovada", "recusada"}
\* 'planejado' stands for 'confirmado' too: the code never tells them apart.
StatusEvento == {"inexistente", "planejado", "ao_vivo", "concluido", "cancelado"}

Cabine == [status: StatusCabine, contrato: OuNenhum(Contratos), live: OuNenhum(Lives)]

\* origem: the booth of the row 'cabine_live_iniciada' that cabine_eventos
\* keeps for the live, NULL for a live entered by hand.
\* cliente_id and the figures of the live are left out: nothing here reads them.
Live == [status: StatusLive, cabine: OuNenhum(Cabines), origem: OuNenhum(Cabines)]

\* Events of tipo 'live' only.  comecou: data_inicio has passed.
\* dono: the live that put the event on air, as the payload of its row
\* 'cabine_live_iniciada' records.
Evento == [status: StatusEvento, cabine: OuNenhum(Cabines),
           cliente: OuNenhum(Clientes), comecou: BOOLEAN, dono: OuNenhum(Lives)]

\* The request of a client ("pedida") or of the unit ("nova") checked and not yet
\* inserted, or the approval checked and not yet written ("validada").
Aprovacao == [fase: {"livre", "pedida", "nova", "validada"}, contrato: OuNenhum(Contratos)]
\* live: first the link read from the booth, then the live on air found for it.
Leitura == [pc: {"parado", "leu", "buscou"}, cabine: OuNenhum(Cabines),
            aoVivo: BOOLEAN, live: OuNenhum(Lives)]
Poller == [pc: {"parado", "offline", "achou", "encerrou"}, live: OuNenhum(Lives)]

LiveNova == [status |-> "nova", cabine |-> Nenhum, origem |-> Nenhum]
SemEvento == [status |-> "inexistente", cabine |-> Nenhum, cliente |-> Nenhum,
              comecou |-> FALSE, dono |-> Nenhum]
SemAprovacao == [fase |-> "livre", contrato |-> Nenhum]
LeitorParado == [pc |-> "parado", cabine |-> Nenhum, aoVivo |-> FALSE,
                 live |-> Nenhum]
PollerParado == [pc |-> "parado", live |-> Nenhum]

----------------------------------------------------------------------------
(* Queries. *)

\* SELECT ... LIMIT 1 on the rows S, with no row as NULL.  The ORDER BY of
\* the contract and request queries is left out: any row of S may come first.
UmOuNenhum(S) == IF S = {} THEN {Nenhum} ELSE S

\* Active contracts of client c.
Ativos(c) == {ct \in Contratos : ClienteDe[ct] = c /\ contrato[ct] = "ativo"}

\* Mutant of NoAr: the WHERE on cabine_id forgotten.
NoArDoTenant(b) == {l \in Lives : lives[l].status = "em_andamento" /\ b \in Cabines}

\* Lives on air whose row names booth b.
NoAr(b) == {l \in Lives : lives[l].status = "em_andamento" /\ lives[l].cabine = b}

\* The row the next INSERT INTO lives gets.
Proxima(l) == /\ lives[l].status = "nova"
              /\ \A k \in Lives : k < l => lives[k].status # "nova"

\* An event created by a start is for the day of that start.
EventoDeHoje(e) == e \in Lives \/ EventoDe[e].hoje

Init ==
    /\ cabine = [b \in Cabines |->
                    [status |-> "disponivel", contrato |-> Nenhum, live |-> Nenhum]]
    /\ lives = [l \in Lives |-> LiveNova]
    /\ contrato = [ct \in Contratos |-> "inativo"]
    /\ inadimplente = {}
    /\ horas = [ct \in Contratos |-> [l \in Lives |-> 0]]
    /\ pedido = [p \in Pedidos |-> "inexistente"]
    /\ aprovacao = [p \in Pedidos |-> SemAprovacao]
    /\ recusando = {}
    /\ evento = [e \in TodosEventos |-> SemEvento]
    /\ leitor = [r \in Leitores |-> LeitorParado]
    /\ poller = PollerParado
=============================================================================
