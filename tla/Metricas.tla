------------------------------ MODULE Metricas ------------------------------
(***************************************************************************)
(* The monthly figures of each client: the lives they are added up from,   *)
(* the nightly job that writes the rows of the current and of the previous *)
(* month, and the history the client reads.                                *)
(*                                                                         *)
(* Of the dozen columns of a row the number of lives and the revenue are   *)
(* kept: the others are sums of the same lives.                            *)
(***************************************************************************)
EXTENDS Integers, FiniteSets, FiniteSetsExt

CONSTANTS
    LivesMedidas, ClientesMedidos,
    UltimoMes,         \* bound: months
    GmvMedido,         \* revenues of a live
    MaxCorrecoes,      \* bound: editions and deletions of lives
    MaxFalhasDoJob     \* bound: runs of the job that fail

ASSUME LimitesDeMetricas ==
    /\ UltimoMes \in Nat \ {0} /\ GmvMedido \subseteq Nat
    /\ MaxCorrecoes \in Nat /\ MaxFalhasDoJob \in Nat
    /\ IsFiniteSet(LivesMedidas)
ASSUME HaClientesMedidos == ClientesMedidos # {}

VARIABLES
    medida,      \* rows of lives
    linha,       \* rows of cliente_metricas_mensais
    mes,         \* the month
    fechamento,  \* the job
    correcoes, falhasDoJob

varsMetricas == <<medida, linha, mes, fechamento, correcoes, falhasDoJob>>

Meses == 1..UltimoMes
Medida == [fase: {"nao_ha", "em_andamento", "encerrada", "excluida"},
           cliente: ClientesMedidos, mes: Meses, gmv: GmvMedido \cup {0}]
SemLinha == [lives |-> 0, gmv |-> 0]

MetricasInit ==
    /\ medida = [l \in LivesMedidas |-> [fase |-> "nao_ha", mes |-> 1, gmv |-> 0,
                                         cliente |-> CHOOSE c \in ClientesMedidos : TRUE]]
    /\ linha = [k \in ClientesMedidos \X Meses |-> SemLinha]
    /\ mes = 1
    /\ fechamento = [pc |-> "parado", mes |-> 1]
    /\ correcoes = 0 /\ falhasDoJob = 0

----------------------------------------------------------------------------
(* The lives. *)

IniciarMedida(l) ==
    /\ medida[l].fase = "nao_ha"
    /\ \E c \in ClientesMedidos :
        medida' = [medida EXCEPT ![l] = [fase |-> "em_andamento", cliente |-> c,
                                         mes |-> mes, gmv |-> 0]]
    /\ UNCHANGED <<linha, mes, fechamento, correcoes, falhasDoJob>>

\* The revenue comes with the end; the month is that of the start.
EncerrarMedida(l) ==
    /\ medida[l].fase = "em_andamento"
    /\ \E g \in GmvMedido :
        medida' = [medida EXCEPT ![l].fase = "encerrada", ![l].gmv = g]
    /\ UNCHANGED <<linha, mes, fechamento, correcoes, falhasDoJob>>

\* PATCH of an ended live: client, start and revenue.
CorrigirMedida(l) ==
    /\ medida[l].fase = "encerrada"
    /\ correcoes < MaxCorrecoes
    /\ \E c \in ClientesMedidos, m \in 1..mes, g \in GmvMedido :
        medida' = [medida EXCEPT ![l].cliente = c, ![l].mes = m, ![l].gmv = g]
    /\ correcoes' = correcoes + 1
    /\ UNCHANGED <<linha, mes, fechamento, falhasDoJob>>

ExcluirMedida(l) ==
    /\ medida[l].fase = "encerrada"
    /\ correcoes < MaxCorrecoes
    /\ medida' = [medida EXCEPT ![l].fase = "excluida"]
    /\ correcoes' = correcoes + 1
    /\ UNCHANGED <<linha, mes, fechamento, falhasDoJob>>

----------------------------------------------------------------------------
(* The job. *)

\* Lives of the client, on air or ended, that began in the month.
DoMes(c, m) == {l \in LivesMedidas : /\ medida[l].fase \in {"em_andamento", "encerrada"}
                                     /\ medida[l].cliente = c
                                     /\ medida[l].mes = m}

Totais(c, m) == [lives |-> Cardinality(DoMes(c, m)),
                 gmv |-> MapThenSumSet(LAMBDA l : medida[l].gmv, DoMes(c, m))]

\* snapshotMonth: INSERT ... SELECT ... GROUP BY ... ON CONFLICT DO UPDATE.
\* A client without lives in the month has no group: its row, if it has one,
\* is left as it was.
ComSnapshot(m) ==
    [k \in DOMAIN linha |-> IF k[2] = m /\ DoMes(k[1], m) # {}
                              THEN Totais(k[1], m) ELSE linha[k]]

\* Mutant of MesAnterior: getMonth() counts from zero.
MesAnteriorDeZero(m) == m - 2
MesAnterior(m) == m - 1

\* 02:30: the month of the run is read once.
IniciarFechamento ==
    /\ fechamento.pc = "parado"
    /\ fechamento' = [pc |-> "corrente", mes |-> mes]
    /\ UNCHANGED <<medida, linha, mes, correcoes, falhasDoJob>>

FecharCorrente ==
    /\ fechamento.pc = "corrente"
    /\ linha' = ComSnapshot(fechamento.mes)
    /\ fechamento' = [fechamento EXCEPT !.pc = "anterior"]
    /\ UNCHANGED <<medida, mes, correcoes, falhasDoJob>>

FecharAnterior ==
    /\ fechamento.pc = "anterior"
    /\ linha' = ComSnapshot(MesAnterior(fechamento.mes))
    /\ fechamento' = [fechamento EXCEPT !.pc = "parado"]
    /\ UNCHANGED <<medida, mes, correcoes, falhasDoJob>>

\* A query fails, or the process stops: what is left of the run is lost.
FalharFechamento ==
    /\ fechamento.pc # "parado"
    /\ falhasDoJob < MaxFalhasDoJob
    /\ fechamento' = [fechamento EXCEPT !.pc = "parado"]
    /\ falhasDoJob' = falhasDoJob + 1
    /\ UNCHANGED <<medida, linha, mes, correcoes>>

\* Midnight of day 1: no run lasts from 02:30 until then.
VirarMes ==
    /\ mes < UltimoMes
    /\ fechamento.pc = "parado"
    /\ mes' = mes + 1
    /\ UNCHANGED <<medida, linha, fechamento, correcoes, falhasDoJob>>

----------------------------------------------------------------------------
MetricasNext ==
    \/ \E l \in LivesMedidas : \/ IniciarMedida(l) \/ EncerrarMedida(l)
                               \/ CorrigirMedida(l) \/ ExcluirMedida(l)
    \/ IniciarFechamento \/ FecharCorrente \/ FecharAnterior \/ FalharFechamento
    \/ VirarMes

MetricasSpec == MetricasInit /\ [][MetricasNext]_varsMetricas

\* The cron fires every day and its queries end.
FechamentoDiario ==
    /\ WF_varsMetricas(IniciarFechamento)
    /\ WF_varsMetricas(FecharCorrente)
    /\ WF_varsMetricas(FecharAnterior)

----------------------------------------------------------------------------
MetricasTypeOK ==
    /\ medida \in [LivesMedidas -> Medida]
    /\ DOMAIN linha = ClientesMedidos \X Meses
    /\ mes \in Meses
    /\ fechamento \in [pc: {"parado", "corrente", "anterior"}, mes: Meses]
    /\ correcoes \in 0..MaxCorrecoes /\ falhasDoJob \in 0..MaxFalhasDoJob

\* historico-mensal: the row of each month, zero where there is none.
HistoricoMensal(c) == [m \in Meses |-> linha[<<c, m>>]]

\* Once its lives stop changing, the history of a client shows the totals of
\* the current and of the previous month, however late the corrections came,
\* whichever run failed and whenever the month turned.  A client left with no
\* live in a month is not spoken of: the job groups the lives, so it writes
\* nothing for such a client, and an older row of the month stays.
HistoricoAlcanca ==
    \A c \in ClientesMedidos :
        <>[](\A m \in {mes, mes - 1} \cap Meses :
                DoMes(c, m) # {} => HistoricoMensal(c)[m] = Totais(c, m))
=============================================================================
