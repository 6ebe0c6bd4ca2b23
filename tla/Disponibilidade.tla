-------------------------- MODULE Disponibilidade --------------------------
(***************************************************************************)
(* The calendar of a presenter: the weekly grid, replaced as a whole by    *)
(* managers who may do it at the same time, the blocked periods, and the   *)
(* check the screens ask before they schedule her.  The check reads the    *)
(* grid, the blocked periods and the lives in three queries.               *)
(*                                                                         *)
(* One presenter and one date are modelled; hours are the points of the    *)
(* date.  Lives name the user of the presenter, live requests name the     *)
(* presenter herself.                                                      *)
(***************************************************************************)
EXTENDS Integers

CONSTANTS
    UltimaHora,
    DiaDaData,         \* day of the week of the date
    RecuoDaSessao,     \* days midnight of the database session moves back
                       \* when it is read in Sao Paulo: 1 in UTC
    GradesPossiveis,   \* grids a manager may send
    Janelas,          \* periods that get blocked, scheduled and requested
    DuracaoPadrao,     \* of a live with no end (4 hours in the code)
    Editores,          \* managers replacing the grid
    IdDela,            \* apresentadoras.id
    UsuarioDela        \* apresentadoras.user_id

Instantes == 0..UltimaHora
Intervalo == {p \in [ini: Instantes, fim: Instantes] : p.ini < p.fim}
Slot == {s \in [dia: 0..6, ini: Instantes, fim: Instantes] : s.ini < s.fim}

ASSUME HorasNaturais == {UltimaHora, DuracaoPadrao, RecuoDaSessao} \subseteq Nat
ASSUME DiaConhecido == DiaDaData \in 0..6
\* UNIQUE (apresentadora_id, dia_semana, hora_inicio): others are answered 409.
ASSUME GradesValidas ==
    GradesPossiveis \subseteq {g \in SUBSET Slot :
        \A s, t \in g : s.dia = t.dia /\ s.ini = t.ini => s = t}
ASSUME JanelasValidas == Janelas \subseteq Intervalo
ASSUME IdsDistintos == IdDela # UsuarioDela

VARIABLES
    grade,         \* her rows of apresentadora_disponibilidade
    bloqueios,     \* her rows of apresentadora_bloqueios
    naAgenda,      \* her lives, 'agendada' or 'em_andamento', and whether ended
    aprovados,     \* approved live_requests that ask for her
    escrita,       \* transactions replacing the grid
    consulta,      \* the check in progress, and its answer
    ultimaGrade    \* auxiliary: the last grid saved

varsDisponibilidade ==
    <<grade, bloqueios, naAgenda, aprovados, escrita, consulta, ultimaGrade>>

SemEscrita == [etapa |-> "livre", nova |-> {}, apagados |-> {}]
SemConsulta == [etapa |-> "livre", ini |-> 0, fim |-> 0, serena |-> TRUE]

DisponibilidadeInit ==
    /\ grade = {} /\ bloqueios = {} /\ naAgenda = {} /\ aprovados = {}
    /\ escrita = [e \in Editores |-> SemEscrita]
    /\ consulta = SemConsulta
    /\ ultimaGrade = {}

Perturbada == consulta' = [consulta EXCEPT !.serena = consulta.etapa = "livre"]

----------------------------------------------------------------------------
(* POST /disponibilidade/grade: one transaction. *)

\* Mutant of ElaDestrancada: no SELECT ... FOR UPDATE of the presenter.
ElaDestrancadaSempre == TRUE
ElaDestrancada == \A e \in Editores : escrita[e].etapa = "livre"

TrancarGrade(e) ==
    /\ escrita[e] = SemEscrita
    /\ ElaDestrancada
    /\ \E g \in GradesPossiveis :
        escrita' = [escrita EXCEPT ![e] = [etapa |-> "trancada", nova |-> g, apagados |-> {}]]
    /\ UNCHANGED <<grade, bloqueios, naAgenda, aprovados, consulta, ultimaGrade>>

\* DELETE: of the rows committed by then.
ApagarGrade(e) ==
    /\ escrita[e].etapa = "trancada"
    /\ escrita' = [escrita EXCEPT ![e].etapa = "apagada", ![e].apagados = grade]
    /\ UNCHANGED <<grade, bloqueios, naAgenda, aprovados, consulta, ultimaGrade>>

\* The INSERTs and COMMIT.
SalvarGrade(e) ==
    /\ escrita[e].etapa = "apagada"
    /\ grade' = (grade \ escrita[e].apagados) \cup escrita[e].nova
    /\ ultimaGrade' = escrita[e].nova
    /\ escrita' = [escrita EXCEPT ![e] = SemEscrita]
    /\ Perturbada
    /\ UNCHANGED <<bloqueios, naAgenda, aprovados>>

DesfazerGrade(e) ==
    /\ escrita[e] # SemEscrita
    /\ escrita' = [escrita EXCEPT ![e] = SemEscrita]
    /\ UNCHANGED <<grade, bloqueios, naAgenda, aprovados, consulta, ultimaGrade>>

----------------------------------------------------------------------------
(* Blocked periods, lives and requests. *)

Bloquear(p) ==
    /\ bloqueios' = bloqueios \cup {p}
    /\ Perturbada
    /\ UNCHANGED <<grade, naAgenda, aprovados, escrita, ultimaGrade>>

Desbloquear(p) ==
    /\ p \in bloqueios
    /\ bloqueios' = bloqueios \ {p}
    /\ Perturbada
    /\ UNCHANGED <<grade, naAgenda, aprovados, escrita, ultimaGrade>>

\* A live of hers, as main or extra presenter, begins at p.ini or is
\* scheduled for p; it leaves when it ends.
Escalar(p, aberta) ==
    /\ naAgenda' = naAgenda \cup {[periodo |-> p, aberta |-> aberta, de |-> UsuarioDela]}
    /\ Perturbada
    /\ UNCHANGED <<grade, bloqueios, aprovados, escrita, ultimaGrade>>

Desescalar(l) ==
    /\ naAgenda' = naAgenda \ {l}
    /\ Perturbada
    /\ UNCHANGED <<grade, bloqueios, aprovados, escrita, ultimaGrade>>

AprovarPedidoDela(p) ==
    /\ aprovados' = aprovados \cup {[periodo |-> p, de |-> IdDela]}
    /\ Perturbada
    /\ UNCHANGED <<grade, bloqueios, naAgenda, escrita, ultimaGrade>>

----------------------------------------------------------------------------
(* GET /disponibilidade/check. *)

\* EXTRACT(DOW FROM date AT TIME ZONE 'America/Sao_Paulo'): the date becomes
\* midnight of the session's time zone, which no code sets.
DiaLido == (DiaDaData - RecuoDaSessao) % 7

DentroDaGrade(ini, fim) ==
    \E s \in grade : s.dia = DiaLido /\ s.ini <= ini /\ s.fim >= fim

\* Mutant of Sobrepoe: only periods inside the one asked for.
SobrepoeDentro(p, ini, fim) == ini <= p.ini /\ p.fim <= fim

\* tstzrange(...) && tstzrange(...), both '[)'.
Sobrepoe(p, ini, fim) == p.ini < fim /\ ini < p.fim

ComFim(l) == IF l.aberta THEN [l.periodo EXCEPT !.fim = l.periodo.ini + DuracaoPadrao]
             ELSE l.periodo

\* Both halves of the UNION look for the user.
Alocada(ini, fim) ==
    \/ \E l \in naAgenda : l.de = UsuarioDela /\ Sobrepoe(ComFim(l), ini, fim)
    \/ \E r \in aprovados : r.de = UsuarioDela /\ Sobrepoe(r.periodo, ini, fim)

Consultar(p) ==
    /\ consulta.etapa = "livre"
    /\ consulta' = [etapa |-> "grade", ini |-> p.ini, fim |-> p.fim, serena |-> TRUE]
    /\ UNCHANGED <<grade, bloqueios, naAgenda, aprovados, escrita, ultimaGrade>>

\* Each query ends the check or lets it go on.
Responder(etapa, conflito, seguinte) ==
    /\ consulta.etapa = etapa
    /\ consulta' = [consulta EXCEPT !.etapa = IF conflito THEN "indisponivel" ELSE seguinte]
    /\ UNCHANGED <<grade, bloqueios, naAgenda, aprovados, escrita, ultimaGrade>>

LerGrade == Responder("grade", ~DentroDaGrade(consulta.ini, consulta.fim), "bloqueios")
LerBloqueios == Responder("bloqueios",
    \E p \in bloqueios : Sobrepoe(p, consulta.ini, consulta.fim), "lives")
LerLives == Responder("lives", Alocada(consulta.ini, consulta.fim), "disponivel")

EncerrarConsulta ==
    /\ consulta.etapa \in {"disponivel", "indisponivel"}
    /\ consulta' = SemConsulta
    /\ UNCHANGED <<grade, bloqueios, naAgenda, aprovados, escrita, ultimaGrade>>

----------------------------------------------------------------------------
DisponibilidadeNext ==
    \/ \E e \in Editores : TrancarGrade(e) \/ ApagarGrade(e) \/ SalvarGrade(e) \/ DesfazerGrade(e)
    \/ \E p \in Janelas : \/ Bloquear(p) \/ Desbloquear(p) \/ AprovarPedidoDela(p)
                           \/ \E aberta \in BOOLEAN : Escalar(p, aberta)
    \/ \E l \in naAgenda : Desescalar(l)
    \/ \E p \in Intervalo : Consultar(p)
    \/ LerGrade \/ LerBloqueios \/ LerLives \/ EncerrarConsulta

DisponibilidadeSpec == DisponibilidadeInit /\ [][DisponibilidadeNext]_varsDisponibilidade

----------------------------------------------------------------------------
DisponibilidadeTypeOK ==
    /\ grade \subseteq Slot /\ ultimaGrade \subseteq Slot
    /\ bloqueios \subseteq Intervalo
    /\ naAgenda \subseteq [periodo: Janelas, aberta: BOOLEAN, de: {UsuarioDela}]
    /\ aprovados \subseteq [periodo: Janelas, de: {IdDela}]
    /\ escrita \in [Editores -> [etapa: {"livre", "trancada", "apagada"},
                                 nova: SUBSET Slot, apagados: SUBSET Slot]]
    /\ consulta \in [etapa: {"livre", "grade", "bloqueios", "lives", "disponivel", "indisponivel"},
                     ini: Instantes, fim: Instantes, serena: BOOLEAN]

\* Of two grids saved at the same time one remains, whole: never a mixture.
GradeInteira == grade = ultimaGrade

\* Hours of a period, one by one.
Horas(p) == {h \in Instantes : p.ini <= h /\ h < p.fim}

\* "Available", when nothing changed between the queries, means so of every
\* hour: in one slot of the day of the week the check reads (the day before
\* the date's, in a UTC session), in no blocked period, and in none of her
\* lives, one without an end lasting DuracaoPadrao.
DisponivelDeFato ==
    consulta.etapa = "disponivel" /\ consulta.serena =>
        \A h \in Horas(consulta) :
            /\ \E s \in grade : s.dia = DiaLido /\ h \in Horas(s)
            /\ \A p \in bloqueios : h \notin Horas(p)
            /\ \A l \in naAgenda : ~(l.periodo.ini <= h /\ h < ComFim(l).fim)

\* Claim of the repository that the code does not keep: the check takes the
\* approved requests for her into account.
PedidoAprovadoConta ==
    consulta.etapa = "disponivel" /\ consulta.serena =>
        \A h \in Horas(consulta) : \A r \in aprovados : h \notin Horas(r.periodo)
=============================================================================
