------------------------------ MODULE MCGestao ------------------------------
(***************************************************************************)
(* Small instances, for TLC, of the components whose properties are safety *)
(* properties: Cobranca with two instances of the server, Comissoes,       *)
(* Leads and Disponibilidade.  They share no state: a behaviour is of one  *)
(* of them, its scene, and the others stay in their initial states.        *)
(***************************************************************************)
EXTENDS Cobranca, Comissoes, Leads, Disponibilidade, TLC

CONSTANTS l1, l2, ana, i1, i2, ap1, c1, c2, d1, d2, g1, g2, s1, s2,
          e1, e2, ela, usr

VARIABLE cena

MCClienteDe == [l \in Lives |-> ana]
MCPrincipalDe == [l \in Transmissoes |-> ap1]
MCPeriodo(i, f) == [ini |-> i, fim |-> f]
MCSlot(d, i, f) == [dia |-> d, ini |-> i, fim |-> f]
MCJanelas == {MCPeriodo(0, 1), MCPeriodo(1, 3)}
\* Slots of the day the check reads in a UTC session, 0, and of the date's, 1.
MCGrades == {{}, {MCSlot(0, 0, 2), MCSlot(0, 2, 3)}, {MCSlot(0, 1, 3), MCSlot(1, 0, 3)}}

\* Instances of the server are interchangeable, and so are calculations.
Simetria == Permutations({i1, i2}) \cup Permutations({c1, c2})

GestaoInit ==
    /\ CobrancaInit /\ ComissoesInit /\ LeadsInit /\ DisponibilidadeInit
    /\ cena \in {"cobranca", "comissoes", "leads", "disponibilidade"}
    /\ iniciada = [l \in Transmissoes |-> 1]

\* Bounds of the scene of the commissions: the month turns, or somebody edits
\* or something fails; the sales are of the presenter.
LimitesDasComissoes ==
    /\ mesAtual' = 1 \/ edicoes' = 0
    /\ \A l \in encerradas' \ encerradas : elenco'[l] = {}
    /\ \A l \in Transmissoes : vendas'[<<l, SemAp>>].status = "nao_ha"

\* Bound of the scene of the calendar: one live of hers at a time.
UmaLiveDela == Cardinality(naAgenda') <= 1

\* Only the scene of the behaviour moves.
CenaCobranca == CobrancaNext
    /\ UNCHANGED <<varsComissoes, varsLeads, varsDisponibilidade>>
CenaComissoes ==
    /\ ComissoesNext /\ LimitesDasComissoes
    /\ UNCHANGED <<varsCobranca, varsLeads, varsDisponibilidade>>
CenaLeads == LeadsNext
    /\ UNCHANGED <<varsCobranca, varsComissoes, varsDisponibilidade>>
CenaDisponibilidade ==
    /\ DisponibilidadeNext /\ UmaLiveDela
    /\ UNCHANGED <<varsCobranca, varsComissoes, varsLeads>>

GestaoNext ==
    /\ cena' = cena
    /\ \/ cena = "cobranca" /\ CenaCobranca
       \/ cena = "comissoes" /\ CenaComissoes
       \/ cena = "leads" /\ CenaLeads
       \/ cena = "disponibilidade" /\ CenaDisponibilidade

GestaoSpec ==
    GestaoInit /\ [][GestaoNext]_<<cena, varsCobranca, varsComissoes,
                                    varsLeads, varsDisponibilidade>>

\* The variables of the components stay in their types.
GestaoTypeOK ==
    ComissoesTypeOK /\ LeadsTypeOK /\ DisponibilidadeTypeOK
=============================================================================
