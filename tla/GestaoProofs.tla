---------------------------- MODULE GestaoProofs ----------------------------
(***************************************************************************)
(* Sales and commissions, and the calendar of a presenter, for any number  *)
(* of lives, presenters, calculations, managers and periods.               *)
(*                                                                         *)
(* A replaced grid is never a mixture (GradeSempreInteira), and an answer  *)
(* "available" that nothing disturbed is true (SempreDisponivelDeFato).    *)
(* A calculation that nothing disturbed credits everyone                   *)
(* (VendaSempreAcompanha), an approval survives a later one                *)
(* (AprovacaoSempreRespeitada), and of two lives that end together one     *)
(* gets the band of both (FaixaSempreDosFins).  This last needs that the   *)
(* month's total covers each of its lives: the fold that computes it is    *)
(* shown to exist and to be a sum by taking, among the subsets where it    *)
(* would not, a smallest one.                                              *)
(***************************************************************************)
EXTENDS MCGestao, LeadsProofs

----------------------------------------------------------------------------
(* The calendar of a presenter. *)

\* Only one manager is inside the transaction that replaces the grid, and
\* the rows it deleted are all there are.
TravaDaGrade ==
    /\ \A e, f \in Editores :
        escrita[e].etapa # "livre" /\ escrita[f].etapa # "livre" => e = f
    /\ \A e \in Editores : escrita[e].etapa = "apagada" => escrita[e].apagados = grade

\* What the queries already made have established, if nothing changed.
ConsultaAteAqui ==
    consulta.serena =>
        /\ consulta.etapa \in {"bloqueios", "lives", "disponivel"} =>
            DentroDaGrade(consulta.ini, consulta.fim)
        /\ consulta.etapa \in {"lives", "disponivel"} =>
            \A p \in bloqueios : ~Sobrepoe(p, consulta.ini, consulta.fim)
        /\ consulta.etapa = "disponivel" => ~Alocada(consulta.ini, consulta.fim)

GradeInv == DisponibilidadeTypeOK /\ TravaDaGrade /\ GradeInteira
DisponibilidadeInv == GradeInv /\ ConsultaAteAqui

LEMMA DisponibilidadeInicial == DisponibilidadeInit => DisponibilidadeInv
<1> SUFFICES ASSUME DisponibilidadeInit PROVE DisponibilidadeInv
    OBVIOUS
<1> USE DisponibilidadeInit DEF DisponibilidadeInit, SemEscrita, SemConsulta
<1>1. 0 \in Instantes
    BY HorasNaturais DEF Instantes
<1>2. DisponibilidadeTypeOK
    BY <1>1 DEF DisponibilidadeTypeOK
<1>3. TravaDaGrade /\ GradeInteira /\ ConsultaAteAqui
    BY DEF TravaDaGrade, GradeInteira, ConsultaAteAqui
<1> QED BY <1>2, <1>3 DEF DisponibilidadeInv, GradeInv

\* A step that perturbs the check, or leaves it and what it reads alone,
\* keeps what it has established.
LEMMA PerturbadaMantem ==
    ASSUME DisponibilidadeTypeOK, Perturbada
    PROVE  /\ consulta' \in [etapa: {"livre", "grade", "bloqueios", "lives",
                                     "disponivel", "indisponivel"},
                             ini: Instantes, fim: Instantes, serena: BOOLEAN]
           /\ consulta'.etapa = consulta.etapa
           /\ consulta'.serena <=> consulta.etapa = "livre"
           /\ ConsultaAteAqui'
<1>1. /\ consulta' \in [etapa: {"livre", "grade", "bloqueios", "lives",
                                     "disponivel", "indisponivel"},
                        ini: Instantes, fim: Instantes, serena: BOOLEAN]
      /\ consulta'.etapa = consulta.etapa
      /\ consulta'.serena = (consulta.etapa = "livre")
    BY DEF Perturbada, DisponibilidadeTypeOK
<1>2. ConsultaAteAqui'
    BY <1>1 DEF ConsultaAteAqui
<1> QED BY <1>1, <1>2

LEMMA CalendarioPasso ==
    ASSUME DisponibilidadeInv,
           UNCHANGED <<grade, escrita, ultimaGrade>>, Perturbada,
           bloqueios' \subseteq Intervalo,
           naAgenda' \subseteq [periodo: Janelas, aberta: BOOLEAN, de: {UsuarioDela}],
           aprovados' \subseteq [periodo: Janelas, de: {IdDela}]
    PROVE  DisponibilidadeInv'
<1>1. DisponibilidadeTypeOK
    BY DEF DisponibilidadeInv, GradeInv
<1>2. /\ DisponibilidadeTypeOK'
      /\ ConsultaAteAqui'
    BY <1>1, PerturbadaMantem DEF DisponibilidadeTypeOK
<1>3. TravaDaGrade' /\ GradeInteira'
    BY DEF DisponibilidadeInv, GradeInv, TravaDaGrade, GradeInteira
<1> QED BY <1>2, <1>3 DEF DisponibilidadeInv, GradeInv

\* The check alone moves.
LEMMA ConsultaPasso ==
    ASSUME DisponibilidadeInv,
           UNCHANGED <<grade, bloqueios, naAgenda, aprovados, escrita, ultimaGrade>>,
           consulta' \in [etapa: {"livre", "grade", "bloqueios", "lives",
                                     "disponivel", "indisponivel"},
                          ini: Instantes, fim: Instantes, serena: BOOLEAN]
    PROVE  GradeInv'
<1>1. DisponibilidadeTypeOK'
    BY DEF DisponibilidadeInv, GradeInv, DisponibilidadeTypeOK
<1>2. TravaDaGrade' /\ GradeInteira'
    BY DEF DisponibilidadeInv, GradeInv, TravaDaGrade, GradeInteira
<1> QED BY <1>1, <1>2 DEF GradeInv

\* The check and what it reads stay; one transaction over the grid moves.
LEMMA EscritaPasso ==
    ASSUME DisponibilidadeInv, NEW e \in Editores,
           NEW x \in [etapa: {"livre", "trancada", "apagada"},
                      nova: SUBSET Slot, apagados: SUBSET Slot],
           escrita' = [escrita EXCEPT ![e] = x],
           UNCHANGED <<grade, bloqueios, naAgenda, aprovados, consulta, ultimaGrade>>,
           x.etapa = "apagada" => x.apagados = grade,
           x.etapa = "livre" \/ \A f \in Editores \ {e} : escrita[f].etapa = "livre"
    PROVE  DisponibilidadeInv'
<1>1. escrita \in [Editores -> [etapa: {"livre", "trancada", "apagada"},
                                nova: SUBSET Slot, apagados: SUBSET Slot]]
    BY DEF DisponibilidadeInv, GradeInv, DisponibilidadeTypeOK
<1>2. DisponibilidadeTypeOK'
    BY <1>1 DEF DisponibilidadeInv, GradeInv, DisponibilidadeTypeOK
<1>3. escrita'[e] = x /\ \A f \in Editores \ {e} : escrita'[f] = escrita[f]
    BY <1>1
<1>4. TravaDaGrade'
    BY <1>3 DEF DisponibilidadeInv, GradeInv, TravaDaGrade
<1>5. GradeInteira' /\ ConsultaAteAqui'
    BY DEF DisponibilidadeInv, GradeInv, GradeInteira, ConsultaAteAqui, DentroDaGrade, Alocada
<1> QED BY <1>2, <1>4, <1>5 DEF DisponibilidadeInv, GradeInv

LEMMA DisponibilidadePasso ==
    DisponibilidadeInv /\ [DisponibilidadeNext]_varsDisponibilidade => DisponibilidadeInv'
<1> SUFFICES ASSUME DisponibilidadeInv, [DisponibilidadeNext]_varsDisponibilidade
             PROVE  DisponibilidadeInv'
    OBVIOUS
<1> DEFINE Escrita == [etapa: {"livre", "trancada", "apagada"},
                       nova: SUBSET Slot, apagados: SUBSET Slot]
<1>t. DisponibilidadeTypeOK /\ TravaDaGrade /\ GradeInteira /\ ConsultaAteAqui
    BY DEF DisponibilidadeInv, GradeInv
<1>e. escrita \in [Editores -> Escrita]
    BY <1>t DEF DisponibilidadeTypeOK
<1>s. SemEscrita \in Escrita /\ SemEscrita.etapa = "livre"
    BY DEF SemEscrita
<1>1. ASSUME NEW e \in Editores, TrancarGrade(e) PROVE DisponibilidadeInv'
    <2>1. PICK g \in GradesPossiveis :
            escrita' = [escrita EXCEPT ![e] = [etapa |-> "trancada", nova |-> g, apagados |-> {}]]
        BY <1>1 DEF TrancarGrade
    <2>2. g \in SUBSET Slot
        BY GradesValidas
    <2> DEFINE x == [etapa |-> "trancada", nova |-> g, apagados |-> {}]
    <2>3. x \in Escrita /\ x.etapa = "trancada" /\ escrita' = [escrita EXCEPT ![e] = x]
        BY <2>1, <2>2
    <2>4. \A f \in Editores : escrita[f].etapa = "livre"
        BY <1>1 DEF TrancarGrade, ElaDestrancada
    <2>5. UNCHANGED <<grade, bloqueios, naAgenda, aprovados, consulta, ultimaGrade>>
        BY <1>1 DEF TrancarGrade
    <2> HIDE DEF x
    <2> QED BY <2>3, <2>4, <2>5, EscritaPasso
<1>2. ASSUME NEW e \in Editores, ApagarGrade(e) PROVE DisponibilidadeInv'
    <2> DEFINE x == [escrita[e] EXCEPT !.etapa = "apagada", !.apagados = grade]
    <2>1. /\ escrita[e].etapa = "trancada"
          /\ UNCHANGED <<grade, bloqueios, naAgenda, aprovados, consulta, ultimaGrade>>
          /\ escrita' = [escrita EXCEPT ![e].etapa = "apagada", ![e].apagados = grade]
        BY <1>2 DEF ApagarGrade
    <2>2. escrita[e] \in Escrita /\ grade \in SUBSET Slot
        BY <1>e, <1>t DEF DisponibilidadeTypeOK
    <2>3. x \in Escrita /\ x.etapa = "apagada" /\ x.apagados = grade
        BY <2>2
    <2>4. escrita' = [escrita EXCEPT ![e] = x]
        BY <1>e, <2>1
    <2>5. \A f \in Editores \ {e} : escrita[f].etapa = "livre"
        BY <1>t, <2>1 DEF TravaDaGrade
    <2>6. PICK y : y = x
        OBVIOUS
    <2> HIDE DEF x
    <2> QED BY <2>1, <2>3, <2>4, <2>5, <2>6, EscritaPasso
<1>3. ASSUME NEW e \in Editores, DesfazerGrade(e) PROVE DisponibilidadeInv'
    BY <1>3, <1>s, EscritaPasso DEF DesfazerGrade
<1>4. ASSUME NEW e \in Editores, SalvarGrade(e) PROVE DisponibilidadeInv'
    <2>1. /\ escrita[e].etapa = "apagada"
          /\ grade' = (grade \ escrita[e].apagados) \cup escrita[e].nova
          /\ ultimaGrade' = escrita[e].nova
          /\ escrita' = [escrita EXCEPT ![e] = SemEscrita]
          /\ Perturbada
          /\ UNCHANGED <<bloqueios, naAgenda, aprovados>>
        BY <1>4 DEF SalvarGrade
    <2>2. escrita[e].apagados = grade /\ escrita[e].nova \subseteq Slot
        BY <1>t, <1>e, <2>1 DEF TravaDaGrade
    <2>3. grade' = escrita[e].nova
        BY <2>1, <2>2
    <2>4. escrita' \in [Editores -> Escrita]
        BY <1>e, <1>s, <2>1
    <2>5. \A f \in Editores : escrita'[f].etapa = "livre"
        BY <1>t, <1>e, <1>s, <2>1 DEF TravaDaGrade
    <2>6. TravaDaGrade' /\ GradeInteira'
        BY <2>1, <2>3, <2>5 DEF TravaDaGrade, GradeInteira
    <2>7. DisponibilidadeTypeOK' /\ ConsultaAteAqui'
        BY <1>t, <2>1, <2>2, <2>3, <2>4, PerturbadaMantem DEF DisponibilidadeTypeOK
    <2> QED BY <2>6, <2>7 DEF DisponibilidadeInv, GradeInv
<1>5. ASSUME NEW p \in Janelas,
             Bloquear(p) \/ Desbloquear(p) \/ AprovarPedidoDela(p)
             \/ \E aberta \in BOOLEAN : Escalar(p, aberta)
      PROVE DisponibilidadeInv'
    <2>1. p \in Intervalo
        BY JanelasValidas
    <2>2. bloqueios' \subseteq Intervalo
        BY <1>5, <1>t, <2>1 DEF Bloquear, Desbloquear, AprovarPedidoDela, Escalar, DisponibilidadeTypeOK
    <2>3. aprovados' \subseteq [periodo: Janelas, de: {IdDela}]
        BY <1>5, <1>t DEF Bloquear, Desbloquear, AprovarPedidoDela, Escalar, DisponibilidadeTypeOK
    <2>4. naAgenda' \subseteq [periodo: Janelas, aberta: BOOLEAN, de: {UsuarioDela}]
        BY <1>5, <1>t DEF Bloquear, Desbloquear, AprovarPedidoDela, Escalar, DisponibilidadeTypeOK
    <2>5. UNCHANGED <<grade, escrita, ultimaGrade>> /\ Perturbada
        BY <1>5 DEF Bloquear, Desbloquear, AprovarPedidoDela, Escalar
    <2> QED BY <2>2, <2>3, <2>4, <2>5, CalendarioPasso
<1>6. ASSUME NEW q \in naAgenda, Desescalar(q) PROVE DisponibilidadeInv'
    <2>1. /\ UNCHANGED <<grade, escrita, ultimaGrade, bloqueios, aprovados>> /\ Perturbada
          /\ naAgenda' \subseteq naAgenda
        BY <1>6 DEF Desescalar
    <2>2. /\ bloqueios' \subseteq Intervalo
          /\ naAgenda' \subseteq [periodo: Janelas, aberta: BOOLEAN, de: {UsuarioDela}]
          /\ aprovados' \subseteq [periodo: Janelas, de: {IdDela}]
        BY <1>t, <2>1 DEF DisponibilidadeTypeOK
    <2> QED BY <2>1, <2>2, CalendarioPasso
<1> DEFINE Consulta == [etapa: {"livre", "grade", "bloqueios", "lives",
                                     "disponivel", "indisponivel"},
                        ini: Instantes, fim: Instantes, serena: BOOLEAN]
<1>c. consulta \in Consulta
    BY <1>t DEF DisponibilidadeTypeOK
<1>7. ASSUME NEW p \in Intervalo, Consultar(p) PROVE DisponibilidadeInv'
    <2>1. /\ consulta' = [etapa |-> "grade", ini |-> p.ini, fim |-> p.fim, serena |-> TRUE]
          /\ UNCHANGED <<grade, bloqueios, naAgenda, aprovados, escrita, ultimaGrade>>
        BY <1>7 DEF Consultar
    <2>2. consulta' \in Consulta /\ consulta'.etapa = "grade"
        BY <2>1 DEF Intervalo
    <2>3. ConsultaAteAqui'
        BY <2>2 DEF ConsultaAteAqui
    <2> QED BY <2>1, <2>2, <2>3, ConsultaPasso DEF DisponibilidadeInv
\* A query of the check, whose answer is conflito.
<1>r. ASSUME NEW de \in {"grade", "bloqueios", "lives"}, NEW conflito \in BOOLEAN,
             NEW para \in {"bloqueios", "lives", "disponivel"},
             Responder(de, conflito, para)
      PROVE  /\ GradeInv'
             /\ consulta.etapa = de
             /\ consulta'.ini = consulta.ini /\ consulta'.fim = consulta.fim
             /\ consulta'.serena = consulta.serena
             /\ consulta'.etapa = IF conflito THEN "indisponivel" ELSE para
             /\ UNCHANGED <<grade, bloqueios, naAgenda, aprovados>>
    <2>1. /\ consulta' = [consulta EXCEPT !.etapa = IF conflito THEN "indisponivel" ELSE para]
          /\ consulta.etapa = de
          /\ UNCHANGED <<grade, bloqueios, naAgenda, aprovados, escrita, ultimaGrade>>
        BY <1>r DEF Responder
    <2>2. /\ consulta' \in Consulta
          /\ consulta'.ini = consulta.ini /\ consulta'.fim = consulta.fim
          /\ consulta'.serena = consulta.serena
          /\ consulta'.etapa = IF conflito THEN "indisponivel" ELSE para
        BY <1>c, <2>1
    <2> QED BY <2>1, <2>2, ConsultaPasso
<1>8. CASE LerGrade
    <2> DEFINE conf == ~DentroDaGrade(consulta.ini, consulta.fim)
    <2>0. conf \in BOOLEAN
        OBVIOUS
    <2>1. Responder("grade", conf, "bloqueios")
        BY <1>8 DEF LerGrade
    <2> HIDE DEF conf
    <2>2. /\ GradeInv'
          /\ consulta'.ini = consulta.ini /\ consulta'.fim = consulta.fim
          /\ consulta'.etapa = IF conf THEN "indisponivel" ELSE "bloqueios"
          /\ UNCHANGED <<grade, bloqueios, naAgenda, aprovados>>
        BY <1>r, <2>0, <2>1
    <2>3. ConsultaAteAqui'
        BY <2>2 DEF ConsultaAteAqui, conf, DentroDaGrade
    <2> QED BY <2>2, <2>3 DEF DisponibilidadeInv
<1>9. CASE LerBloqueios
    <2> DEFINE conf == \E p \in bloqueios : Sobrepoe(p, consulta.ini, consulta.fim)
    <2>0. conf \in BOOLEAN
        OBVIOUS
    <2>1. Responder("bloqueios", conf, "lives")
        BY <1>9 DEF LerBloqueios
    <2> HIDE DEF conf
    <2>2. /\ GradeInv' /\ consulta.etapa = "bloqueios"
          /\ consulta'.ini = consulta.ini /\ consulta'.fim = consulta.fim
          /\ consulta'.serena = consulta.serena
          /\ consulta'.etapa = IF conf THEN "indisponivel" ELSE "lives"
          /\ UNCHANGED <<grade, bloqueios, naAgenda, aprovados>>
        BY <1>r, <2>0, <2>1
    <2>3. ConsultaAteAqui'
        BY <1>t, <2>2 DEF ConsultaAteAqui, conf, DentroDaGrade
    <2> QED BY <2>2, <2>3 DEF DisponibilidadeInv
<1>10. CASE LerLives
    <2> DEFINE conf == Alocada(consulta.ini, consulta.fim)
    <2>0. conf \in BOOLEAN
        BY DEF Alocada
    <2>1. Responder("lives", conf, "disponivel")
        BY <1>10 DEF LerLives
    <2> HIDE DEF conf
    <2>2. /\ GradeInv' /\ consulta.etapa = "lives"
          /\ consulta'.ini = consulta.ini /\ consulta'.fim = consulta.fim
          /\ consulta'.serena = consulta.serena
          /\ consulta'.etapa = IF conf THEN "indisponivel" ELSE "disponivel"
          /\ UNCHANGED <<grade, bloqueios, naAgenda, aprovados>>
        BY <1>r, <2>0, <2>1
    <2>3. ConsultaAteAqui'
        BY <1>t, <2>2 DEF ConsultaAteAqui, conf, DentroDaGrade, Alocada
    <2> QED BY <2>2, <2>3 DEF DisponibilidadeInv
<1>11. CASE EncerrarConsulta
    <2>1. /\ consulta' = SemConsulta
          /\ UNCHANGED <<grade, bloqueios, naAgenda, aprovados, escrita, ultimaGrade>>
        BY <1>11 DEF EncerrarConsulta
    <2>2. consulta' \in Consulta /\ consulta'.etapa = "livre"
        BY <2>1, HorasNaturais DEF SemConsulta, Instantes
    <2>3. ConsultaAteAqui'
        BY <2>2 DEF ConsultaAteAqui
    <2> QED BY <2>1, <2>2, <2>3, ConsultaPasso DEF DisponibilidadeInv
<1>12. CASE UNCHANGED varsDisponibilidade
    BY <1>12, <1>t DEF varsDisponibilidade, DisponibilidadeInv, GradeInv, DisponibilidadeTypeOK,
        TravaDaGrade, GradeInteira, ConsultaAteAqui, DentroDaGrade, Alocada
<1> QED BY <1>1, <1>2, <1>3, <1>4, <1>5, <1>6, <1>7, <1>8, <1>9, <1>10, <1>11, <1>12
        DEF DisponibilidadeNext

\* Whatever the check established of whole periods holds of every hour.
LEMMA HoraPorHora ==
    ASSUME DisponibilidadeInv
    PROVE  DisponivelDeFato
<1> SUFFICES ASSUME consulta.etapa = "disponivel", consulta.serena,
                    NEW h \in Horas(consulta)
             PROVE  /\ \E s \in grade : s.dia = DiaLido /\ h \in Horas(s)
                    /\ \A p \in bloqueios : h \notin Horas(p)
                    /\ \A l \in naAgenda : ~(l.periodo.ini <= h /\ h < ComFim(l).fim)
    BY DEF DisponivelDeFato
<1>t. DisponibilidadeTypeOK /\ ConsultaAteAqui
    BY DEF DisponibilidadeInv, GradeInv
<1>h. /\ h \in Instantes /\ consulta.ini <= h /\ h < consulta.fim
      /\ consulta.ini \in Instantes /\ consulta.fim \in Instantes
    BY <1>t DEF Horas, DisponibilidadeTypeOK
<1>n. Instantes \subseteq Int
    BY HorasNaturais DEF Instantes
<1>i. h \in Int /\ consulta.ini \in Int /\ consulta.fim \in Int
    BY <1>h, <1>n
<1>1. \E s \in grade : s.dia = DiaLido /\ h \in Horas(s)
    <2>1. PICK s \in grade : s.dia = DiaLido /\ s.ini <= consulta.ini /\ s.fim >= consulta.fim
        BY <1>t DEF ConsultaAteAqui, DentroDaGrade
    <2>2. s.ini \in Instantes /\ s.fim \in Instantes
        BY <1>t DEF DisponibilidadeTypeOK, Slot
    <2>i. s.ini \in Int /\ s.fim \in Int
        BY <1>n, <2>2
    <2>3. s.ini <= h /\ h < s.fim
        BY <1>h, <1>i, <2>1, <2>i
    <2> QED BY <1>h, <2>1, <2>3 DEF Horas
<1>2. ASSUME NEW p \in bloqueios, h \in Horas(p) PROVE FALSE
    <2>1. p.ini \in Instantes /\ p.fim \in Instantes
        BY <1>t DEF DisponibilidadeTypeOK, Intervalo
    <2>2. p.ini <= h /\ h < p.fim
        BY <1>2 DEF Horas
    <2>i. p.ini \in Int /\ p.fim \in Int
        BY <1>n, <2>1
    <2>3. p.ini < consulta.fim /\ consulta.ini < p.fim
        BY <1>h, <1>i, <2>i, <2>2
    <2> QED BY <1>t, <2>3 DEF ConsultaAteAqui, Sobrepoe
<1>3. ASSUME NEW q \in naAgenda, q.periodo.ini <= h, h < ComFim(q).fim PROVE FALSE
    <2>1. /\ q.de = UsuarioDela /\ q.periodo \in Intervalo
        BY <1>t, JanelasValidas DEF DisponibilidadeTypeOK
    <2>2. q.periodo.ini \in Int /\ q.periodo.fim \in Int
        BY <1>n, <2>1 DEF Intervalo
    <2>3. ComFim(q).ini = q.periodo.ini /\ ComFim(q).fim \in Int
        <3>1. q.periodo \in [ini: Instantes, fim: Instantes]
            BY <2>1 DEF Intervalo
        <3>2. DuracaoPadrao \in Int
            BY HorasNaturais
        <3>3. CASE q.aberta
            <4>1. ComFim(q) = [q.periodo EXCEPT !.fim = q.periodo.ini + DuracaoPadrao]
                BY <3>3 DEF ComFim
            <4> QED BY <3>1, <3>2, <2>2, <4>1
        <3>4. CASE ~q.aberta
            BY <3>4, <2>2 DEF ComFim
        <3> QED BY <3>3, <3>4
    <2>4. ComFim(q).ini < consulta.fim /\ consulta.ini < ComFim(q).fim
        BY <1>3, <1>h, <1>i, <2>2, <2>3
    <2> QED BY <1>t, <2>1, <2>4 DEF ConsultaAteAqui, Alocada, Sobrepoe
<1> QED BY <1>1, <1>2, <1>3

\* The calendar of a presenter keeps its types.
THEOREM DisponibilidadeTipo == DisponibilidadeSpec => []DisponibilidadeTypeOK
<1>1. DisponibilidadeInv => DisponibilidadeTypeOK
    BY DEF DisponibilidadeInv, GradeInv
<1> QED BY <1>1, DisponibilidadeInicial, DisponibilidadePasso, PTL DEF DisponibilidadeSpec

\* The grid is always, whole, the one some manager saved last, however many
\* replace it at the same time.
THEOREM GradeSempreInteira == DisponibilidadeSpec => []GradeInteira
<1>1. DisponibilidadeInv => GradeInteira
    BY DEF DisponibilidadeInv, GradeInv
<1> QED BY <1>1, DisponibilidadeInicial, DisponibilidadePasso, PTL DEF DisponibilidadeSpec

\* An answer "available" that nothing disturbed is true of every hour, for
\* the day of the week the check reads, in a session of any time zone.
THEOREM SempreDisponivelDeFato == DisponibilidadeSpec => []DisponivelDeFato
<1>1. DisponibilidadeInv => DisponivelDeFato
    BY HoraPorHora
<1> QED BY <1>1, DisponibilidadeInicial, DisponibilidadePasso, PTL DEF DisponibilidadeSpec

\* The day read is the date's in a session of Sao Paulo, and the day before in
\* a UTC session.
LEMMA DiaDaSessao ==
    /\ RecuoDaSessao = 0 => DiaLido = DiaDaData
    /\ RecuoDaSessao = 1 => DiaLido = IF DiaDaData = 0 THEN 6 ELSE DiaDaData - 1
BY DiaConhecido DEF DiaLido
----------------------------------------------------------------------------
(* Attributed sales and commissions. *)

VendaDe(l, a) == vendas[<<l, a>>]

\* A calculation in progress is of a live.
CalculoDeLive ==
    \A c \in Calculos : IF calculo[c].pc = "livre" THEN calculo[c].live = SemAp
                        ELSE calculo[c].live \in Transmissoes

\* Presenter a has the sale the calculation of l was given.
VendaEm(l, a) ==
    \/ VendaDe(l, a).status = "aprovada"
    \/ VendaDe(l, a).status # "nao_ha" /\ VendaDe(l, a).gmv = ultima[l].gmv

\* What calculation c of l, undisturbed, has done so far.
CalculoEmDia(c, l) ==
    /\ calculo[c].gmv = ultima[l].gmv
    /\ calculo[c].pc \in {"lendo", "gravando"} => calculo[c].mes = iniciada[l]
    /\ calculo[c].pc = "gravando" => calculo[c].lida = VendaDe(l, calculo[c].alvo).status
    /\ calculo[c].pc \in {"lendo", "gravando"} => \A a \in Creditadas(l) :
        \/ a \in calculo[c].fila
        \/ calculo[c].pc = "gravando" /\ a = calculo[c].alvo
        \/ VendaEm(l, a)

LiveCoerente(l) ==
    /\ l \notin encerradas => ~ultima[l].serena /\ ~EmCalculo(l)
    /\ ultima[l].serena =>
        /\ \A c, d \in Calculos : calculo[c].live = l /\ calculo[d].live = l => c = d
        /\ \A c \in Calculos : calculo[c].live = l => CalculoEmDia(c, l)
        /\ ~EmCalculo(l) => \A a \in Creditadas(l) : VendaEm(l, a)
        /\ ultima[l].fim => /\ VendaDe(l, PrincipalDe[l]).gmv = ultima[l].gmv
                            /\ VendaDe(l, PrincipalDe[l]).mes = iniciada[l]

\* The main presenter of l: her sale not read yet, or read and her band the
\* high one (or her sale approved), or written so.
PorLer(l) == \E c \in Calculos :
    calculo[c].live = l /\ (calculo[c].pc = "elenco" \/ PrincipalDe[l] \in calculo[c].fila)
Gravando(c, l) ==
    calculo[c].live = l /\ calculo[c].pc = "gravando" /\ calculo[c].alvo = PrincipalDe[l]
AltaLida(l) == \E c \in Calculos :
    Gravando(c, l) /\ (calculo[c].lida = "aprovada" \/ calculo[c].faixa = "alta")
AltaGravada(l) ==
    /\ ~PorLer(l) /\ \A c \in Calculos : ~Gravando(c, l)
    /\ \/ VendaDe(l, PrincipalDe[l]).status = "aprovada"
       \/ VendaDe(l, PrincipalDe[l]).faixa = "alta"
Vista(l) == PorLer(l) \/ AltaLida(l) \/ AltaGravada(l)

\* Of two undisturbed ends of one main presenter, in the month both lives
\* began, that reach the high band together, one sees the other.
Par(l, m) ==
    /\ l # m /\ PrincipalDe[l] = PrincipalDe[m] /\ PrincipalDe[l] # SemAp
    /\ iniciada[l] = iniciada[m]
    /\ ultima[l].serena /\ ultima[l].fim /\ ultima[m].serena /\ ultima[m].fim
    /\ ultima[l].gmv + ultima[m].gmv >= Corte
ParesVistos == \A l, m \in Transmissoes : Par(l, m) => Vista(l) \/ Vista(m)

ComissoesInv ==
    ComissoesTypeOK /\ CalculoDeLive /\ (\A l \in Transmissoes : LiveCoerente(l)) /\ ParesVistos
----------------------------------------------------------------------------
(* The month's total is a fold over a set.  Induction on that set is by a  *)
(* smallest subset in which a fact would fail.                             *)

LEMMA MenorSubconjunto ==
    ASSUME NEW S, IsFiniteSet(S), NEW T, T \subseteq SUBSET S, T # {}
    PROVE  \E s \in T : \A t \in T : t \subseteq s => t = s
<1>1. FiniteSubsetsOf(S) = SUBSET S
    BY FS_FiniteSubsetsOfFinite
<1>2. IsWellFoundedOn(StrictSubsetOrdering(S), SUBSET S)
    BY <1>1, FS_StrictSubsetOrderingWellFounded
<1>3. PICK s \in T : \A t \in T : <<t, s>> \notin StrictSubsetOrdering(S)
    BY <1>2, WFMin
<1>4. ASSUME NEW t \in T, t \subseteq s PROVE t = s
    BY <1>3, <1>4 DEF StrictSubsetOrdering
<1> QED BY <1>4

Um(s) == CHOOSE x \in s : TRUE

\* h sums the GMV of a over the subsets of s.
Soma(h, s, a) ==
    h = [t \in SUBSET s |-> IF t = {} THEN 0 ELSE VendaDe(Um(t), a).gmv + h[t \ {Um(t)}]]

LEMMA UmDoConjunto == \A s : s # {} => Um(s) \in s
    BY DEF Um

LEMMA SomaUnica ==
    ASSUME NEW S, IsFiniteSet(S), NEW a, NEW p \in SUBSET S, NEW q \in SUBSET S,
           NEW g, Soma(g, p, a), NEW h, Soma(h, q, a),
           NEW t \in SUBSET p, t \in SUBSET q
    PROVE  g[t] = h[t]
<1> DEFINE T == {u \in SUBSET t : g[u] # h[u]}
<1> SUFFICES ASSUME T # {} PROVE FALSE
    OBVIOUS
<1>1. T \subseteq SUBSET S
    OBVIOUS
<1>2. PICK u \in T : \A w \in T : w \subseteq u => w = u
    <2> HIDE DEF T
    <2> QED BY <1>1, MenorSubconjunto
<1>3. /\ g[u] = IF u = {} THEN 0 ELSE VendaDe(Um(u), a).gmv + g[u \ {Um(u)}]
      /\ h[u] = IF u = {} THEN 0 ELSE VendaDe(Um(u), a).gmv + h[u \ {Um(u)}]
    BY DEF Soma
<1>4. u # {} /\ Um(u) \in u
    BY <1>3, UmDoConjunto
<1>5. u \ {Um(u)} \in SUBSET t /\ u \ {Um(u)} # u
    BY <1>4
<1>6. g[u \ {Um(u)}] = h[u \ {Um(u)}]
    BY <1>2, <1>5
<1> QED BY <1>3, <1>4, <1>6

LEMMA SomaExiste ==
    ASSUME NEW S, IsFiniteSet(S), NEW a
    PROVE  \E h : Soma(h, S, a)
<1> DEFINE T == {s \in SUBSET S : ~ \E h : Soma(h, s, a)}
<1> SUFFICES ASSUME T # {} PROVE FALSE
    OBVIOUS
<1>1. PICK s \in T : \A w \in T : w \subseteq s => w = s
    <2>1. T \subseteq SUBSET S
        OBVIOUS
    <2> HIDE DEF T
    <2> QED BY <2>1, MenorSubconjunto
<1>2. s \in SUBSET S
    OBVIOUS
<1> DEFINE H(t) == CHOOSE h : Soma(h, t, a)
           valor(t) == IF t = {} THEN 0 ELSE VendaDe(Um(t), a).gmv + H(t \ {Um(t)})[t \ {Um(t)}]
           g == [t \in SUBSET s |-> valor(t)]
<1>3. ASSUME NEW t \in SUBSET s, t # s PROVE Soma(H(t), t, a)
    <2>1. \E h : Soma(h, t, a)
        BY <1>1, <1>2, <1>3
    <2> QED BY <2>1
<1> HIDE DEF H
<1>4. ASSUME NEW t \in SUBSET s, t # s PROVE H(t)[t] = valor(t)
    <2>1. Soma(H(t), t, a)
        BY <1>3, <1>4
    <2>2. H(t)[t] = IF t = {} THEN 0 ELSE VendaDe(Um(t), a).gmv + H(t)[t \ {Um(t)}]
        BY <2>1 DEF Soma
    <2>3. ASSUME t # {} PROVE H(t)[t \ {Um(t)}] = H(t \ {Um(t)})[t \ {Um(t)}]
        <3> DEFINE u == t \ {Um(t)}
        <3>1. u \in SUBSET t /\ u \in SUBSET s /\ u # s /\ u \in SUBSET u
            BY <1>4, <2>3, UmDoConjunto
        <3>2. Soma(H(u), u, a)
            BY <1>3, <3>1
        <3>3. t \in SUBSET S /\ u \in SUBSET S
            BY <1>2, <3>1
        <3> HIDE DEF u
        <3>4. H(t)[u] = H(u)[u]
            BY <2>1, <3>1, <3>2, <3>3, SomaUnica
        <3> QED BY <3>4 DEF u
    <2> QED BY <2>2, <2>3
<1>5. ASSUME NEW t \in SUBSET s, t # {} PROVE g[t \ {Um(t)}] = H(t \ {Um(t)})[t \ {Um(t)}]
    <2> DEFINE u == t \ {Um(t)}
    <2>1. u \in SUBSET s /\ u # s
        BY <1>5, UmDoConjunto
    <2>2. g[u] = valor(u)
        BY <2>1
    <2>3. H(u)[u] = valor(u)
        BY <1>4, <2>1
    <2> QED BY <2>2, <2>3
<1>6. \A t \in SUBSET s : valor(t) = IF t = {} THEN 0 ELSE VendaDe(Um(t), a).gmv + g[t \ {Um(t)}]
    BY <1>5
<1>7. Soma(g, s, a)
    BY <1>6 DEF Soma
<1> QED BY <1>7

\* GMV of a month: a natural number, no smaller than that of any live in it.
LEMMA AcumuladoCobre ==
    ASSUME vendas \in [Chaves -> Venda], NEW l \in Transmissoes, NEW a \in Creditaveis, NEW p
    PROVE  /\ GmvAcumuladoMes(l, a, p) \in Nat
           /\ \A m \in Transmissoes \ {l} : VendaDe(m, a).mes = p =>
                GmvAcumuladoMes(l, a, p) >= VendaDe(m, a).gmv
<1> DEFINE S == {m \in Transmissoes \ {l} : vendas[<<m, a>>].mes = p}
           soma == CHOOSE h : Soma(h, S, a)
<1>1. IsFiniteSet(S)
    BY TransmissoesFinitas, FS_Subset
<1>2. GmvAcumuladoMes(l, a, p) = soma[S]
    BY DEF GmvAcumuladoMes, MapThenSumSet, MapThenFoldSet, Soma, VendaDe, Um
<1>3. Soma(soma, S, a)
    <2>1. \E h : Soma(h, S, a)
        BY <1>1, SomaExiste
    <2> QED BY <2>1
<1>4. ASSUME NEW m \in S PROVE VendaDe(m, a).gmv \in Nat
    <2>1. <<m, a>> \in Chaves
        BY DEF Chaves
    <2>v. \A v \in Chaves : vendas[v] \in Venda
        OBVIOUS
    <2>2. vendas[<<m, a>>] \in Venda
        BY <2>1, <2>v, Zenon
    <2>3. vendas[<<m, a>>].gmv \in Gmv \cup {0}
        BY <2>2 DEF Venda
    <2>4. \A n \in Gmv \cup {0} : n \in Nat
        BY GmvNatural
    <2> QED BY <2>3, <2>4, Zenon DEF VendaDe
<1> HIDE DEF soma
<1> DEFINE Certo(t) == soma[t] \in Nat /\ \A m \in t : soma[t] >= VendaDe(m, a).gmv
           T == {t \in SUBSET S : ~Certo(t)}
<1>5. ASSUME T # {} PROVE FALSE
    <2>1. PICK t \in T : \A w \in T : w \subseteq t => w = t
        <3>1. T \subseteq SUBSET S
            OBVIOUS
        <3> HIDE DEF T, S
        <3> QED BY <1>1, <1>5, <3>1, MenorSubconjunto
    <2>2. t \in SUBSET S /\ ~Certo(t)
        OBVIOUS
    <2>3. soma[t] = IF t = {} THEN 0 ELSE VendaDe(Um(t), a).gmv + soma[t \ {Um(t)}]
        BY <1>3, <2>2 DEF Soma
    <2>4. CASE t = {}
        BY <2>2, <2>3, <2>4
    <2>5. CASE t # {}
        <3> DEFINE u == t \ {Um(t)}
        <3>1. Um(t) \in t /\ u \in SUBSET S /\ u # t /\ u \subseteq t
            BY <2>2, <2>5, UmDoConjunto
        <3>2. Certo(u)
            BY <2>1, <3>1
        <3>3. VendaDe(Um(t), a).gmv \in Nat
            BY <1>4, <2>2, <3>1
        <3> HIDE DEF S
        <3>4. soma[t] = VendaDe(Um(t), a).gmv + soma[u] /\ soma[u] \in Nat
            BY <2>3, <2>5, <3>2
        <3>5. soma[t] \in Nat /\ soma[t] >= VendaDe(Um(t), a).gmv /\ soma[t] >= soma[u]
            BY <3>3, <3>4
        <3>6. ASSUME NEW m \in u PROVE soma[t] >= VendaDe(m, a).gmv
            <4>1. soma[u] >= VendaDe(m, a).gmv /\ VendaDe(m, a).gmv \in Nat
                BY <1>4, <2>2, <3>2
            <4> QED BY <3>4, <3>5, <4>1
        <3>7. t = u \cup {Um(t)}
            BY <3>1
        <3>8. \A m \in t : soma[t] >= VendaDe(m, a).gmv
            BY <3>5, <3>6, <3>7
        <3>9. Certo(t)
            BY <3>5, <3>8
        <3> QED BY <2>2, <3>9
    <2> QED BY <2>4, <2>5
<1>6. Certo(S)
    BY <1>5
<1>7. \A m \in Transmissoes \ {l} : VendaDe(m, a).mes = p => m \in S
    BY DEF VendaDe
<1> HIDE DEF S
<1> QED BY <1>2, <1>6, <1>7

LEMMA VendaTipada ==
    ASSUME vendas \in [Chaves -> Venda], NEW l \in Transmissoes, NEW a \in Creditaveis
    PROVE  VendaDe(l, a) \in Venda
<1>1. <<l, a>> \in Chaves
    BY DEF Chaves
<1>2. \A v \in Chaves : vendas[v] \in Venda
    OBVIOUS
<1> QED BY <1>1, <1>2, Zenon DEF VendaDe

\* One sale changes.
LEMMA VendaTrocada ==
    ASSUME vendas \in [Chaves -> Venda], NEW l \in Transmissoes, NEW p \in Creditaveis,
           NEW x \in Venda, vendas' = [vendas EXCEPT ![<<l, p>>] = x]
    PROVE  /\ vendas' \in [Chaves -> Venda]
           /\ VendaDe(l, p)' = x
           /\ \A m \in Transmissoes, a \in Creditaveis :
                m # l \/ a # p => VendaDe(m, a)' = VendaDe(m, a)
<1>1. \A m \in Transmissoes, a \in Creditaveis : <<m, a>> \in Chaves
    BY DEF Chaves
<1>2. \A v \in Chaves : vendas'[v] = IF v = <<l, p>> THEN x ELSE vendas[v]
    OBVIOUS
<1>3. vendas' \in [Chaves -> Venda]
    OBVIOUS
<1>4. VendaDe(l, p)' = x
    BY <1>1, <1>2, Zenon DEF VendaDe
<1>5. ASSUME NEW m \in Transmissoes, NEW a \in Creditaveis, m # l \/ a # p
      PROVE VendaDe(m, a)' = VendaDe(m, a)
    <2>1. <<m, a>> # <<l, p>>
        BY <1>5
    <2> QED BY <1>1, <1>2, <2>1, Zenon DEF VendaDe
<1> QED BY <1>3, <1>4, <1>5

LEMMA CalculoTrocado ==
    ASSUME calculo \in [Calculos -> Calculo], NEW c \in Calculos, NEW e \in Calculo,
           calculo' = [calculo EXCEPT ![c] = e]
    PROVE  /\ calculo' \in [Calculos -> Calculo] /\ calculo'[c] = e
           /\ \A d \in Calculos \ {c} : calculo'[d] = calculo[d]
    OBVIOUS

LEMMA CalculoLivreTipado ==
    /\ CalculoLivre \in Calculo /\ CalculoLivre.pc = "livre" /\ CalculoLivre.live = SemAp
    /\ CalculoLivre.fila = {}
    BY UltimoMesPositivo DEF CalculoLivre, Calculo, Creditaveis, StatusVenda, Faixas, Meses

LEMMA Tipos == ComissoesTypeOK =>
    /\ \A l \in Transmissoes : /\ ultima[l].gmv \in Gmv \cup {0}
                                   /\ elenco[l] \subseteq Apresentadoras
    /\ \A l \in Transmissoes : PrincipalDe[l] \in Creditaveis
    /\ \A l \in Transmissoes : Creditadas(l) \subseteq Creditaveis
    /\ \A c \in Calculos : calculo[c] \in Calculo
    /\ \A c \in Calculos : /\ calculo[c].alvo \in Creditaveis
                               /\ calculo[c].fila \subseteq Creditaveis
<1> SUFFICES ASSUME ComissoesTypeOK PROVE
        /\ \A l \in Transmissoes : /\ ultima[l].gmv \in Gmv \cup {0}
                                   /\ elenco[l] \subseteq Apresentadoras
        /\ \A l \in Transmissoes : PrincipalDe[l] \in Creditaveis
        /\ \A l \in Transmissoes : Creditadas(l) \subseteq Creditaveis
        /\ \A c \in Calculos : calculo[c] \in Calculo
        /\ \A c \in Calculos : /\ calculo[c].alvo \in Creditaveis
                               /\ calculo[c].fila \subseteq Creditaveis
    OBVIOUS
<1>1. \A l \in Transmissoes : ultima[l].gmv \in Gmv \cup {0} /\ elenco[l] \subseteq Apresentadoras
    BY DEF ComissoesTypeOK
<1>2. \A l \in Transmissoes : PrincipalDe[l] \in Creditaveis
    BY PrincipalConhecida DEF Creditaveis
<1>3. \A l \in Transmissoes : Creditadas(l) \subseteq Creditaveis
    BY <1>1, <1>2 DEF Creditadas, Creditaveis
<1>4. \A c \in Calculos : calculo[c] \in Calculo
    BY DEF ComissoesTypeOK
<1>5. \A c \in Calculos : calculo[c].alvo \in Creditaveis /\ calculo[c].fila \subseteq Creditaveis
    BY <1>4 DEF Calculo
<1> QED BY <1>1, <1>2, <1>3, <1>4, <1>5

LEMMA ComissoesInicial == ComissoesInit => ComissoesInv
<1> SUFFICES ASSUME ComissoesInit PROVE ComissoesInv
    OBVIOUS
<1> USE ComissoesInit DEF ComissoesInit
<1>1. vendas \in [Chaves -> Venda]
    BY UltimoMesPositivo DEF SemVenda, Venda, StatusVenda, Faixas, Meses
<1>2. calculo \in [Calculos -> Calculo]
    BY CalculoLivreTipado
<1>3. ComissoesTypeOK
    BY <1>1, <1>2, GmvNatural, UltimoMesPositivo DEF ComissoesTypeOK, SemCalculo, Meses
<1>4. \A c \in Calculos : calculo[c].pc = "livre" /\ calculo[c].live = SemAp
    BY CalculoLivreTipado
<1>5. \A l \in Transmissoes : ultima[l].serena = FALSE
    BY DEF SemCalculo
<1>6. CalculoDeLive
    BY <1>4 DEF CalculoDeLive
<1>7. \A l \in Transmissoes : LiveCoerente(l)
    BY <1>4, <1>5, SemApNova DEF LiveCoerente, EmCalculo
<1>8. ParesVistos
    BY <1>5 DEF ParesVistos, Par
<1> QED BY <1>3, <1>6, <1>7, <1>8 DEF ComissoesInv

----------------------------------------------------------------------------
\* A step of another live.
Intocada(m) ==
    /\ ultima'[m] = ultima[m] /\ elenco'[m] = elenco[m] /\ iniciada'[m] = iniciada[m]
    /\ m \in encerradas' <=> m \in encerradas
    /\ \A a \in Creditaveis : VendaDe(m, a)' = VendaDe(m, a)
    /\ \A c \in Calculos : \/ calculo'[c] = calculo[c]
                           \/ calculo[c].live # m /\ calculo'[c].live # m

LEMMA IntocadaCoerente ==
    ASSUME ComissoesTypeOK, NEW m \in Transmissoes, LiveCoerente(m), Intocada(m)
    PROVE  LiveCoerente(m)'
<1>1. EmCalculo(m)' <=> EmCalculo(m)
    BY DEF Intocada, EmCalculo
<1>2. Creditadas(m)' = Creditadas(m) /\ Creditadas(m) \subseteq Creditaveis
    BY Tipos DEF Intocada, Creditadas
<1>3. \A a \in Creditaveis : VendaEm(m, a)' <=> VendaEm(m, a)
    BY DEF Intocada, VendaEm
<1>4. ASSUME NEW c \in Calculos, calculo'[c].live = m, ultima[m].serena
      PROVE calculo[c].live = m /\ CalculoEmDia(c, m)'
    <2>1. calculo'[c] = calculo[c]
        BY <1>4 DEF Intocada
    <2>2. CalculoEmDia(c, m) /\ calculo[c].live = m
        BY <1>4, <2>1 DEF LiveCoerente
    <2>3. calculo[c].alvo \in Creditaveis
        BY Tipos
    <2>4. VendaDe(m, calculo[c].alvo)' = VendaDe(m, calculo[c].alvo)
        <3>1. PICK a \in Creditaveis : a = calculo[c].alvo
            BY <2>3
        <3>2. VendaDe(m, a)' = VendaDe(m, a)
            BY DEF Intocada
        <3> QED BY <2>1, <3>1, <3>2
    <2> QED BY <1>2, <1>3, <2>1, <2>2, <2>4 DEF CalculoEmDia, Intocada
<1>5. PrincipalDe[m] \in Creditaveis
    BY Tipos
<1>6. VendaDe(m, PrincipalDe[m])' = VendaDe(m, PrincipalDe[m])
    BY <1>5 DEF Intocada
<1>7. /\ ultima'[m] = ultima[m] /\ iniciada'[m] = iniciada[m]
      /\ m \in encerradas' <=> m \in encerradas
    BY DEF Intocada
<1> QED BY <1>1, <1>2, <1>3, <1>4, <1>6, <1>7 DEF LiveCoerente

LEMMA IntocadaVista ==
    ASSUME ComissoesTypeOK, NEW m \in Transmissoes, Intocada(m)
    PROVE  Vista(m)' <=> Vista(m)
<1>1. PrincipalDe[m] \in Creditaveis
    BY Tipos
<1>2. VendaDe(m, PrincipalDe[m])' = VendaDe(m, PrincipalDe[m])
    BY <1>1 DEF Intocada
<1>3. \A c \in Calculos : calculo'[c] = calculo[c] \/ (calculo[c].live # m /\ calculo'[c].live # m)
    BY DEF Intocada
<1>4. PorLer(m)' <=> PorLer(m)
    BY <1>3 DEF PorLer
<1>5. \A c \in Calculos : Gravando(c, m)' <=> Gravando(c, m)
    BY <1>3 DEF Gravando
<1>6. AltaLida(m)' <=> AltaLida(m)
    BY <1>3, <1>5 DEF AltaLida, Gravando
<1> QED BY <1>2, <1>4, <1>5, <1>6 DEF Vista, AltaGravada

\* What a step of l does to the pairs l is in.
VeComo(l) ==
    \A m \in Transmissoes \ {l} :
        Par(l, m)' => Vista(l)' \/ (Par(l, m) /\ (Vista(l) => Vista(l)'))

\* A step of live l keeps the invariant when it keeps the part of l.
LEMMA UmaLive ==
    ASSUME ComissoesInv, NEW l \in Transmissoes, ComissoesTypeOK', CalculoDeLive',
           \A m \in Transmissoes \ {l} : Intocada(m), LiveCoerente(l)', VeComo(l)
    PROVE  ComissoesInv'
<1>1. ComissoesTypeOK /\ ParesVistos /\ \A m \in Transmissoes : LiveCoerente(m)
    BY DEF ComissoesInv
<1>2. \A m \in Transmissoes : LiveCoerente(m)'
    BY <1>1, IntocadaCoerente
<1>3. \A m \in Transmissoes \ {l} : Vista(m)' <=> Vista(m)
    BY <1>1, IntocadaVista
<1>4. ASSUME NEW i \in Transmissoes, NEW j \in Transmissoes, Par(i, j)'
      PROVE Vista(i)' \/ Vista(j)'
    <2>1. CASE i = l
        <3>1. j \in Transmissoes \ {l}
            BY <1>4, <2>1 DEF Par
        <3> QED BY <1>1, <1>3, <1>4, <2>1, <3>1 DEF VeComo, ParesVistos
    <2>2. CASE j = l
        <3>1. i \in Transmissoes \ {l}
            BY <1>4, <2>2 DEF Par
        <3>0. ultima'[i].gmv \in Gmv \cup {0} /\ ultima'[j].gmv \in Gmv \cup {0}
            BY DEF ComissoesTypeOK
        <3>n. \A x \in Gmv \cup {0} : x \in Nat
            BY GmvNatural
        <3>p. ultima'[i].gmv \in Nat /\ ultima'[j].gmv \in Nat
            BY <3>0, <3>n
        <3>2. ultima'[i].gmv + ultima'[j].gmv = ultima'[j].gmv + ultima'[i].gmv
            BY <3>p
        <3>3. Par(j, i)'
            BY <1>4, <3>2 DEF Par
        <3> QED BY <1>1, <1>3, <2>2, <3>1, <3>3 DEF VeComo, ParesVistos
    <2>3. CASE i # l /\ j # l
        <3>1. Par(i, j)
            <4>1. Intocada(i) /\ Intocada(j)
                BY <2>3
            <4>2. /\ ultima'[i] = ultima[i] /\ ultima'[j] = ultima[j]
                  /\ iniciada'[i] = iniciada[i] /\ iniciada'[j] = iniciada[j]
                BY <4>1 DEF Intocada
            <4> QED BY <1>4, <4>2 DEF Par
        <3> QED BY <1>1, <1>3, <2>3, <3>1 DEF ParesVistos
    <2> QED BY <2>1, <2>2, <2>3
<1>5. ParesVistos'
    BY <1>4 DEF ParesVistos
<1> QED BY <1>2, <1>5 DEF ComissoesInv

\* Nothing is claimed of a live that was disturbed.
LEMMA LivePerturbada ==
    ASSUME NEW l \in Transmissoes, ultima'[l].serena = FALSE,
           l \notin encerradas' => ~EmCalculo(l)'
    PROVE  LiveCoerente(l)' /\ VeComo(l)
<1>1. LiveCoerente(l)'
    BY DEF LiveCoerente
<1>2. VeComo(l)
    BY DEF VeComo, Par
<1> QED BY <1>1, <1>2

----------------------------------------------------------------------------
LEMMA UltimaTrocada ==
    ASSUME ComissoesTypeOK, NEW l \in Transmissoes,
           NEW r \in [gmv: Gmv \cup {0}, serena: BOOLEAN, fim: BOOLEAN],
           ultima' = [ultima EXCEPT ![l] = r]
    PROVE  /\ ultima' \in [Transmissoes -> [gmv: Gmv \cup {0}, serena: BOOLEAN, fim: BOOLEAN]]
           /\ ultima'[l] = r
           /\ \A m \in Transmissoes \ {l} : ultima'[m] = ultima[m]
    BY DEF ComissoesTypeOK

LEMMA UltimaPerturbada ==
    ASSUME ComissoesTypeOK, NEW l \in Transmissoes, Perturbar(l)
    PROVE  /\ ultima' \in [Transmissoes -> [gmv: Gmv \cup {0}, serena: BOOLEAN, fim: BOOLEAN]]
           /\ ultima'[l].serena = FALSE
           /\ \A m \in Transmissoes \ {l} : ultima'[m] = ultima[m]
    BY DEF ComissoesTypeOK, Perturbar

\* upsertVendaAtribuida
LEMMA VendaGravada ==
    ASSUME ComissoesTypeOK, NEW l \in Transmissoes, NEW p \in Creditaveis, NEW g \in Gmv,
           NEW q \in Meses, vendas' = Gravada(<<l, p>>, g, q)
    PROVE  /\ vendas' \in [Chaves -> Venda]
           /\ VendaDe(l, p)'.gmv = g /\ VendaDe(l, p)'.mes = q
           /\ VendaDe(l, p).status = "aprovada" => VendaDe(l, p)'.status = "aprovada"
           /\ \A m \in Transmissoes, a \in Creditaveis :
                m # l \/ a # p => VendaDe(m, a)' = VendaDe(m, a)
<1> DEFINE x == [status |-> IF VendaDe(l, p).status = "nao_ha" THEN "pendente_aprovacao"
                            ELSE VendaDe(l, p).status,
                 gmv |-> g, faixa |-> "informada", mes |-> q]
<1>1. vendas \in [Chaves -> Venda]
    BY DEF ComissoesTypeOK
<1>2. VendaDe(l, p) \in Venda
    BY <1>1, VendaTipada
<1>3. VendaDe(l, p).status \in StatusVenda
    BY <1>2 DEF Venda
<1>4. x \in Venda /\ x.gmv = g /\ x.mes = q /\ (VendaDe(l, p).status = "aprovada" => x.status = "aprovada")
    BY <1>3 DEF Venda, StatusVenda, Faixas
<1>5. vendas' = [vendas EXCEPT ![<<l, p>>] = x]
    BY <1>1 DEF Gravada, VendaDe, Chaves
<1>6. PICK y : y = x
    OBVIOUS
<1> HIDE DEF x
<1>7. /\ vendas' \in [Chaves -> Venda] /\ VendaDe(l, p)' = y
      /\ \A m \in Transmissoes, a \in Creditaveis :
                m # l \/ a # p => VendaDe(m, a)' = VendaDe(m, a)
    BY <1>1, <1>4, <1>5, <1>6, VendaTrocada
<1> QED BY <1>4, <1>6, <1>7

LEMMA Iniciado ==
    ASSUME ComissoesInv, NEW l \in Transmissoes, NEW g \in Gmv, NEW fim \in BOOLEAN,
           Calcular(l, g, fim)
    PROVE  /\ calculo' \in [Calculos -> Calculo] /\ CalculoDeLive'
           /\ ultima' \in [Transmissoes -> [gmv: Gmv \cup {0}, serena: BOOLEAN, fim: BOOLEAN]]
           /\ ultima'[l] = [gmv |-> g, serena |-> ~EmCalculo(l), fim |-> fim]
           /\ \A m \in Transmissoes \ {l} : ultima'[m] = ultima[m]
           /\ \E c \in Calculos :
                /\ calculo'[c].live = l /\ calculo'[c].gmv = g /\ calculo'[c].pc = "elenco"
                /\ calculo[c].live = SemAp
                /\ \A d \in Calculos \ {c} : calculo'[d] = calculo[d]
<1>t. ComissoesTypeOK /\ CalculoDeLive
    BY DEF ComissoesInv
<1>1. PICK c \in Calculos :
        /\ calculo[c].pc = "livre"
        /\ calculo' = [calculo EXCEPT ![c].pc = "elenco", ![c].live = l, ![c].gmv = g]
    BY DEF Calcular
<1> DEFINE e == [calculo[c] EXCEPT !.pc = "elenco", !.live = l, !.gmv = g]
<1>2. calculo \in [Calculos -> Calculo] /\ calculo[c] \in Calculo
    BY <1>t DEF ComissoesTypeOK
<1>3. e \in Calculo /\ e.pc = "elenco" /\ e.live = l /\ e.gmv = g
    BY <1>2 DEF Calculo
<1>4. calculo' = [calculo EXCEPT ![c] = e]
    BY <1>1, <1>2
<1>5. PICK y \in Calculo : y = e
    BY <1>3
<1> HIDE DEF e
<1>6. /\ calculo' \in [Calculos -> Calculo] /\ calculo'[c] = y
      /\ \A d \in Calculos \ {c} : calculo'[d] = calculo[d]
    BY <1>2, <1>4, <1>5, CalculoTrocado
<1>7. y.pc = "elenco" /\ y.live = l /\ y.gmv = g
    BY <1>3, <1>5
<1>8. CalculoDeLive'
    BY <1>t, <1>6, <1>7 DEF CalculoDeLive
<1>9. calculo[c].live = SemAp
    BY <1>1, <1>t DEF CalculoDeLive
<1> DEFINE r == [gmv |-> g, serena |-> ~EmCalculo(l), fim |-> fim]
<1>10. r \in [gmv: Gmv \cup {0}, serena: BOOLEAN, fim: BOOLEAN]
    BY DEF EmCalculo
<1>11. ultima' = [ultima EXCEPT ![l] = r]
    BY DEF Calcular
<1>12. /\ ultima' \in [Transmissoes -> [gmv: Gmv \cup {0}, serena: BOOLEAN, fim: BOOLEAN]]
       /\ ultima'[l] = r
       /\ \A m \in Transmissoes \ {l} : ultima'[m] = ultima[m]
    BY <1>t, <1>10, <1>11 DEF ComissoesTypeOK
<1> QED BY <1>6, <1>7, <1>8, <1>9, <1>12

\* A calculation that has just started, of a live with no other.
LEMMA RecemIniciado ==
    ASSUME NEW l \in Transmissoes, NEW g, l \in encerradas',
           ultima'[l].gmv = g, ultima'[l].serena => ~EmCalculo(l),
           NEW c \in Calculos,
           calculo'[c].live = l, calculo'[c].gmv = g, calculo'[c].pc = "elenco",
           \A d \in Calculos \ {c} : calculo'[d] = calculo[d],
           ultima'[l].fim => /\ VendaDe(l, PrincipalDe[l])'.gmv = g
                             /\ VendaDe(l, PrincipalDe[l])'.mes = iniciada'[l]
    PROVE  LiveCoerente(l)' /\ VeComo(l)
<1>1. Vista(l)'
    BY DEF Vista, PorLer
<1>2. VeComo(l)
    BY <1>1 DEF VeComo
<1>3. EmCalculo(l)'
    BY DEF EmCalculo
<1>4. CalculoEmDia(c, l)'
    BY DEF CalculoEmDia
<1>5. ultima'[l].serena => \A d \in Calculos : calculo'[d].live = l => d = c
    BY DEF EmCalculo
<1>6. LiveCoerente(l)'
    BY <1>3, <1>4, <1>5 DEF LiveCoerente
<1> QED BY <1>2, <1>6

LEMMA PassoEncerrar ==
    ASSUME ComissoesInv, NEW l \in Transmissoes, EncerrarComVenda(l)
    PROVE  ComissoesInv'
<1>t. ComissoesTypeOK /\ LiveCoerente(l)
    BY DEF ComissoesInv
<1>p. PrincipalDe[l] \in Creditaveis
    BY <1>t, Tipos
<1>1. PICK fat \in Gmv, g \in Gmv :
        /\ vendas' = Gravada(<<l, PrincipalDe[l]>>, fat, mesAtual)
        /\ Calcular(l, g, g = fat /\ iniciada[l] = mesAtual)
    BY DEF EncerrarComVenda
<1>2. /\ l \notin encerradas /\ encerradas' = encerradas \cup {l}
      /\ UNCHANGED <<mesAtual, iniciada, elenco, edicoes>>
    BY DEF EncerrarComVenda
<1>3. /\ vendas' \in [Chaves -> Venda]
      /\ VendaDe(l, PrincipalDe[l])'.gmv = fat /\ VendaDe(l, PrincipalDe[l])'.mes = mesAtual
      /\ \A m \in Transmissoes \ {l}, a \in Creditaveis : VendaDe(m, a)' = VendaDe(m, a)
    <2>1. PICK p \in Creditaveis : p = PrincipalDe[l]
        BY <1>p
    <2>2. vendas' = Gravada(<<l, p>>, fat, mesAtual) /\ mesAtual \in Meses
        BY <1>t, <1>1, <2>1 DEF ComissoesTypeOK
    <2>3. /\ vendas' \in [Chaves -> Venda]
          /\ VendaDe(l, p)'.gmv = fat /\ VendaDe(l, p)'.mes = mesAtual
          /\ \A m \in Transmissoes, a \in Creditaveis :
                m # l \/ a # p => VendaDe(m, a)' = VendaDe(m, a)
        BY <1>t, <2>2, VendaGravada
    <2> QED BY <2>1, <2>3
<1>4. PICK fim \in BOOLEAN :
        fim = (g = fat /\ iniciada[l] = mesAtual) /\ Calcular(l, g, fim)
    BY <1>1
<1>c. Calcular(l, g, fim)
    BY <1>4
<1>5. /\ calculo' \in [Calculos -> Calculo] /\ CalculoDeLive'
      /\ ultima' \in [Transmissoes -> [gmv: Gmv \cup {0}, serena: BOOLEAN, fim: BOOLEAN]]
      /\ ultima'[l] = [gmv |-> g, serena |-> ~EmCalculo(l), fim |-> fim]
      /\ \A m \in Transmissoes \ {l} : ultima'[m] = ultima[m]
      /\ \E c \in Calculos :
            /\ calculo'[c].live = l /\ calculo'[c].gmv = g /\ calculo'[c].pc = "elenco"
            /\ calculo[c].live = SemAp
            /\ \A d \in Calculos \ {c} : calculo'[d] = calculo[d]
    BY <1>c, Iniciado
<1>6. PICK c \in Calculos :
        /\ calculo'[c].live = l /\ calculo'[c].gmv = g /\ calculo'[c].pc = "elenco"
        /\ calculo[c].live = SemAp
        /\ \A d \in Calculos \ {c} : calculo'[d] = calculo[d]
    BY <1>5
<1>7. ComissoesTypeOK'
    BY <1>t, <1>2, <1>3, <1>5 DEF ComissoesTypeOK
<1>8. \A m \in Transmissoes \ {l} : Intocada(m)
    BY <1>2, <1>3, <1>5, <1>6, SemApNova DEF Intocada
<1>9. LiveCoerente(l)' /\ VeComo(l)
    <2>1. ultima'[l].gmv = g /\ (ultima'[l].serena => ~EmCalculo(l)) /\ ultima'[l].fim = fim
        BY <1>5
    <2>2. ultima'[l].fim => /\ VendaDe(l, PrincipalDe[l])'.gmv = g
                            /\ VendaDe(l, PrincipalDe[l])'.mes = iniciada'[l]
        BY <1>2, <1>3, <1>4, <2>1
    <2>3. l \in encerradas'
        BY <1>2
    <2> QED BY <1>6, <2>1, <2>2, <2>3, RecemIniciado
<1> QED BY <1>5, <1>7, <1>8, <1>9, UmaLive

LEMMA PassoEditarLive ==
    ASSUME ComissoesInv, NEW l \in Transmissoes, EditarLive(l), NEW g \in Gmv,
           Calcular(l, g, FALSE)
    PROVE  ComissoesInv'
<1>t. ComissoesTypeOK /\ LiveCoerente(l)
    BY DEF ComissoesInv
<1>2. /\ l \in encerradas /\ UNCHANGED <<mesAtual, encerradas, elenco, vendas>>
      /\ edicoes < MaxEdicoes /\ edicoes' = edicoes + 1
      /\ \E p \in Meses : iniciada' = [iniciada EXCEPT ![l] = p]
    BY DEF EditarLive, EditarUmaVez
<1>3. edicoes' \in 0..MaxEdicoes
    BY <1>t, <1>2, GmvNatural DEF ComissoesTypeOK
<1>4. /\ iniciada' \in [Transmissoes -> Meses]
      /\ \A m \in Transmissoes \ {l} : iniciada'[m] = iniciada[m]
    BY <1>t, <1>2 DEF ComissoesTypeOK
<1>5. /\ calculo' \in [Calculos -> Calculo] /\ CalculoDeLive'
      /\ ultima' \in [Transmissoes -> [gmv: Gmv \cup {0}, serena: BOOLEAN, fim: BOOLEAN]]
      /\ ultima'[l] = [gmv |-> g, serena |-> ~EmCalculo(l), fim |-> FALSE]
      /\ \A m \in Transmissoes \ {l} : ultima'[m] = ultima[m]
    BY Iniciado
<1>6. PICK c \in Calculos :
        /\ calculo'[c].live = l /\ calculo'[c].gmv = g /\ calculo'[c].pc = "elenco"
        /\ calculo[c].live = SemAp
        /\ \A d \in Calculos \ {c} : calculo'[d] = calculo[d]
    BY Iniciado
<1>7. ComissoesTypeOK'
    BY <1>t, <1>2, <1>3, <1>4, <1>5 DEF ComissoesTypeOK
<1>8. \A m \in Transmissoes \ {l} : Intocada(m)
    BY <1>2, <1>4, <1>5, <1>6, SemApNova DEF Intocada, VendaDe
<1>9. LiveCoerente(l)' /\ VeComo(l)
    <2>1. ultima'[l].gmv = g /\ (ultima'[l].serena => ~EmCalculo(l)) /\ ultima'[l].fim = FALSE
        BY <1>5
    <2>2. l \in encerradas'
        BY <1>2
    <2> QED BY <1>6, <2>1, <2>2, RecemIniciado
<1> QED BY <1>5, <1>7, <1>8, <1>9, UmaLive

\* Managers disturb the calculation of a live; its calculations go on.
LEMMA PassoDePessoa ==
    ASSUME ComissoesInv, NEW l \in Transmissoes, ultima'[l].serena = FALSE,
           \A m \in Transmissoes \ {l} : ultima'[m] = ultima[m],
           ultima' \in [Transmissoes -> [gmv: Gmv \cup {0}, serena: BOOLEAN, fim: BOOLEAN]],
           UNCHANGED <<mesAtual, calculo>>, encerradas' \in {encerradas, encerradas \cup {l}},
           iniciada' \in [Transmissoes -> Meses],
           \A m \in Transmissoes \ {l} : iniciada'[m] = iniciada[m],
           vendas' \in [Chaves -> Venda],
           \A m \in Transmissoes \ {l}, a \in Creditaveis : VendaDe(m, a)' = VendaDe(m, a),
           elenco' \in [Transmissoes -> SUBSET Apresentadoras],
           \A m \in Transmissoes \ {l} : elenco'[m] = elenco[m],
           edicoes' \in 0..MaxEdicoes
    PROVE  ComissoesInv'
<1>t. ComissoesTypeOK /\ CalculoDeLive /\ LiveCoerente(l)
    BY DEF ComissoesInv
<1>1. ComissoesTypeOK'
    BY <1>t DEF ComissoesTypeOK
<1>2. CalculoDeLive'
    BY <1>t DEF CalculoDeLive
<1>3. \A m \in Transmissoes \ {l} : Intocada(m)
    BY DEF Intocada
<1>4. l \notin encerradas' => ~EmCalculo(l)'
    BY <1>t DEF LiveCoerente, EmCalculo
<1>5. LiveCoerente(l)' /\ VeComo(l)
    BY <1>4, LivePerturbada
<1> QED BY <1>1, <1>2, <1>3, <1>5, UmaLive

LEMMA PassosDePessoas ==
    ASSUME ComissoesInv, NEW l \in Transmissoes,
           \/ LancarManualComVenda(l) \/ MudarElenco(l)
           \/ EditarLive(l) /\ Perturbar(l) /\ UNCHANGED calculo
           \/ \E p \in Creditaveis : AlterarVenda(<<l, p>>) \/ Decidir(<<l, p>>)
    PROVE  ComissoesInv'
<1>t. ComissoesTypeOK /\ LiveCoerente(l)
    BY DEF ComissoesInv
<1>v. vendas \in [Chaves -> Venda] /\ elenco \in [Transmissoes -> SUBSET Apresentadoras]
      /\ edicoes \in 0..MaxEdicoes /\ iniciada \in [Transmissoes -> Meses]
    BY <1>t DEF ComissoesTypeOK
<1>e. ASSUME EditarUmaVez PROVE edicoes' \in 0..MaxEdicoes
    BY <1>v, <1>e, GmvNatural DEF EditarUmaVez
<1>i. ASSUME UNCHANGED vendas
      PROVE  \A m \in Transmissoes, a \in Creditaveis : VendaDe(m, a)' = VendaDe(m, a)
    BY <1>i DEF VendaDe
<1>1. CASE LancarManualComVenda(l)
    <2>1. /\ l \notin encerradas /\ encerradas' = encerradas \cup {l}
          /\ UNCHANGED <<mesAtual, calculo, ultima, edicoes>>
        BY <1>1 DEF LancarManualComVenda
    <2>2. PICK fat \in Gmv, q \in Meses :
            /\ vendas' = Gravada(<<l, PrincipalDe[l]>>, fat, q)
            /\ iniciada' = [iniciada EXCEPT ![l] = q]
        BY <1>1 DEF LancarManualComVenda
    <2>3. PICK p \in Creditaveis : p = PrincipalDe[l]
        BY <1>t, Tipos
    <2>4. vendas' = Gravada(<<l, p>>, fat, q)
        BY <2>2, <2>3
    <2>5. /\ vendas' \in [Chaves -> Venda]
          /\ \A m \in Transmissoes \ {l}, a \in Creditaveis : VendaDe(m, a)' = VendaDe(m, a)
        BY <1>t, <2>4, VendaGravada
    <2>6. PICK e \in SUBSET Apresentadoras : elenco' = [elenco EXCEPT ![l] = e]
        BY <1>1 DEF LancarManualComVenda
    <2>7. /\ elenco' \in [Transmissoes -> SUBSET Apresentadoras]
          /\ \A m \in Transmissoes \ {l} : elenco'[m] = elenco[m]
        BY <1>v, <2>6
    <2>8. ultima'[l].serena = FALSE
        BY <1>t, <2>1 DEF LiveCoerente, ComissoesTypeOK
    <2>9. ultima' \in [Transmissoes -> [gmv: Gmv \cup {0}, serena: BOOLEAN, fim: BOOLEAN]]
        BY <1>t, <2>1 DEF ComissoesTypeOK
    <2>10. edicoes' \in 0..MaxEdicoes /\ \A m \in Transmissoes \ {l} : ultima'[m] = ultima[m]
        BY <1>v, <2>1
    <2>11. /\ iniciada' \in [Transmissoes -> Meses]
           /\ \A m \in Transmissoes \ {l} : iniciada'[m] = iniciada[m]
        BY <1>v, <2>2
    <2> QED BY <2>1, <2>5, <2>7, <2>8, <2>9, <2>10, <2>11, PassoDePessoa
<1>2. CASE MudarElenco(l)
    <2>1. EditarUmaVez /\ Perturbar(l)
          /\ UNCHANGED <<mesAtual, iniciada, encerradas, vendas, calculo>>
        BY <1>2 DEF MudarElenco
    <2>2. PICK q \in Apresentadoras :
            elenco' = [elenco EXCEPT ![l] = IF q \in @ THEN @ \ {q} ELSE @ \cup {q}]
        BY <1>2 DEF MudarElenco
    <2>3. /\ elenco' \in [Transmissoes -> SUBSET Apresentadoras]
          /\ \A m \in Transmissoes \ {l} : elenco'[m] = elenco[m]
        BY <1>v, <2>2
    <2>4. /\ ultima' \in [Transmissoes -> [gmv: Gmv \cup {0}, serena: BOOLEAN, fim: BOOLEAN]]
          /\ ultima'[l].serena = FALSE /\ \A m \in Transmissoes \ {l} : ultima'[m] = ultima[m]
        BY <1>t, <2>1, UltimaPerturbada
    <2>5. /\ vendas' \in [Chaves -> Venda] /\ edicoes' \in 0..MaxEdicoes
          /\ \A m \in Transmissoes \ {l}, a \in Creditaveis : VendaDe(m, a)' = VendaDe(m, a)
        BY <1>v, <1>e, <1>i, <2>1
    <2> QED BY <1>v, <2>1, <2>3, <2>4, <2>5, PassoDePessoa
<1>3. ASSUME NEW p \in Creditaveis, AlterarVenda(<<l, p>>) PROVE ComissoesInv'
    <2>0. <<l, p>>[1] = l
        OBVIOUS
    <2>1. EditarUmaVez /\ Perturbar(l)
          /\ UNCHANGED <<mesAtual, iniciada, encerradas, elenco, calculo>>
        BY <1>3, <2>0, Zenon DEF AlterarVenda
    <2>2. PICK g \in Gmv, q \in Meses : vendas' = Gravada(<<l, p>>, g, q)
        BY <1>3 DEF AlterarVenda
    <2>3. /\ vendas' \in [Chaves -> Venda]
          /\ \A m \in Transmissoes \ {l}, a \in Creditaveis : VendaDe(m, a)' = VendaDe(m, a)
        BY <1>t, <2>2, VendaGravada
    <2>4. /\ ultima' \in [Transmissoes -> [gmv: Gmv \cup {0}, serena: BOOLEAN, fim: BOOLEAN]]
          /\ ultima'[l].serena = FALSE /\ \A m \in Transmissoes \ {l} : ultima'[m] = ultima[m]
        BY <1>t, <2>1, UltimaPerturbada
    <2>5. elenco' \in [Transmissoes -> SUBSET Apresentadoras] /\ edicoes' \in 0..MaxEdicoes
        BY <1>v, <1>e, <2>1
    <2> QED BY <1>v, <2>1, <2>3, <2>4, <2>5, PassoDePessoa
<1>4. ASSUME NEW p \in Creditaveis, Decidir(<<l, p>>) PROVE ComissoesInv'
    <2>0. <<l, p>>[1] = l
        OBVIOUS
    <2>1. Perturbar(l)
          /\ UNCHANGED <<mesAtual, iniciada, encerradas, elenco, calculo, edicoes>>
        BY <1>4, <2>0, Zenon DEF Decidir
    <2>2. PICK s \in {"aprovada", "reprovada"} : vendas' = [vendas EXCEPT ![<<l, p>>].status = s]
        BY <1>4 DEF Decidir
    <2>3. VendaDe(l, p) \in Venda
        BY <1>v, VendaTipada
    <2> DEFINE x == [VendaDe(l, p) EXCEPT !.status = s]
    <2>4. x \in Venda
        BY <2>3 DEF Venda, StatusVenda
    <2>5. vendas' = [vendas EXCEPT ![<<l, p>>] = x]
        BY <2>2 DEF VendaDe
    <2>6. PICK y \in Venda : y = x
        BY <2>4
    <2>7. vendas' = [vendas EXCEPT ![<<l, p>>] = y]
        BY <2>5, <2>6
    <2>8. /\ vendas' \in [Chaves -> Venda]
          /\ \A m \in Transmissoes \ {l}, a \in Creditaveis : VendaDe(m, a)' = VendaDe(m, a)
        BY <1>v, <2>7, VendaTrocada
    <2>9. /\ ultima' \in [Transmissoes -> [gmv: Gmv \cup {0}, serena: BOOLEAN, fim: BOOLEAN]]
          /\ ultima'[l].serena = FALSE /\ \A m \in Transmissoes \ {l} : ultima'[m] = ultima[m]
        BY <1>t, <2>1, UltimaPerturbada
    <2>10. elenco' \in [Transmissoes -> SUBSET Apresentadoras] /\ edicoes' \in 0..MaxEdicoes
        BY <1>v, <2>1
    <2> QED BY <1>v, <2>1, <2>8, <2>9, <2>10, PassoDePessoa
<1>5. CASE EditarLive(l) /\ Perturbar(l) /\ UNCHANGED calculo
    <2>1. EditarUmaVez /\ UNCHANGED <<mesAtual, encerradas, elenco, vendas>>
        BY <1>5 DEF EditarLive
    <2>2. PICK q \in Meses : iniciada' = [iniciada EXCEPT ![l] = q]
        BY <1>5 DEF EditarLive
    <2>3. /\ iniciada' \in [Transmissoes -> Meses]
          /\ \A m \in Transmissoes \ {l} : iniciada'[m] = iniciada[m]
        BY <1>v, <2>2
    <2>4. /\ ultima' \in [Transmissoes -> [gmv: Gmv \cup {0}, serena: BOOLEAN, fim: BOOLEAN]]
          /\ ultima'[l].serena = FALSE /\ \A m \in Transmissoes \ {l} : ultima'[m] = ultima[m]
        BY <1>t, <1>5, UltimaPerturbada
    <2>5. /\ vendas' \in [Chaves -> Venda] /\ edicoes' \in 0..MaxEdicoes
          /\ elenco' \in [Transmissoes -> SUBSET Apresentadoras]
          /\ \A m \in Transmissoes \ {l}, a \in Creditaveis : VendaDe(m, a)' = VendaDe(m, a)
        BY <1>v, <1>e, <1>i, <2>1
    <2> QED BY <1>5, <2>1, <2>3, <2>4, <2>5, PassoDePessoa
<1> QED BY <1>1, <1>2, <1>3, <1>4, <1>5

----------------------------------------------------------------------------
(* The steps of calculation c, of live l. *)

\* Calculation c moves to e, of the same live or free.
LEMMA PassoDeUmCalculo ==
    ASSUME ComissoesInv, NEW c \in Calculos, NEW l \in Transmissoes, calculo[c].live = l,
           NEW e \in Calculo, calculo' = [calculo EXCEPT ![c] = e],
           (e.pc # "livre" /\ e.live = l) \/ (e.pc = "livre" /\ e.live = SemAp),
           UNCHANGED <<mesAtual, iniciada, encerradas, elenco>>,
           ultima' \in [Transmissoes -> [gmv: Gmv \cup {0}, serena: BOOLEAN, fim: BOOLEAN]],
           \A m \in Transmissoes \ {l} : ultima'[m] = ultima[m],
           vendas' \in [Chaves -> Venda],
           \A m \in Transmissoes \ {l}, a \in Creditaveis : VendaDe(m, a)' = VendaDe(m, a),
           edicoes' \in 0..MaxEdicoes
    PROVE  /\ calculo'[c] = e /\ \A d \in Calculos \ {c} : calculo'[d] = calculo[d]
           /\ ComissoesTypeOK'
           /\ LiveCoerente(l)' /\ VeComo(l) => ComissoesInv'
<1>t. ComissoesTypeOK /\ CalculoDeLive
    BY DEF ComissoesInv
<1>1. calculo \in [Calculos -> Calculo]
    BY <1>t DEF ComissoesTypeOK
<1>2. /\ calculo' \in [Calculos -> Calculo] /\ calculo'[c] = e
      /\ \A d \in Calculos \ {c} : calculo'[d] = calculo[d]
    BY <1>1, CalculoTrocado
<1>3. ComissoesTypeOK'
    BY <1>t, <1>2 DEF ComissoesTypeOK
<1>4. CalculoDeLive'
    BY <1>t, <1>2 DEF CalculoDeLive
<1>5. \A m \in Transmissoes \ {l} : Intocada(m)
    BY <1>2, SemApNova DEF Intocada
<1> QED BY <1>2, <1>3, <1>4, <1>5, UmaLive

LEMMA PassoLerElenco ==
    ASSUME ComissoesInv, NEW c \in Calculos, NEW l \in Transmissoes, calculo[c].live = l,
           LerElenco(c)
    PROVE  ComissoesInv'
<1>t. ComissoesTypeOK /\ LiveCoerente(l)
    BY DEF ComissoesInv
<1>1. /\ calculo[c].pc = "elenco"
      /\ calculo' = [calculo EXCEPT ![c].pc = "lendo", ![c].mes = iniciada[l],
                                         ![c].fila = Creditadas(l)]
      /\ UNCHANGED <<mesAtual, iniciada, encerradas, elenco, vendas, ultima, edicoes>>
    BY DEF LerElenco
<1> DEFINE f == [calculo[c] EXCEPT !.pc = "lendo", !.mes = iniciada[l], !.fila = Creditadas(l)]
<1>2. calculo[c] \in Calculo /\ Creditadas(l) \subseteq Creditaveis /\ iniciada[l] \in Meses
    BY <1>t, Tipos DEF ComissoesTypeOK
<1>3. /\ f \in Calculo /\ f.pc = "lendo" /\ f.fila = Creditadas(l) /\ f.live = l
      /\ f.gmv = calculo[c].gmv /\ f.mes = iniciada[l]
    BY <1>2 DEF Calculo
<1>4. calculo' = [calculo EXCEPT ![c] = f]
    BY <1>1, <1>t DEF ComissoesTypeOK
<1>5. PICK e \in Calculo : e = f
    BY <1>3
<1> HIDE DEF f
<1>6. /\ vendas' \in [Chaves -> Venda] /\ edicoes' \in 0..MaxEdicoes
      /\ ultima' \in [Transmissoes -> [gmv: Gmv \cup {0}, serena: BOOLEAN, fim: BOOLEAN]]
    BY <1>t, <1>1 DEF ComissoesTypeOK
<1>7. \A m, a : VendaDe(m, a)' = VendaDe(m, a)
    BY <1>1 DEF VendaDe
<1>h. /\ calculo' = [calculo EXCEPT ![c] = e] /\ e.pc # "livre" /\ e.live = l
      /\ UNCHANGED <<mesAtual, iniciada, encerradas, elenco>>
      /\ \A m \in Transmissoes \ {l} : ultima'[m] = ultima[m]
      /\ \A m \in Transmissoes \ {l}, b \in Creditaveis : VendaDe(m, b)' = VendaDe(m, b)
    BY <1>1, <1>3, <1>4, <1>5, <1>7
<1>8. /\ calculo'[c] = e /\ \A d \in Calculos \ {c} : calculo'[d] = calculo[d]
      /\ LiveCoerente(l)' /\ VeComo(l) => ComissoesInv'
    BY <1>6, <1>h, PassoDeUmCalculo
<1>9. Creditadas(l)' = Creditadas(l) /\ \A a : VendaEm(l, a)' <=> VendaEm(l, a)
    BY <1>1, <1>7 DEF Creditadas, VendaEm
<1>10. EmCalculo(l)' /\ EmCalculo(l)
    BY <1>3, <1>5, <1>8 DEF EmCalculo
<1>11. ultima[l].serena => CalculoEmDia(c, l)'
    BY <1>t, <1>1, <1>3, <1>5, <1>8, <1>9 DEF LiveCoerente, CalculoEmDia
<1>12. \A d \in Calculos : calculo'[d].live = l <=> calculo[d].live = l
    BY <1>3, <1>5, <1>8
<1>13. LiveCoerente(l)'
    BY <1>t, <1>1, <1>7, <1>10, <1>11, <1>12 DEF LiveCoerente
<1>14. ASSUME NEW m \in Transmissoes \ {l}, Par(l, m)' PROVE Vista(l)'
    <2>1. PrincipalDe[l] # SemAp
        BY <1>14 DEF Par
    <2>2. PrincipalDe[l] \in Creditadas(l)
        BY <2>1 DEF Creditadas
    <2> QED BY <1>3, <1>5, <1>8, <2>2 DEF Vista, PorLer
<1> QED BY <1>8, <1>13, <1>14 DEF VeComo

LEMMA PassoLerVenda ==
    ASSUME ComissoesInv, NEW c \in Calculos, NEW l \in Transmissoes, calculo[c].live = l,
           LerVenda(c)
    PROVE  ComissoesInv'
<1>t. ComissoesTypeOK /\ LiveCoerente(l)
    BY DEF ComissoesInv
<1>1. PICK a \in calculo[c].fila :
        calculo' = [calculo EXCEPT ![c] = [calculo[c] EXCEPT
                            !.pc = "gravando", !.fila = @ \ {a}, !.alvo = a,
                            !.lida = vendas[<<calculo[c].live, a>>].status,
                            !.faixa = Faixa(calculo[c].live, a, calculo[c].gmv, calculo[c].mes)]]
    BY DEF LerVenda
<1>u. calculo[c].pc = "lendo" /\ UNCHANGED <<mesAtual, iniciada, encerradas, elenco, vendas, ultima, edicoes>>
    BY DEF LerVenda
<1>2. calculo[c] \in Calculo /\ calculo[c].fila \subseteq Creditaveis
    BY <1>t, Tipos
<1>a. a \in Creditaveis
    BY <1>2
<1>v. VendaDe(l, a) \in Venda
    BY <1>t, <1>a, VendaTipada DEF ComissoesTypeOK
<1>s. VendaDe(l, a).status \in StatusVenda
    BY <1>v DEF Venda
<1>f. Faixa(l, a, calculo[c].gmv, calculo[c].mes) \in Faixas
    BY DEF Faixa, Faixas
<1>z. PICK st \in StatusVenda, fx \in Faixas :
        st = VendaDe(l, a).status /\ fx = Faixa(l, a, calculo[c].gmv, calculo[c].mes)
    BY <1>s, <1>f
<1> DEFINE f == [calculo[c] EXCEPT !.pc = "gravando", !.fila = @ \ {a}, !.alvo = a,
                                   !.lida = st, !.faixa = fx]
<1>3. /\ f \in Calculo /\ f.pc = "gravando" /\ f.fila = calculo[c].fila \ {a}
      /\ f.alvo = a /\ f.lida = st /\ f.faixa = fx /\ f.live = l /\ f.gmv = calculo[c].gmv
      /\ f.mes = calculo[c].mes
    BY <1>2, <1>a DEF Calculo
<1>4. calculo' = [calculo EXCEPT ![c] = f]
    BY <1>1, <1>z DEF VendaDe
<1>5. PICK e \in Calculo : e = f
    BY <1>3
<1> HIDE DEF f
<1>6. /\ vendas' \in [Chaves -> Venda] /\ edicoes' \in 0..MaxEdicoes
      /\ ultima' \in [Transmissoes -> [gmv: Gmv \cup {0}, serena: BOOLEAN, fim: BOOLEAN]]
    BY <1>t, <1>u DEF ComissoesTypeOK
<1>7. \A m, b : VendaDe(m, b)' = VendaDe(m, b)
    BY <1>u DEF VendaDe
<1>h. /\ calculo' = [calculo EXCEPT ![c] = e] /\ e.pc # "livre" /\ e.live = l
      /\ UNCHANGED <<mesAtual, iniciada, encerradas, elenco>>
      /\ \A m \in Transmissoes \ {l} : ultima'[m] = ultima[m]
      /\ \A m \in Transmissoes \ {l}, b \in Creditaveis : VendaDe(m, b)' = VendaDe(m, b)
    BY <1>u, <1>3, <1>4, <1>5, <1>7
<1>8. /\ calculo'[c] = e /\ \A d \in Calculos \ {c} : calculo'[d] = calculo[d]
      /\ LiveCoerente(l)' /\ VeComo(l) => ComissoesInv'
    BY <1>6, <1>h, PassoDeUmCalculo
<1>9. Creditadas(l)' = Creditadas(l) /\ \A b : VendaEm(l, b)' <=> VendaEm(l, b)
    BY <1>u, <1>7 DEF Creditadas, VendaEm
<1>10. EmCalculo(l)' /\ EmCalculo(l)
    BY <1>3, <1>5, <1>8 DEF EmCalculo
<1>11. ASSUME ultima[l].serena PROVE CalculoEmDia(c, l)'
    <2>1. CalculoEmDia(c, l)
        BY <1>t, <1>11 DEF LiveCoerente
    <2>2. calculo'[c].lida = VendaDe(l, a)'.status /\ calculo'[c].alvo = a
        BY <1>3, <1>5, <1>7, <1>8, <1>z
    <2>3. calculo'[c].lida = VendaDe(l, calculo[c].alvo)'.status
        BY <2>2 DEF VendaDe
    <2>4. calculo'[c].fila = calculo[c].fila \ {a} /\ calculo'[c].pc = "gravando"
          /\ calculo'[c].gmv = calculo[c].gmv /\ calculo'[c].mes = calculo[c].mes
        BY <1>3, <1>5, <1>8
    <2> QED BY <1>u, <1>9, <2>1, <2>2, <2>3, <2>4 DEF CalculoEmDia
<1>12. \A d \in Calculos : calculo'[d].live = l <=> calculo[d].live = l
    BY <1>3, <1>5, <1>8
<1>13. LiveCoerente(l)'
    BY <1>t, <1>u, <1>7, <1>10, <1>11, <1>12 DEF LiveCoerente
<1>14. ASSUME NEW m \in Transmissoes \ {l}, Par(l, m)'
       PROVE Vista(l)' \/ (Par(l, m) /\ (Vista(l) => Vista(l)'))
    <2>1. Par(l, m)
        BY <1>14, <1>u DEF Par
\* The main presenter's sale is read: the other live's is in the month.
    <2>2. CASE a = PrincipalDe[l]
        <3>1. ultima[l].serena /\ ultima[m].serena /\ ultima[m].fim /\ a # SemAp
              /\ PrincipalDe[m] = a /\ ultima[l].gmv + ultima[m].gmv >= Corte
            BY <2>1, <2>2 DEF Par
        <3>2. calculo[c].gmv = ultima[l].gmv /\ calculo[c].mes = iniciada[l]
            BY <1>t, <1>u, <3>1 DEF LiveCoerente, CalculoEmDia
        <3>3. VendaDe(m, a).gmv = ultima[m].gmv /\ VendaDe(m, a).mes = calculo[c].mes
            BY <2>1, <3>1, <3>2 DEF ComissoesInv, LiveCoerente, Par
        <3>4. /\ GmvAcumuladoMes(l, a, calculo[c].mes) \in Nat
              /\ GmvAcumuladoMes(l, a, calculo[c].mes) >= VendaDe(m, a).gmv
            BY <1>t, <1>a, <3>3, AcumuladoCobre DEF ComissoesTypeOK
        <3>5. ultima[l].gmv \in Nat /\ ultima[m].gmv \in Nat
            <4>1. \A n \in Gmv \cup {0} : n \in Nat
                BY GmvNatural
            <4> QED BY <1>t, <4>1, Tipos
        <3>6. GmvAcumuladoMes(l, a, calculo[c].mes) + calculo[c].gmv >= Corte
            BY <3>1, <3>2, <3>3, <3>4, <3>5, GmvNatural
        <3>7. Faixa(l, a, calculo[c].gmv, calculo[c].mes) = "alta"
            BY <3>1, <3>6 DEF Faixa
        <3>8. calculo'[c].faixa = "alta" /\ Gravando(c, l)'
            BY <1>3, <1>5, <1>8, <1>z, <2>2, <3>7 DEF Gravando
        <3> QED BY <3>8 DEF Vista, AltaLida
    <2>3. CASE a # PrincipalDe[l]
        <3>1. PorLer(l)' <=> PorLer(l)
            BY <1>u, <1>3, <1>5, <1>8, <2>3 DEF PorLer
        <3>2. \A d \in Calculos : Gravando(d, l)' <=> Gravando(d, l)
            BY <1>u, <1>3, <1>5, <1>8, <2>3 DEF Gravando
        <3>3. AltaLida(l)' <=> AltaLida(l)
            <4>1. ~Gravando(c, l)
                BY <1>u DEF Gravando
            <4> QED BY <1>8, <3>2, <4>1 DEF AltaLida
        <3> QED BY <1>7, <2>1, <3>1, <3>2, <3>3 DEF Vista, AltaGravada
    <2> QED BY <2>2, <2>3
<1> QED BY <1>8, <1>13, <1>14 DEF VeComo

LEMMA PassoGravarVenda ==
    ASSUME ComissoesInv, NEW c \in Calculos, NEW l \in Transmissoes, calculo[c].live = l,
           GravarVenda(c)
    PROVE  ComissoesInv'
<1>t. ComissoesTypeOK /\ LiveCoerente(l)
    BY DEF ComissoesInv
<1>2. calculo[c] \in Calculo /\ calculo[c].alvo \in Creditaveis
    BY <1>t, Tipos
<1>p. PICK p \in Creditaveis : p = calculo[c].alvo
    BY <1>2
<1>u. /\ calculo[c].pc = "gravando" 
      /\ UNCHANGED <<mesAtual, iniciada, encerradas, elenco, ultima, edicoes>>
      /\ calculo' = [calculo EXCEPT ![c].pc = "lendo"]
    BY DEF GravarVenda
<1>1. vendas' = IF calculo[c].lida # "aprovada" THEN [vendas EXCEPT ![<<l, p>>] = Recalculada(c)]
                ELSE vendas
    BY <1>p DEF GravarVenda, Substituivel
<1> DEFINE f == [calculo[c] EXCEPT !.pc = "lendo"]
<1>3. /\ f \in Calculo /\ f.pc = "lendo" /\ f.fila = calculo[c].fila /\ f.live = l
      /\ f.gmv = calculo[c].gmv /\ f.mes = calculo[c].mes
    BY <1>2 DEF Calculo
<1>4. calculo' = [calculo EXCEPT ![c] = f]
    BY <1>u, <1>t DEF ComissoesTypeOK
<1>5. PICK e \in Calculo : e = f
    BY <1>3
<1> HIDE DEF f
<1>v. PICK y \in Venda : y = Recalculada(c)
    BY <1>2 DEF Recalculada, Venda, Calculo, StatusVenda
<1>y. /\ y.status = "pendente_aprovacao" /\ y.gmv = calculo[c].gmv
      /\ y.faixa = calculo[c].faixa /\ y.mes = calculo[c].mes
    BY <1>v DEF Recalculada
<1>x. vendas \in [Chaves -> Venda]
    BY <1>t DEF ComissoesTypeOK
\* The sale of p is the calculated one, or the approved one that was read.
<1>g. /\ vendas' \in [Chaves -> Venda]
      /\ calculo[c].lida # "aprovada" => VendaDe(l, p)' = y
      /\ calculo[c].lida = "aprovada" => VendaDe(l, p)' = VendaDe(l, p)
      /\ \A m \in Transmissoes, a \in Creditaveis :
            m # l \/ a # p => VendaDe(m, a)' = VendaDe(m, a)
    <2>1. CASE calculo[c].lida = "aprovada"
        <3>1. vendas' = vendas
            BY <1>1, <2>1
        <3> QED BY <1>x, <2>1, <3>1 DEF VendaDe
    <2>2. CASE calculo[c].lida # "aprovada"
        <3>1. vendas' = [vendas EXCEPT ![<<l, p>>] = y]
            BY <1>1, <1>v, <2>2
        <3> QED BY <1>x, <2>2, <3>1, VendaTrocada
    <2> QED BY <2>1, <2>2
<1>6. /\ edicoes' \in 0..MaxEdicoes
      /\ ultima' \in [Transmissoes -> [gmv: Gmv \cup {0}, serena: BOOLEAN, fim: BOOLEAN]]
    BY <1>t, <1>u DEF ComissoesTypeOK
<1>h. /\ calculo' = [calculo EXCEPT ![c] = e] /\ e.pc # "livre" /\ e.live = l
      /\ UNCHANGED <<mesAtual, iniciada, encerradas, elenco>>
      /\ \A m \in Transmissoes \ {l} : ultima'[m] = ultima[m]
      /\ \A m \in Transmissoes \ {l}, b \in Creditaveis : VendaDe(m, b)' = VendaDe(m, b)
    BY <1>u, <1>3, <1>4, <1>5, <1>g
<1>8. /\ calculo'[c] = e /\ \A d \in Calculos \ {c} : calculo'[d] = calculo[d]
      /\ LiveCoerente(l)' /\ VeComo(l) => ComissoesInv'
    BY <1>6, <1>g, <1>h, PassoDeUmCalculo
<1>e. e.pc = "lendo" /\ e.fila = calculo[c].fila /\ e.live = l /\ e.gmv = calculo[c].gmv
      /\ e.mes = calculo[c].mes
    BY <1>3, <1>5
<1>10. EmCalculo(l)' /\ EmCalculo(l)
    BY <1>8, <1>e DEF EmCalculo
<1>c. Creditadas(l)' = Creditadas(l) /\ Creditadas(l) \subseteq Creditaveis
    BY <1>t, <1>u, Tipos DEF Creditadas
<1>r. ASSUME ultima[l].serena
      PROVE  /\ calculo[c].gmv = ultima[l].gmv /\ calculo[c].lida = VendaDe(l, p).status
             /\ calculo[c].mes = iniciada[l]
             /\ \A a \in Creditadas(l) : a \in calculo[c].fila \/ a = p \/ VendaEm(l, a)
    BY <1>r, <1>t, <1>u, <1>p DEF LiveCoerente, CalculoEmDia
<1>11. ASSUME ultima[l].serena PROVE CalculoEmDia(c, l)'
    <2>1. VendaEm(l, p)'
        BY <1>11, <1>r, <1>g, <1>u, <1>y DEF VendaEm
    <2>2. ASSUME NEW a \in Creditadas(l), a \notin calculo[c].fila PROVE VendaEm(l, a)'
        <3>1. CASE a = p
            BY <2>1, <3>1
        <3>2. CASE a # p
            <4>1. VendaDe(l, a)' = VendaDe(l, a) /\ VendaEm(l, a)
                BY <1>11, <1>c, <1>g, <1>r, <2>2, <3>2
            <4> QED BY <1>u, <4>1 DEF VendaEm
        <3> QED BY <3>1, <3>2
    <2> QED BY <1>11, <1>r, <1>u, <1>c, <1>8, <1>e, <2>2 DEF CalculoEmDia
<1>12. \A d \in Calculos : calculo'[d].live = l <=> calculo[d].live = l
    BY <1>8, <1>e
<1>13. ASSUME ultima[l].serena, ultima[l].fim
       PROVE /\ VendaDe(l, PrincipalDe[l])'.gmv = ultima[l].gmv
             /\ VendaDe(l, PrincipalDe[l])'.mes = iniciada[l]
    <2>1. /\ VendaDe(l, PrincipalDe[l]).gmv = ultima[l].gmv
          /\ VendaDe(l, PrincipalDe[l]).mes = iniciada[l]
        BY <1>13, <1>t DEF LiveCoerente
    <2>2. PICK q \in Creditaveis : q = PrincipalDe[l]
        BY <1>t, Tipos
    <2>3. VendaDe(l, q)'.gmv = ultima[l].gmv /\ VendaDe(l, q)'.mes = iniciada[l]
        BY <1>13, <1>r, <1>g, <1>y, <2>1, <2>2
    <2> QED BY <2>2, <2>3
<1>14. LiveCoerente(l)'
    BY <1>t, <1>u, <1>10, <1>11, <1>12, <1>13 DEF LiveCoerente
<1>15. ASSUME ultima[l].serena, Vista(l) PROVE Vista(l)'
    <2>0. PICK q \in Creditaveis : q = PrincipalDe[l]
        BY <1>t, Tipos
    <2>u. \A d \in Calculos : calculo[d].live = l => d = c
        BY <1>15, <1>t DEF LiveCoerente
    <2>1. CASE q \in calculo[c].fila
        BY <1>8, <1>e, <2>0, <2>1 DEF Vista, PorLer
    <2>2. CASE q \notin calculo[c].fila
        <3>1. ~PorLer(l)
            BY <1>u, <2>0, <2>2, <2>u DEF PorLer
        <3>2. ~PorLer(l)' /\ \A d \in Calculos : ~Gravando(d, l)'
            BY <1>8, <1>12, <1>e, <2>0, <2>2, <2>u DEF PorLer, Gravando
        <3>3. VendaDe(l, q)'.status = "aprovada" \/ VendaDe(l, q)'.faixa = "alta"
            <4>1. CASE p = q
                <5>1. calculo[c].lida = "aprovada" \/ calculo[c].faixa = "alta"
                    <6>1. Gravando(c, l)
                        BY <1>u, <1>p, <2>0, <4>1 DEF Gravando
                    <6>2. AltaLida(l)
                        BY <1>15, <3>1, <6>1 DEF Vista, AltaGravada
                    <6> QED BY <2>u, <6>2 DEF AltaLida, Gravando
                <5> QED BY <1>15, <1>g, <1>r, <1>y, <4>1, <5>1
            <4>2. CASE p # q
                <5>1. ~AltaLida(l)
                    BY <1>p, <2>0, <2>u, <4>2 DEF AltaLida, Gravando
                <5>2. VendaDe(l, q).status = "aprovada" \/ VendaDe(l, q).faixa = "alta"
                    BY <1>15, <2>0, <3>1, <5>1 DEF Vista, AltaGravada
                <5> QED BY <1>g, <4>2, <5>2
            <4> QED BY <4>1, <4>2
        <3> QED BY <2>0, <3>2, <3>3 DEF Vista, AltaGravada
    <2> QED BY <2>1, <2>2
<1>16. VeComo(l)
    <2> SUFFICES ASSUME NEW m \in Transmissoes \ {l}, Par(l, m)'
                 PROVE  Par(l, m) /\ (Vista(l) => Vista(l)')
        BY DEF VeComo
    <2>1. Par(l, m) /\ ultima[l].serena
        BY <1>u DEF Par
    <2> QED BY <1>15, <2>1
<1> QED BY <1>8, <1>14, <1>16

LEMMA PassoAbandonar ==
    ASSUME ComissoesInv, NEW c \in Calculos, NEW l \in Transmissoes, calculo[c].live = l,
           AbandonarCalculo(c)
    PROVE  ComissoesInv'
<1>t. ComissoesTypeOK /\ LiveCoerente(l)
    BY DEF ComissoesInv
<1>1. /\ calculo' = [calculo EXCEPT ![c] = CalculoLivre]
      /\ UNCHANGED <<mesAtual, iniciada, encerradas, elenco, vendas>> /\ Perturbar(l)
      /\ UNCHANGED edicoes \/ EditarUmaVez
    BY DEF AbandonarCalculo
<1>2. /\ ultima' \in [Transmissoes -> [gmv: Gmv \cup {0}, serena: BOOLEAN, fim: BOOLEAN]]
      /\ ultima'[l].serena = FALSE /\ \A m \in Transmissoes \ {l} : ultima'[m] = ultima[m]
    BY <1>t, <1>1, UltimaPerturbada
<1>3. vendas' \in [Chaves -> Venda] /\ \A m, a : VendaDe(m, a)' = VendaDe(m, a)
    BY <1>t, <1>1 DEF ComissoesTypeOK, VendaDe
<1>4. edicoes' \in 0..MaxEdicoes
    BY <1>t, <1>1, GmvNatural DEF ComissoesTypeOK, EditarUmaVez
<1>5. PICK e \in Calculo : e = CalculoLivre
    BY CalculoLivreTipado
<1>h. /\ calculo' = [calculo EXCEPT ![c] = e] /\ e.pc = "livre" /\ e.live = SemAp
      /\ \A m \in Transmissoes \ {l}, b \in Creditaveis : VendaDe(m, b)' = VendaDe(m, b)
    BY <1>1, <1>3, <1>5, CalculoLivreTipado
<1>8. LiveCoerente(l)' /\ VeComo(l) => ComissoesInv'
    BY <1>1, <1>2, <1>3, <1>4, <1>h, PassoDeUmCalculo
<1>9. l \in encerradas'
    BY <1>1, <1>t DEF LiveCoerente, EmCalculo
<1> QED BY <1>2, <1>8, <1>9, LivePerturbada

LEMMA PassoConcluir ==
    ASSUME ComissoesInv, NEW c \in Calculos, NEW l \in Transmissoes, calculo[c].live = l,
           ConcluirCalculo(c)
    PROVE  ComissoesInv'
<1>t. ComissoesTypeOK /\ LiveCoerente(l)
    BY DEF ComissoesInv
<1>u. /\ calculo[c].pc = "lendo" /\ calculo[c].fila = {}
      /\ calculo' = [calculo EXCEPT ![c] = CalculoLivre]
      /\ UNCHANGED <<mesAtual, iniciada, encerradas, elenco, vendas, ultima, edicoes>>
    BY DEF ConcluirCalculo
<1>3. \A m, a : VendaDe(m, a)' = VendaDe(m, a)
    BY <1>u DEF VendaDe
<1>4. /\ vendas' \in [Chaves -> Venda] /\ edicoes' \in 0..MaxEdicoes
      /\ ultima' \in [Transmissoes -> [gmv: Gmv \cup {0}, serena: BOOLEAN, fim: BOOLEAN]]
    BY <1>t, <1>u DEF ComissoesTypeOK
<1>5. PICK e \in Calculo : e = CalculoLivre
    BY CalculoLivreTipado
<1>e. e.pc = "livre" /\ e.live = SemAp /\ e.fila = {}
    BY <1>5, CalculoLivreTipado
<1>h. /\ calculo' = [calculo EXCEPT ![c] = e] /\ UNCHANGED <<mesAtual, iniciada, encerradas, elenco>>
      /\ e.pc = "livre" /\ e.live = SemAp
      /\ \A m \in Transmissoes \ {l} : ultima'[m] = ultima[m]
      /\ \A m \in Transmissoes \ {l}, b \in Creditaveis : VendaDe(m, b)' = VendaDe(m, b)
    BY <1>u, <1>3, <1>5, <1>e
<1>8. /\ calculo'[c] = e /\ \A d \in Calculos \ {c} : calculo'[d] = calculo[d]
      /\ LiveCoerente(l)' /\ VeComo(l) => ComissoesInv'
    BY <1>4, <1>h, PassoDeUmCalculo
<1>9. Creditadas(l)' = Creditadas(l) /\ \A a : VendaEm(l, a)' <=> VendaEm(l, a)
    BY <1>u, <1>3 DEF Creditadas, VendaEm
<1>r. ASSUME ultima[l].serena
      PROVE  /\ \A d \in Calculos : calculo[d].live = l => d = c
             /\ \A a \in Creditadas(l) : VendaEm(l, a)
    BY <1>r, <1>t, <1>u DEF LiveCoerente, CalculoEmDia
<1>10. \A d \in Calculos : calculo'[d].live = l => calculo[d].live = l /\ d # c
    BY <1>8, <1>e, SemApNova
<1>11. LiveCoerente(l)'
    BY <1>t, <1>u, <1>3, <1>9, <1>10, <1>r DEF LiveCoerente, EmCalculo
<1>12. ASSUME ultima[l].serena, Vista(l) PROVE Vista(l)'
    <2>1. ~PorLer(l) /\ ~AltaLida(l)
        BY <1>12, <1>r, <1>u DEF PorLer, AltaLida, Gravando
    <2>2. ~PorLer(l)' /\ \A d \in Calculos : ~Gravando(d, l)'
        BY <1>12, <1>r, <1>10 DEF PorLer, Gravando
    <2> QED BY <1>3, <1>12, <2>1, <2>2 DEF Vista, AltaGravada
<1>13. VeComo(l)
    <2> SUFFICES ASSUME NEW m \in Transmissoes \ {l}, Par(l, m)'
                 PROVE  Par(l, m) /\ (Vista(l) => Vista(l)')
        BY DEF VeComo
    <2>1. Par(l, m) /\ ultima[l].serena
        BY <1>u DEF Par
    <2> QED BY <1>12, <2>1
<1> QED BY <1>8, <1>11, <1>13

LEMMA ComissoesPasso == ComissoesInv /\ [ComissoesNext]_varsComissoes => ComissoesInv'
<1> SUFFICES ASSUME ComissoesInv, [ComissoesNext]_varsComissoes PROVE ComissoesInv'
    OBVIOUS
<1>1. ASSUME NEW l \in Transmissoes,
             \/ EncerrarComVenda(l) \/ LancarManualComVenda(l)
             \/ EditarLive(l) \/ MudarElenco(l)
      PROVE ComissoesInv'
    <2>1. ASSUME EditarLive(l) PROVE ComissoesInv'
        <3>1. \/ \E g \in Gmv : Calcular(l, g, FALSE)
              \/ Perturbar(l) /\ UNCHANGED calculo
            BY <2>1 DEF EditarLive
        <3> QED BY <2>1, <3>1, PassoEditarLive, PassosDePessoas
    <2> QED BY <1>1, <2>1, PassoEncerrar, PassosDePessoas
<1>2. ASSUME NEW v \in Chaves, AlterarVenda(v) \/ Decidir(v) PROVE ComissoesInv'
    <2>1. PICK l \in Transmissoes, p \in Creditaveis : v = <<l, p>>
        BY DEF Chaves
    <2>2. AlterarVenda(<<l, p>>) \/ Decidir(<<l, p>>)
        BY <1>2, <2>1
    <2> QED BY <2>2, PassosDePessoas
<1>3. ASSUME NEW c \in Calculos, PassoDoCalculo(c) PROVE ComissoesInv'
    <2>1. calculo[c].pc # "livre"
        BY <1>3 DEF PassoDoCalculo, LerElenco, LerVenda, GravarVenda, AbandonarCalculo, ConcluirCalculo
    <2>2. PICK l \in Transmissoes : calculo[c].live = l
        BY <2>1 DEF ComissoesInv, CalculoDeLive
    <2> QED BY <1>3, <2>2, PassoLerElenco, PassoLerVenda, PassoGravarVenda, PassoAbandonar,
            PassoConcluir DEF PassoDoCalculo
<1>4. CASE VirarMes \/ UNCHANGED varsComissoes
    <2>u. UNCHANGED <<iniciada, encerradas, elenco, vendas, calculo, ultima, edicoes>>
        BY <1>4 DEF VirarMes, varsComissoes
    <2>m. mesAtual' \in Meses
        BY <1>4, UltimoMesPositivo
            DEF VirarMes, varsComissoes, ComissoesInv, ComissoesTypeOK, Meses
    <2> USE <2>u
    <2>1. ComissoesTypeOK' /\ CalculoDeLive'
        BY <2>m DEF ComissoesInv, ComissoesTypeOK, CalculoDeLive
    <2>2. \A m \in Transmissoes : Intocada(m)
        BY DEF Intocada, VendaDe
    <2>3. \A m \in Transmissoes : LiveCoerente(m)' /\ (Vista(m)' <=> Vista(m))
        BY <2>2, IntocadaCoerente, IntocadaVista DEF ComissoesInv
    <2>4. ParesVistos'
        BY <2>3 DEF ComissoesInv, ParesVistos, Par
    <2> QED BY <2>1, <2>3, <2>4 DEF ComissoesInv
<1> QED BY <1>1, <1>2, <1>3, <1>4 DEF ComissoesNext

----------------------------------------------------------------------------
\* The two properties, from the invariant.
LEMMA VendasAcompanham == ComissoesInv => VendaAcompanhaLive
<1> SUFFICES ASSUME ComissoesInv, NEW l \in Transmissoes, ultima[l].serena, ~EmCalculo(l),
                    NEW a \in Creditadas(l)
             PROVE  VendaEm(l, a)
    BY DEF VendaAcompanhaLive, VendaEm, VendaDe
<1> QED BY DEF ComissoesInv, LiveCoerente

LEMMA FinsVistos == ComissoesInv => FaixaDosFins
<1> SUFFICES ASSUME ComissoesInv, NEW l \in Transmissoes, NEW m \in Transmissoes,
                    l # m, PrincipalDe[m] = PrincipalDe[l], PrincipalDe[l] # SemAp,
                    iniciada[l] = iniciada[m],
                    FimCalculado(l), FimCalculado(m),
                    ~(VendaDe(l, PrincipalDe[l]).gmv + VendaDe(m, PrincipalDe[l]).gmv < Corte)
             PROVE  \/ VendaDe(l, PrincipalDe[l]).faixa = "alta"
                    \/ VendaDe(m, PrincipalDe[m]).faixa = "alta"
    BY DEF FaixaDosFins, VendaDe
<1>t. ComissoesTypeOK /\ ParesVistos /\ \A k \in Transmissoes : LiveCoerente(k)
    BY DEF ComissoesInv
<1>1. /\ ultima[l].serena /\ ultima[l].fim /\ ~EmCalculo(l)
      /\ VendaDe(l, PrincipalDe[l]).status # "aprovada"
      /\ ultima[m].serena /\ ultima[m].fim /\ ~EmCalculo(m)
      /\ VendaDe(m, PrincipalDe[m]).status # "aprovada"
    BY DEF FimCalculado, VendaDe
<1>2. /\ VendaDe(l, PrincipalDe[l]).gmv = ultima[l].gmv
      /\ VendaDe(m, PrincipalDe[m]).gmv = ultima[m].gmv
    BY <1>t, <1>1 DEF LiveCoerente
<1>3. ultima[l].gmv \in Nat /\ ultima[m].gmv \in Nat
    <2>1. \A n \in Gmv \cup {0} : n \in Nat
        BY GmvNatural
    <2> QED BY <1>t, <2>1, Tipos
<1>4. ~(ultima[l].gmv + ultima[m].gmv < Corte)
    BY <1>2
<1>5. ultima[l].gmv + ultima[m].gmv >= Corte
    BY <1>3, <1>4, GmvNatural
<1>6. Par(l, m)
    BY <1>1, <1>5 DEF Par
<1>7. Vista(l) \/ Vista(m)
    BY <1>t, <1>6 DEF ParesVistos
<1>8. /\ ~PorLer(l) /\ ~AltaLida(l) /\ ~PorLer(m) /\ ~AltaLida(m)
    BY <1>1 DEF EmCalculo, PorLer, AltaLida, Gravando
<1> QED BY <1>1, <1>7, <1>8 DEF Vista, AltaGravada

\* Only the engine takes an approval away, from a sale it read before it.
LEMMA AprovacaoPasso ==
    ASSUME ComissoesInv, ComissoesNext, NEW v \in Chaves,
           vendas[v].status = "aprovada", vendas'[v].status # "aprovada"
    PROVE  \/ vendas'[v].status = "reprovada"
           \/ \E c \in Calculos : /\ calculo[c].pc = "gravando"
                                  /\ v = <<calculo[c].live, calculo[c].alvo>>
                                  /\ calculo[c].lida # "aprovada"
<1>t. vendas \in [Chaves -> Venda]
    BY DEF ComissoesInv, ComissoesTypeOK
<1>1. ASSUME NEW w, NEW g, NEW q, vendas' = Gravada(w, g, q) PROVE FALSE
    BY <1>1, <1>t DEF Gravada
<1>2. ASSUME NEW w \in Chaves, Decidir(w) PROVE vendas'[v].status = "reprovada"
    <2>1. PICK p \in {"aprovada", "reprovada"} : vendas' = [vendas EXCEPT ![w].status = p]
        BY <1>2 DEF Decidir
    <2> QED BY <1>t, <2>1
<1>3. ASSUME NEW c \in Calculos, GravarVenda(c)
      PROVE  /\ calculo[c].pc = "gravando"
             /\ v = <<calculo[c].live, calculo[c].alvo>>
             /\ calculo[c].lida # "aprovada"
    <2>1. PICK w : w = <<calculo[c].live, calculo[c].alvo>>
        OBVIOUS
    <2>2. /\ calculo[c].pc = "gravando"
          /\ vendas' = IF calculo[c].lida # "aprovada" THEN [vendas EXCEPT ![w] = Recalculada(c)]
                       ELSE vendas
        BY <1>3, <2>1 DEF GravarVenda, Substituivel
    <2>3. calculo[c].lida # "aprovada" /\ v = w
        BY <1>t, <2>2
    <2> QED BY <2>1, <2>2, <2>3
<1>4. vendas' # vendas
    OBVIOUS
<1>5. ASSUME NEW l \in Transmissoes,
             \/ EncerrarComVenda(l) \/ LancarManualComVenda(l)
             \/ EditarLive(l) \/ MudarElenco(l)
      PROVE FALSE
    BY <1>1, <1>4, <1>5 DEF EncerrarComVenda, LancarManualComVenda, EditarLive, MudarElenco
<1>6. ASSUME NEW w \in Chaves, AlterarVenda(w) PROVE FALSE
    BY <1>1, <1>6 DEF AlterarVenda
<1>7. ASSUME NEW c \in Calculos, PassoDoCalculo(c) PROVE GravarVenda(c)
    BY <1>4, <1>7 DEF PassoDoCalculo, LerElenco, LerVenda, AbandonarCalculo, ConcluirCalculo
<1>8. ~VirarMes
    BY <1>4 DEF VirarMes
<1> QED BY <1>2, <1>3, <1>5, <1>6, <1>7, <1>8 DEF ComissoesNext

\* Sales, calculations and their bookkeeping keep their types.
THEOREM ComissoesTipo == ComissoesSpec => []ComissoesTypeOK
<1>1. ComissoesInv => ComissoesTypeOK
    BY DEF ComissoesInv
<1> QED BY <1>1, ComissoesInicial, ComissoesPasso, PTL DEF ComissoesSpec

\* After a calculation nothing disturbed every presenter of the live has the
\* GMV it was given (commission-engine.js and the end of a live in lives.js).
THEOREM VendaSempreAcompanha == ComissoesSpec => []VendaAcompanhaLive
    BY VendasAcompanham, ComissoesInicial, ComissoesPasso, PTL DEF ComissoesSpec

\* Two lives of one main presenter, begun and ended in one month, that reach
\* the high band together: one of them gets it, for any number of lives and
\* months (the total is the sum of the sales dated in the month).
THEOREM FaixaSempreDosFins == ComissoesSpec => []FaixaDosFins
    BY FinsVistos, ComissoesInicial, ComissoesPasso, PTL DEF ComissoesSpec

\* An approval is taken away only by a refusal or by a calculation that had
\* read the sale before it.
THEOREM AprovacaoSempreRespeitada == ComissoesSpec => AprovacaoRespeitada
<1>1. ComissoesInv /\ [ComissoesNext]_varsComissoes =>
        [\A v \in Chaves :
            vendas[v].status = "aprovada" /\ vendas'[v].status # "aprovada" =>
                \/ vendas'[v].status = "reprovada"
                \/ \E c \in Calculos : /\ calculo[c].pc = "gravando"
                                       /\ v = <<calculo[c].live, calculo[c].alvo>>
                                       /\ calculo[c].lida # "aprovada"]_varsComissoes
    BY AprovacaoPasso
<1> QED BY <1>1, ComissoesInicial, ComissoesPasso, PTL DEF ComissoesSpec, AprovacaoRespeitada

----------------------------------------------------------------------------
(* The components together. *)

\* Only the scene of a behaviour moves.
LEMMA GestaoPasso ==
    [GestaoNext]_<<cena, varsCobranca, varsComissoes, varsLeads, varsDisponibilidade>>
        => /\ [CobrancaNext]_varsCobranca /\ [ComissoesNext]_varsComissoes
           /\ [LeadsNext]_varsLeads /\ [DisponibilidadeNext]_varsDisponibilidade
    BY DEF GestaoNext, CenaCobranca, CenaComissoes, CenaLeads, CenaDisponibilidade

\* What holds of a component alone holds of it here.
LEMMA GestaoImplementa ==
    GestaoSpec => CobrancaSpec /\ ComissoesSpec /\ LeadsSpec /\ DisponibilidadeSpec
<1>1. GestaoInit => CobrancaInit /\ ComissoesInit /\ LeadsInit /\ DisponibilidadeInit
    BY DEF GestaoInit
<1> QED BY <1>1, GestaoPasso, PTL
        DEF GestaoSpec, CobrancaSpec, ComissoesSpec, LeadsSpec, DisponibilidadeSpec

\* Sales, leads and the calendar keep their types together.
THEOREM GestaoTipo == GestaoSpec => []GestaoTypeOK
<1>1. ComissoesTypeOK /\ LeadsTypeOK /\ DisponibilidadeTypeOK => GestaoTypeOK
    BY DEF GestaoTypeOK
<1> QED BY <1>1, GestaoImplementa, ComissoesTipo, LeadsTipo, DisponibilidadeTipo, PTL
=============================================================================
