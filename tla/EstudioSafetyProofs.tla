------------------------ MODULE EstudioSafetyProofs ------------------------
(***************************************************************************)
(* The safety of the studio, for every value of its constants: hours are   *)
(* deducted once and from the contract of the start, booths point only at  *)
(* lives that started in them, a live owns one agenda event, and the lives *)
(* follow CicloDaLive.                                                     *)
(***************************************************************************)
EXTENDS EstudioProofs, HistoricoDoEstudio

USE DEF OuNenhum

----------------------------------------------------------------------------
(* How one step may change lives and hours. *)

\* The status of a live moves forward, and ends at most once.
Avanca(l) ==
    \/ lives'[l].status = lives[l].status
    \/ lives[l].status = "nova" /\ lives'[l].status \in {"em_andamento", "encerrada"}
    \/ lives[l].status = "em_andamento" /\ lives'[l].status = "encerrada"
    \/ lives[l].status = "encerrada" /\ lives'[l].status = "excluida"

\* Encerrar is the only action that touches the hours; every action lets each
\* live move forward at most (the poller does because of AlvoDoPoller).
LEMMA PassoDasLives ==
    ASSUME TypeOK, AlvoDoPoller, [Next]_vars
    PROVE  /\ \A l \in Lives : Avanca(l)
           /\ horas' = horas \/ \E l \in Lives : Encerrar(l)
<1> USE DEF TypeOK, Avanca
<1>1. CASE lives' = lives /\ horas' = horas
  BY <1>1
<1>2. CASE NextLives
  <2>1. ASSUME NEW k \in Lives, NEW b \in Cabines, NEW tipo \in TiposDeLive,
               NEW c \in OuNenhum(Clientes), NEW e \in OuNenhum(TodosEventos),
               Iniciar(k, b, tipo, e, c)
        PROVE  horas' = horas /\ \A l \in Lives : Avanca(l)
    <3>1. lives[k].status = "nova" /\ horas' = horas
      BY <2>1 DEF Iniciar, Proxima
    <3>2. lives' = [lives EXCEPT ![k] =
                        [status |-> "em_andamento", cabine |-> b, origem |-> b]]
      BY <2>1 DEF Iniciar, IniciarCom
    <3> QED BY <3>1, <3>2
  <2>2. ASSUME NEW k \in Lives, NEW b \in Cabines, NEW tipo \in TiposDeLive,
               NEW c \in OuNenhum(Clientes), LancarManual(k, b, tipo, c)
        PROVE  horas' = horas /\ \A l \in Lives : Avanca(l)
    BY <2>2 DEF LancarManual, Proxima
  <2>3. ASSUME NEW k \in Lives, Encerrar(k) PROVE \A l \in Lives : Avanca(l)
    BY <2>3 DEF Encerrar, PodeEncerrar, Live
  <2>4. ASSUME NEW k \in Lives, NEW b \in Cabines, Editar(k, b)
        PROVE  horas' = horas /\ \A l \in Lives : Avanca(l)
    BY <2>4 DEF Editar, Live
  <2>5. ASSUME NEW k \in Lives, Excluir(k) PROVE horas' = horas /\ \A l \in Lives : Avanca(l)
    BY <2>5 DEF Excluir, PodeExcluir, Live
  <2> QED BY <1>2, <2>1, <2>2, <2>3, <2>4, <2>5 DEF NextLives
<1>3. CASE PollerEncerra
  <2>1. horas' = horas
    BY <1>3 DEF PollerEncerra
  <2>2. poller.live \in Lives /\ lives[poller.live].status # "nova"
    BY <1>3 DEF PollerEncerra, AlvoDoPoller
  <2>3. CASE lives[poller.live].status = "excluida"
    BY <1>3, <2>1, <2>3 DEF PollerEncerra
  <2>4. CASE lives[poller.live].status # "excluida"
    <3>1. lives[poller.live].status \in {"em_andamento", "encerrada"}
      BY <2>2, <2>4 DEF Live, StatusLive
    <3>2. lives' = [lives EXCEPT ![poller.live].status = "encerrada"]
      BY <1>3, <2>4 DEF PollerEncerra
    <3> QED BY <2>1, <2>2, <3>1, <3>2 DEF Live
  <2> QED BY <2>3, <2>4
<1>4. CASE NextCabines
  BY <1>1, <1>4 DEF NextCabines, Reservar, Liberar, MudarStatus, LerCabine, BuscarLive,
     CorrigirCabine
<1>5. CASE NextSolicitacoes \/ NextAgenda
  BY <1>1, <1>5 DEF NextSolicitacoes, NextAgenda, Solicitar,
    ValidarPedido, ValidarAprovacao, Aprovar,
     ValidarAgendamento, Agendar, VerificarRecusa, Recusar, CriarEvento, EditarEvento,
     ChegarAHora
<1>6. CASE NextContratos \/ PollerConsulta \/ PollerBusca \/ PollerLibera \/ Reiniciar
  BY <1>1, <1>6 DEF NextContratos, Ativar, Desativar, MudarCliente, PollerConsulta,
     PollerBusca, PollerLibera, Reiniciar
<1>7. CASE UNCHANGED vars
  BY <1>1, <1>7 DEF vars
<1> QED BY <1>2, <1>3, <1>4, <1>5, <1>6, <1>7 DEF Next, Atendimento, NextPoller
----------------------------------------------------------------------------
(* Links between booths and lives. *)

\* A live keeps its origin once it has started; one on air keeps its booth.
LEMMA OrigemFixa ==
    ASSUME TypeOK, [Next]_vars, NEW l \in Lives, lives[l].status # "nova"
    PROVE  /\ lives'[l].origem = lives[l].origem
           /\ lives'[l].status = "em_andamento" => lives'[l].cabine = lives[l].cabine
<1> USE DEF TypeOK
<1>1. CASE lives' = lives
  BY <1>1
<1>2. CASE NextLives
  <2>1. ASSUME NEW k \in Lives, NEW b \in Cabines, NEW tipo \in TiposDeLive,
               NEW c \in OuNenhum(Clientes), NEW e \in OuNenhum(TodosEventos),
               Iniciar(k, b, tipo, e, c)
        PROVE  lives'[l] = lives[l]
    BY <2>1 DEF Iniciar, IniciarCom, Proxima
  <2>2. ASSUME NEW k \in Lives, NEW b \in Cabines, NEW tipo \in TiposDeLive,
               NEW c \in OuNenhum(Clientes), LancarManual(k, b, tipo, c)
        PROVE  lives'[l] = lives[l]
    BY <2>2 DEF LancarManual, Proxima
  <2>3. ASSUME NEW k \in Lives, Encerrar(k)
        PROVE  lives'[l].origem = lives[l].origem /\ lives'[l].cabine = lives[l].cabine
    BY <2>3 DEF Encerrar, Live
  <2>4. ASSUME NEW k \in Lives, NEW b \in Cabines, Editar(k, b)
        PROVE  /\ lives'[l].origem = lives[l].origem
               /\ lives'[l].status = "em_andamento" => lives'[l].cabine = lives[l].cabine
    BY <2>4 DEF Editar, Live
  <2>5. ASSUME NEW k \in Lives, Excluir(k)
        PROVE  lives'[l].origem = lives[l].origem /\ lives'[l].cabine = lives[l].cabine
    BY <2>5 DEF Excluir, Live
  <2> QED BY <1>2, <2>1, <2>2, <2>3, <2>4, <2>5 DEF NextLives
<1>3. CASE PollerEncerra
  BY <1>3 DEF PollerEncerra, Live
<1>4. CASE NextCabines
  BY <1>1, <1>4 DEF NextCabines, Reservar, Liberar, MudarStatus, LerCabine, BuscarLive,
     CorrigirCabine
<1>5. CASE NextSolicitacoes \/ NextAgenda
  BY <1>1, <1>5 DEF NextSolicitacoes, NextAgenda, Solicitar,
    ValidarPedido, ValidarAprovacao, Aprovar,
     ValidarAgendamento, Agendar, VerificarRecusa, Recusar, CriarEvento, EditarEvento,
     ChegarAHora
<1>6. CASE NextContratos \/ PollerConsulta \/ PollerBusca \/ PollerLibera \/ Reiniciar
  BY <1>1, <1>6 DEF NextContratos, Ativar, Desativar, MudarCliente, PollerConsulta,
     PollerBusca, PollerLibera, Reiniciar
<1>7. CASE UNCHANGED vars
  BY <1>1, <1>7 DEF vars
<1> QED BY <1>2, <1>3, <1>4, <1>5, <1>6, <1>7 DEF Next, Atendimento, NextPoller

\* The rows of two booths tables agree where they are linked.
Solta(b) == cabine'[b].live = Nenhum \/ cabine'[b] = cabine[b]

\* No other action than these two creates a link; and no row that stays linked
\* to a live changes.
LEMMA PassoDosVinculos ==
    ASSUME TypeOK, VinculoAoVivo, [Next]_vars
    PROVE  \/ \A b \in Cabines : Solta(b)
           \/ \E l \in Lives, b \in Cabines, tipo \in TiposDeLive,
                 c \in OuNenhum(Clientes), e \in OuNenhum(TodosEventos) :
                    Iniciar(l, b, tipo, e, c)
           \/ \E r \in Leitores : CorrigirCabine(r)
<1> USE DEF TypeOK, Solta
<1>1. CASE cabine' = cabine
  BY <1>1
<1>2. ASSUME NEW b \in Cabines, NEW ct \in OuNenhum(Contratos),
             NEW c \in OuNenhum(Clientes), Reservar(b, ct, c)
      PROVE  \A x \in Cabines : Solta(x)
  BY <1>2 DEF Reservar
<1>3. ASSUME NEW b \in Cabines, Liberar(b) PROVE \A x \in Cabines : Solta(x)
  BY <1>3 DEF Liberar
<1>4. ASSUME NEW b \in Cabines, NEW s \in StatusManual, MudarStatus(b, s)
      PROVE  \A x \in Cabines : Solta(x)
  BY <1>4 DEF MudarStatus, Cabine
<1>5. ASSUME NEW l \in Lives, Encerrar(l) PROVE \A x \in Cabines : Solta(x)
  BY <1>5 DEF Encerrar
<1>6. ASSUME NEW l \in Lives, Excluir(l) PROVE \A x \in Cabines : Solta(x)
  BY <1>6 DEF Excluir, Cabine
<1>7. ASSUME NEW p \in Pedidos, Aprovar(p) PROVE \A x \in Cabines : Solta(x)
  <2> DEFINE b == PedidoDe[p].cabine
  <2>1. b \in Cabines
    BY PedidosTipados
  <2>2. CASE cabine[b].status = "disponivel"
    <3>1. cabine[b].live = Nenhum
      BY <2>1, <2>2 DEF VinculoAoVivo
    <3>2. cabine' = [cabine EXCEPT ![b].status = "reservada",
                                   ![b].contrato = aprovacao[p].contrato]
      BY <1>7, <2>2 DEF Aprovar, ReservadaPor
    <3> QED BY <2>1, <3>1, <3>2 DEF Cabine
  <2>3. CASE cabine[b].status # "disponivel"
    BY <1>1, <1>7, <2>3 DEF Aprovar, ReservadaPor
  <2> QED BY <2>2, <2>3
<1>8. ASSUME NEW ct \in Contratos, Desativar(ct) PROVE \A x \in Cabines : Solta(x)
  BY <1>8 DEF Desativar
<1>9. CASE PollerLibera
  BY <1>9 DEF PollerLibera, Cabine
<1>10. CASE NextCabines
  <2>1. ASSUME NEW b \in Cabines, NEW r \in Leitores, LerCabine(r, b)
        PROVE  \A x \in Cabines : Solta(x)
    BY <1>1, <2>1 DEF LerCabine
  <2>2. ASSUME NEW r \in Leitores, BuscarLive(r) PROVE \A x \in Cabines : Solta(x)
    BY <1>1, <2>2 DEF BuscarLive
  <2> QED BY <1>2, <1>3, <1>4, <1>10, <2>1, <2>2 DEF NextCabines
<1>11. CASE NextLives
  <2>1. ASSUME NEW l \in Lives, NEW b \in Cabines, NEW tipo \in TiposDeLive,
               NEW c \in OuNenhum(Clientes), LancarManual(l, b, tipo, c)
        PROVE  \A x \in Cabines : Solta(x)
    BY <1>1, <2>1 DEF LancarManual
  <2>2. ASSUME NEW l \in Lives, NEW b \in Cabines, Editar(l, b)
        PROVE  \A x \in Cabines : Solta(x)
    BY <1>1, <2>2 DEF Editar
  <2> QED BY <1>5, <1>6, <1>11, <2>1, <2>2 DEF NextLives
<1>12. CASE NextSolicitacoes \/ NextAgenda
  BY <1>1, <1>7, <1>12 DEF NextSolicitacoes, NextAgenda, Solicitar,
    ValidarPedido, ValidarAprovacao,
     ValidarAgendamento, Agendar, VerificarRecusa, Recusar, CriarEvento, EditarEvento,
     ChegarAHora
<1>13. CASE NextContratos \/ NextPoller \/ Reiniciar
  BY <1>1, <1>8, <1>9, <1>13 DEF NextContratos, Ativar, MudarCliente, NextPoller,
     PollerConsulta, PollerBusca, PollerEncerra, Reiniciar
<1>14. CASE UNCHANGED vars
  BY <1>1, <1>14 DEF vars
<1> QED BY <1>10, <1>11, <1>12, <1>13, <1>14 DEF Next, Atendimento

\* A live goes on air only by Iniciar, and is deleted only by Excluir.
LEMMA QuemComecaQuemExclui ==
    ASSUME TypeOK, AlvoDoPoller, [Next]_vars, NEW l \in Lives
    PROVE  /\ lives[l].status = "nova" /\ lives'[l].status = "em_andamento" =>
                /\ lives'[l].cabine \in Cabines /\ lives'[l].origem = lives'[l].cabine
                /\ cabine'[lives'[l].cabine].live = l
           /\ lives[l].status # "excluida" /\ lives'[l].status = "excluida" => Excluir(l)
<1> USE DEF TypeOK
<1> DEFINE Comeca == lives[l].status = "nova" /\ lives'[l].status = "em_andamento" =>
                        /\ lives'[l].cabine \in Cabines
                        /\ lives'[l].origem = lives'[l].cabine
                        /\ cabine'[lives'[l].cabine].live = l
           Exclui == lives[l].status # "excluida" /\ lives'[l].status = "excluida" =>
                        Excluir(l)
<1>1. CASE lives' = lives
  BY <1>1
<1>2. CASE NextLives
  <2>1. ASSUME NEW k \in Lives, NEW b \in Cabines, NEW tipo \in TiposDeLive,
               NEW c \in OuNenhum(Clientes), NEW e \in OuNenhum(TodosEventos),
               Iniciar(k, b, tipo, e, c)
        PROVE  Comeca /\ Exclui
    <3>1. \/ lives'[l] = lives[l]
          \/ /\ lives'[l] = [status |-> "em_andamento", cabine |-> b, origem |-> b]
             /\ cabine'[b].live = l
      BY <2>1 DEF Iniciar, IniciarCom
    <3> QED BY <3>1
  <2>2. ASSUME NEW k \in Lives, NEW b \in Cabines, NEW tipo \in TiposDeLive,
               NEW c \in OuNenhum(Clientes), LancarManual(k, b, tipo, c)
        PROVE  Comeca /\ Exclui
    BY <2>2 DEF LancarManual
  <2>3. ASSUME NEW k \in Lives, Encerrar(k)
        PROVE  Comeca /\ Exclui
    BY <2>3 DEF Encerrar, Live
  <2>4. ASSUME NEW k \in Lives, NEW b \in Cabines, Editar(k, b)
        PROVE  Comeca /\ Exclui
    BY <2>4 DEF Editar, Live
  <2>5. ASSUME NEW k \in Lives, Excluir(k)
        PROVE  Comeca /\ Exclui
    BY <2>5 DEF Excluir, Live
  <2> QED BY <1>2, <2>1, <2>2, <2>3, <2>4, <2>5 DEF NextLives
<1>3. CASE PollerEncerra
  BY <1>3 DEF PollerEncerra, Live
<1>4. CASE NextCabines
  BY <1>1, <1>4 DEF NextCabines, Reservar, Liberar, MudarStatus, LerCabine, BuscarLive,
     CorrigirCabine
<1>5. CASE NextSolicitacoes \/ NextAgenda
  BY <1>1, <1>5 DEF NextSolicitacoes, NextAgenda, Solicitar,
    ValidarPedido, ValidarAprovacao, Aprovar,
     ValidarAgendamento, Agendar, VerificarRecusa, Recusar, CriarEvento, EditarEvento,
     ChegarAHora
<1>6. CASE NextContratos \/ PollerConsulta \/ PollerBusca \/ PollerLibera \/ Reiniciar
  BY <1>1, <1>6 DEF NextContratos, Ativar, Desativar, MudarCliente, PollerConsulta,
     PollerBusca, PollerLibera, Reiniciar
<1>7. CASE UNCHANGED vars
  BY <1>1, <1>7 DEF vars
<1> QED BY <1>2, <1>3, <1>4, <1>5, <1>6, <1>7 DEF Next, Atendimento, NextPoller

LEMMA PassoNoAr ==
    ASSUME TypeOK, VinculosInv, [Next]_vars
    PROVE  NoArNaOrigem'
<1> SUFFICES ASSUME NEW l \in Lives, lives'[l].status = "em_andamento"
             PROVE  lives'[l].cabine \in Cabines /\ lives'[l].origem = lives'[l].cabine
  BY DEF NoArNaOrigem
<1>1. lives[l].status \in {"nova", "em_andamento"}
  BY PassoDasLives DEF VinculosInv, Avanca
<1>2. CASE lives[l].status = "nova"
  BY <1>2, QuemComecaQuemExclui DEF VinculosInv
<1>3. CASE lives[l].status = "em_andamento"
  BY <1>3, OrigemFixa DEF VinculosInv, NoArNaOrigem
<1> QED BY <1>1, <1>2, <1>3

LEMMA PassoDaCabine ==
    ASSUME TypeOK, VinculosInv, [Next]_vars
    PROVE  VinculoAoVivo' /\ VinculoDeOrigem'
<1> SUFFICES ASSUME NEW b \in Cabines, cabine'[b].live # Nenhum
             PROVE  /\ cabine'[b].status = "ao_vivo"
                    /\ lives'[cabine'[b].live].origem = b
                    /\ lives'[cabine'[b].live].status \in {"em_andamento", "encerrada"}
  BY DEF VinculoAoVivo, VinculoDeOrigem
<1> USE DEF TypeOK
<1>1. CASE cabine'[b] = cabine[b]
  <2> DEFINE l == cabine[b].live
  <2>1. /\ l \in Lives /\ cabine[b].status = "ao_vivo" /\ lives[l].origem = b
        /\ lives[l].status \in {"em_andamento", "encerrada"}
    BY <1>1 DEF VinculosInv, VinculoAoVivo, VinculoDeOrigem, Cabine
  <2>2. lives'[l].origem = b
    BY <2>1, OrigemFixa
  <2>3. lives'[l].status # "excluida"
    <3>1. ~Excluir(l)
      BY <1>1 DEF Excluir, Cabine
    <3> QED BY <2>1, <3>1, QuemComecaQuemExclui DEF VinculosInv
  <2>4. lives'[l].status \in {"em_andamento", "encerrada"}
    BY <2>1, <2>3, PassoDasLives DEF VinculosInv, Avanca
  <2> QED BY <1>1, <2>1, <2>2, <2>4
<1>2. ASSUME NEW l \in Lives, NEW x \in Cabines, NEW tipo \in TiposDeLive,
             NEW c \in OuNenhum(Clientes), NEW e \in OuNenhum(TodosEventos),
             Iniciar(l, x, tipo, e, c), cabine'[b] # cabine[b]
      PROVE  /\ cabine'[b].status = "ao_vivo"
             /\ lives'[cabine'[b].live].origem = b
             /\ lives'[cabine'[b].live].status \in {"em_andamento", "encerrada"}
  BY <1>2 DEF Iniciar, IniciarCom
<1>3. ASSUME NEW r \in Leitores, CorrigirCabine(r), cabine'[b] # cabine[b]
      PROVE  /\ cabine'[b].status = "ao_vivo"
             /\ lives'[cabine'[b].live].origem = b
             /\ lives'[cabine'[b].live].status \in {"em_andamento", "encerrada"}
  <2> DEFINE x == leitor[r].cabine
             k == leitor[r].live
  <2>1. leitor[r] \in Leitura /\ leitor[r].pc = "buscou" /\ lives' = lives /\ x \in Cabines
    BY <1>3 DEF CorrigirCabine, VinculosInv, LeituraDeOrigem, Leitura
  <2>2. k # Nenhum /\ lives[k].status # "excluida"
    BY <1>3, <2>1 DEF CorrigirCabine, Normalizada, Cabine
  <2>3. cabine' = [cabine EXCEPT ![x].status = "ao_vivo", ![x].live = k]
    BY <1>3, <2>2 DEF CorrigirCabine
  <2>4. b = x /\ cabine'[b].live = k /\ cabine'[b].status = "ao_vivo"
    BY <1>3, <2>1, <2>3 DEF Cabine
  <2>5. k \in Lives /\ lives[k].origem = x /\ lives[k].status # "nova"
    BY <2>1, <2>2 DEF VinculosInv, LeituraDeOrigem, Leitura
  <2>6. lives[k].status \in {"em_andamento", "encerrada"}
    BY <2>2, <2>5 DEF Live, StatusLive
  <2> QED BY <2>1, <2>4, <2>5, <2>6
<1> QED BY <1>1, <1>2, <1>3, PassoDosVinculos DEF VinculosInv, Solta

LEMMA PassoDaLeitura ==
    ASSUME TypeOK, VinculosInv, [Next]_vars
    PROVE  LeituraDeOrigem'
<1> SUFFICES ASSUME NEW r \in Leitores
             PROVE  /\ leitor'[r].pc # "parado" => leitor'[r].cabine \in Cabines
                    /\ leitor'[r].pc = "buscou" /\ leitor'[r].live # Nenhum =>
                        /\ lives'[leitor'[r].live].origem = leitor'[r].cabine
                        /\ lives'[leitor'[r].live].status # "nova"
  BY DEF LeituraDeOrigem
<1> USE DEF TypeOK
<1>1. CASE leitor'[r] = leitor[r]
  <2>1. CASE leitor[r].pc = "buscou" /\ leitor[r].live # Nenhum
    <3> DEFINE l == leitor[r].live
    <3>1. l \in Lives /\ lives[l].origem = leitor[r].cabine /\ lives[l].status # "nova"
      BY <2>1 DEF VinculosInv, LeituraDeOrigem, Leitura
    <3>2. lives'[l].origem = lives[l].origem
      BY <3>1, OrigemFixa
    <3>3. lives'[l].status # "nova"
      BY <3>1, PassoDasLives DEF VinculosInv, Avanca
    <3> QED BY <1>1, <2>1, <3>1, <3>2, <3>3 DEF VinculosInv, LeituraDeOrigem
  <2>2. CASE ~(leitor[r].pc = "buscou" /\ leitor[r].live # Nenhum)
    BY <1>1, <2>2 DEF VinculosInv, LeituraDeOrigem
  <2> QED BY <2>1, <2>2
<1>2. CASE leitor'[r] = LeitorParado
  BY <1>2 DEF LeitorParado
<1>3. ASSUME NEW b \in Cabines, LerCabine(r, b)
      PROVE  leitor'[r].cabine \in Cabines /\ leitor'[r].pc = "leu"
  BY <1>3 DEF LerCabine
<1>4. ASSUME BuscarLive(r), leitor'[r] # LeitorParado
      PROVE  /\ leitor'[r].cabine \in Cabines
             /\ leitor'[r].live # Nenhum =>
                    /\ lives'[leitor'[r].live].origem = leitor'[r].cabine
                    /\ lives'[leitor'[r].live].status # "nova"
  <2> DEFINE b == leitor[r].cabine
  <2>1. b \in Cabines /\ lives' = lives
    BY <1>4 DEF BuscarLive, VinculosInv, LeituraDeOrigem
  <2>2. PICK achou \in UltimaNoAr(b) :
            leitor'[r] = [pc |-> "buscou", cabine |-> b, aoVivo |-> FALSE, live |-> achou]
    BY <1>4 DEF BuscarLive
  <2>3. achou # Nenhum => achou \in NoAr(b)
    BY DEF UltimaNoAr, UmOuNenhum
  <2>4. \A l \in NoAr(b) : lives[l].origem = b /\ lives[l].status = "em_andamento"
    BY DEF NoAr, VinculosInv, NoArNaOrigem
  <2> QED BY <2>1, <2>2, <2>3, <2>4
<1>5. \/ leitor'[r] = leitor[r] \/ leitor'[r] = LeitorParado \/ BuscarLive(r)
      \/ \E b \in Cabines : LerCabine(r, b)
  <2>1. CASE leitor' = leitor
    BY <2>1
  <2>2. CASE NextCabines
    BY <2>1, <2>2 DEF NextCabines, Reservar, Liberar, MudarStatus, LerCabine,
       BuscarLive, CorrigirCabine
  <2>3. CASE NextLives
    BY <2>1, <2>3 DEF NextLives, Iniciar, LancarManual, Encerrar, Editar, Excluir
  <2>4. CASE NextSolicitacoes \/ NextAgenda
    BY <2>1, <2>4 DEF NextSolicitacoes, NextAgenda, Solicitar,
      ValidarPedido, ValidarAprovacao, Aprovar,
       ValidarAgendamento, Agendar, VerificarRecusa, Recusar, CriarEvento, EditarEvento,
     ChegarAHora
  <2>5. CASE NextContratos \/ NextPoller
    BY <2>1, <2>5 DEF NextContratos, Ativar, Desativar, MudarCliente, NextPoller,
       PollerConsulta, PollerBusca, PollerEncerra, PollerLibera
  <2>6. CASE Reiniciar
    BY <2>6 DEF Reiniciar
  <2>7. CASE UNCHANGED vars
    BY <2>1, <2>7 DEF vars
  <2> QED BY <2>2, <2>3, <2>4, <2>5, <2>6, <2>7 DEF Next, Atendimento
<1> QED BY <1>1, <1>2, <1>3, <1>4, <1>5

LEMMA PassoDoAlvo ==
    ASSUME TypeOK, VinculosInv, [Next]_vars
    PROVE  AlvoDoPoller'
<1> USE DEF TypeOK
<1>1. CASE poller' = poller
  BY <1>1, PassoDasLives DEF VinculosInv, AlvoDoPoller, Avanca
<1>2. CASE poller'.pc \in {"parado", "offline"}
  BY <1>2 DEF AlvoDoPoller
<1>3. CASE PollerBusca
  BY <1>3 DEF PollerBusca, UmOuNenhum, PollerParado, AlvoDoPoller
<1>4. CASE PollerEncerra
  <2>1. poller.live \in Lives /\ lives[poller.live].status # "nova"
    BY <1>4 DEF PollerEncerra, VinculosInv, AlvoDoPoller
  <2>2. poller'.live = poller.live
    BY <1>4 DEF PollerEncerra, Poller
  <2> QED BY <2>1, <2>2, PassoDasLives DEF VinculosInv, AlvoDoPoller, Avanca
<1>5. \/ poller' = poller \/ poller'.pc \in {"parado", "offline"}
      \/ PollerBusca \/ PollerEncerra
  <2>1. CASE NextCabines
    BY <2>1 DEF NextCabines, Reservar, Liberar, MudarStatus, LerCabine, BuscarLive,
       CorrigirCabine
  <2>2. CASE NextLives
    BY <2>2 DEF NextLives, Iniciar, LancarManual, Encerrar, Editar, Excluir
  <2>3. CASE NextSolicitacoes \/ NextAgenda
    BY <2>3 DEF NextSolicitacoes, NextAgenda, Solicitar,
      ValidarPedido, ValidarAprovacao, Aprovar,
       ValidarAgendamento, Agendar, VerificarRecusa, Recusar, CriarEvento, EditarEvento,
     ChegarAHora
  <2>4. CASE NextContratos
    BY <2>4 DEF NextContratos, Ativar, Desativar, MudarCliente
  <2>5. CASE PollerConsulta
    BY <2>5 DEF PollerConsulta, Poller
  <2>6. CASE PollerLibera
    BY <2>6 DEF PollerLibera, PollerParado
  <2>7. CASE Reiniciar
    BY <2>7 DEF Reiniciar, PollerParado
  <2>8. CASE UNCHANGED vars
    BY <2>8 DEF vars
  <2> QED BY <2>1, <2>2, <2>3, <2>4, <2>5, <2>6, <2>7, <2>8 DEF Next, Atendimento, NextPoller
<1> QED BY <1>1, <1>2, <1>3, <1>4, <1>5

LEMMA VinculosSempre == Spec => [](TypeOK /\ VinculosInv)
<1>1. Init => TypeOK /\ VinculosInv
  <2>1. Init => VinculosInv
    BY DEF Init, VinculosInv, VinculoAoVivo, VinculoDeOrigem, NoArNaOrigem,
       LeituraDeOrigem, AlvoDoPoller, LiveNova, LeitorParado, PollerParado
  <2> QED BY <2>1, TipoInicial
<1>2. TypeOK /\ VinculosInv /\ [Next]_vars => (TypeOK /\ VinculosInv)'
  BY TipoPasso, PassoDaCabine, PassoNoAr, PassoDaLeitura, PassoDoAlvo DEF VinculosInv
<1> QED BY <1>1, <1>2, PTL DEF Spec

\* A booth that points at a live is on air, whatever liberar, the status route,
\* the trigger, the poller and stale repairs do to it meanwhile.
THEOREM VinculoSempreAoVivo == Spec => []VinculoAoVivo
<1>1. VinculosInv => VinculoAoVivo
  BY DEF VinculosInv
<1> QED BY <1>1, VinculosSempre, PTL

\* A booth never points at a live of another booth, nor at one that was deleted.
THEOREM VinculoSempreDeOrigem == Spec => []VinculoDeOrigem
<1>1. VinculosInv => VinculoDeOrigem
  BY DEF VinculosInv
<1> QED BY <1>1, VinculosSempre, PTL

----------------------------------------------------------------------------
(* Hours. *)

LEMMA PassoDasHoras ==
    ASSUME TypeOK, VinculosInv, HorasInv, [Next]_vars
    PROVE  HorasInv'
<1> USE DEF TypeOK
<1>1. \A l \in Lives : Avanca(l)
  BY PassoDasLives DEF VinculosInv
<1>2. CASE horas' = horas
  BY <1>1, <1>2 DEF HorasInv, HorasUmaVez, HorasSoNoFim, Avanca
<1>3. ASSUME NEW k \in Lives, Encerrar(k), horas' # horas PROVE HorasInv'
  <2> DEFINE ct == cabine[lives[k].cabine].contrato
  <2>1. lives[k].status = "em_andamento" /\ lives'[k].status = "encerrada"
    BY <1>3 DEF Encerrar, PodeEncerrar, Live
  <2>2. horas' = [horas EXCEPT ![ct][k] = @ + 1]
    BY <1>3 DEF Encerrar
  <2> HIDE DEF ct
  <2>3. ct \in Contratos
    BY <1>3, <2>2
  <2>4. \A c \in Contratos, l \in Lives :
            horas'[c][l] = IF c = ct /\ l = k THEN horas[c][l] + 1 ELSE horas[c][l]
    BY ONLY <2>2, <2>3, k \in Lives, MaisUm, TypeOK DEF TypeOK
  <2>5. \A c \in Contratos : horas[c][k] = 0
    BY <2>1 DEF HorasInv, HorasSoNoFim
  <2>6. \A c \in Contratos : horas'[c][k] = IF c = ct THEN 1 ELSE 0
    BY <2>3, <2>4, <2>5
  <2>7. \A c \in Contratos, l \in Lives \ {k} : horas'[c][l] = horas[c][l]
    BY <2>4
  <2>8. HorasUmaVez'
    <3> SUFFICES ASSUME NEW l \in Lives, NEW c \in Contratos, horas'[c][l] # 0
                 PROVE  /\ horas'[c][l] = 1
                        /\ lives'[l].status \in {"encerrada", "excluida"}
                        /\ \A outro \in Contratos \ {c} : horas'[outro][l] = 0
      BY DEF HorasUmaVez
    <3>1. CASE l = k
      BY <2>1, <2>6, <3>1
    <3>2. CASE l # k
      BY <1>1, <2>7, <3>2 DEF HorasInv, HorasUmaVez, Avanca
    <3> QED BY <3>1, <3>2
  <2>9. HorasSoNoFim'
    <3> SUFFICES ASSUME NEW l \in Lives, NEW c \in Contratos,
                        lives'[l].status \in {"nova", "em_andamento"}
                 PROVE  horas'[c][l] = 0
      BY DEF HorasSoNoFim
    <3>1. l # k
      BY <2>1
    <3> QED BY <1>1, <2>7, <3>1 DEF HorasInv, HorasSoNoFim, Avanca
  <2> QED BY <2>8, <2>9 DEF HorasInv
<1> QED BY <1>2, <1>3, PassoDasLives DEF VinculosInv

LEMMA HorasSempre == Spec => [](TypeOK /\ VinculosInv /\ HorasInv)
<1>1. Init => HorasInv
  BY DEF Init, HorasInv, HorasUmaVez, HorasSoNoFim
<1>2. TypeOK /\ VinculosInv /\ HorasInv /\ [Next]_vars => HorasInv'
  BY PassoDasHoras
<1> QED BY <1>1, <1>2, VinculosSempre, PTL DEF Spec

\* The hours of a live are deducted at most once and from one contract, and
\* only after it ended.
THEOREM HorasSempreUmaVez == Spec => []HorasUmaVez
<1>1. HorasInv => HorasUmaVez
  BY DEF HorasInv
<1> QED BY <1>1, HorasSempre, PTL

----------------------------------------------------------------------------
(* The agenda events of the lives: a live never owns two of them.          *)

\* No event gets an owner.
SemNovoDono == \A e \in TodosEventos : evento'[e].dono \in {evento[e].dono, Nenhum}

\* Event x, and no other, gets live l as its owner.
NovoDono(l, x) ==
    \A e \in TodosEventos :
        evento'[e].dono = IF e = x THEN l ELSE evento[e].dono

\* A start gives its live to one event at most.
LEMMA DonoDoInicio ==
    ASSUME TypeOK, NEW l \in Lives, NEW b \in Cabines, NEW tipo \in TiposDeLive,
           NEW c \in OuNenhum(Clientes), NEW e \in OuNenhum(TodosEventos),
           Iniciar(l, b, tipo, e, c)
    PROVE  /\ lives[l].status = "nova" /\ lives'[l].status = "em_andamento"
           /\ SemNovoDono \/ \E x \in TodosEventos : NovoDono(l, x)
<1> USE DEF TodosEventos
<1>1. lives[l].status = "nova" /\ lives'[l].status = "em_andamento"
  BY DEF Iniciar, Proxima, IniciarCom, TypeOK
<1>2. PICK dela : evento' = AgendaIniciada(l, b, e, dela)
  BY DEF Iniciar, IniciarCom
<1>3. evento \in [TodosEventos -> Evento]
  BY DEF TypeOK
<1>4. CASE e # Nenhum
  <2>1. e \in TodosEventos
    BY <1>4 DEF OuNenhum
  <2>2. evento' = [evento EXCEPT ![e] = [evento[e] EXCEPT !.status = "ao_vivo", !.dono = l]]
    BY <1>2, <1>3, <1>4, <2>1 DEF AgendaIniciada
  <2>3. [evento[e] EXCEPT !.status = "ao_vivo", !.dono = l].dono = l
    BY <1>3, <2>1 DEF Evento
  <2> QED BY <1>1, <1>3, <2>1, <2>2, <2>3 DEF NovoDono
<1>5. CASE e = Nenhum /\ dela \in ComMarca
  <2>1. evento' = [evento EXCEPT ![l] = [status |-> "ao_vivo", cabine |-> b, cliente |-> dela,
                                         comecou |-> TRUE, dono |-> l]]
    BY <1>2, <1>5 DEF AgendaIniciada
  <2> QED BY <1>1, <1>3, <2>1 DEF NovoDono
<1>6. CASE e = Nenhum /\ dela \notin ComMarca
  BY <1>1, <1>2, <1>6 DEF AgendaIniciada, SemNovoDono
<1> QED BY <1>4, <1>5, <1>6

\* What one step does to the owners.
LEMMA PassoDosDonos ==
    ASSUME TypeOK, [Next]_vars
    PROVE  \/ SemNovoDono
           \/ \E l \in Lives, x \in TodosEventos :
                lives[l].status = "nova" /\ lives'[l].status = "em_andamento" /\ NovoDono(l, x)
<1> USE DEF SemNovoDono
<1>1. CASE evento' = evento
  BY <1>1
<1>2. CASE NextLives
  <2>1. ASSUME NEW l \in Lives, Encerrar(l) PROVE SemNovoDono
    <3>1. evento' = [e \in TodosEventos |->
                        IF e \in NoArNaAgenda(lives[l].cabine)
                        THEN [evento[e] EXCEPT !.status = "concluido"] ELSE evento[e]]
      BY <2>1 DEF Encerrar
    <3>2. \A e \in TodosEventos :
            [evento[e] EXCEPT !.status = "concluido"].dono = evento[e].dono
      BY DEF TypeOK, Evento
    <3> QED BY <3>1, <3>2
  <2>2. ASSUME NEW l \in Lives, NEW b \in Cabines, NEW tipo \in TiposDeLive,
               NEW c \in OuNenhum(Clientes), LancarManual(l, b, tipo, c) PROVE evento' = evento
    BY <2>2 DEF LancarManual
  <2>3. ASSUME NEW l \in Lives, Excluir(l) PROVE evento' = evento
    BY <2>3 DEF Excluir
  <2>4. ASSUME NEW l \in Lives, NEW b \in Cabines, Editar(l, b) PROVE evento' = evento
    BY <2>4 DEF Editar
  <2> HIDE DEF SemNovoDono
  <2> QED BY <1>1, <1>2, <2>1, <2>2, <2>3, <2>4, DonoDoInicio DEF NextLives
<1>3. CASE NextAgenda
  <2>1. ASSUME NEW s \in StatusEvento \ {"inexistente"}, NEW h \in BOOLEAN, NEW x \in Eventos,
               CriarEvento(x, s, h)
        PROVE  SemNovoDono
    BY <2>1 DEF CriarEvento, TypeOK
  <2>2. ASSUME NEW s \in StatusEvento \ {"inexistente"}, NEW h \in BOOLEAN,
               NEW x \in TodosEventos, NEW b \in OuNenhum(Cabines), EditarEvento(x, s, b, h)
        PROVE  SemNovoDono
    <3>1. EventoEditado(evento[x], s, b, h).dono \in {evento[x].dono, Nenhum}
      BY DEF EventoEditado, TypeOK, Evento
    <3> QED BY <2>2, <3>1 DEF EditarEvento, TypeOK
  <2>3. ASSUME NEW x \in TodosEventos, ChegarAHora(x) PROVE SemNovoDono
    BY <2>3 DEF ChegarAHora, TypeOK, Evento
  <2> HIDE DEF SemNovoDono
  <2> QED BY <1>3, <2>1, <2>2, <2>3 DEF NextAgenda
<1>4. CASE NextCabines
  BY <1>1, <1>4 DEF NextCabines, Reservar, Liberar, MudarStatus, LerCabine, BuscarLive,
     CorrigirCabine
<1>5. CASE NextSolicitacoes
  BY <1>1, <1>5 DEF NextSolicitacoes, ValidarPedido, Solicitar, ValidarAprovacao, Aprovar,
     ValidarAgendamento, Agendar, VerificarRecusa, Recusar
<1>6. CASE NextContratos \/ NextPoller \/ Reiniciar
  BY <1>1, <1>6 DEF NextContratos, Ativar, Desativar, MudarCliente, NextPoller,
     PollerConsulta, PollerBusca, PollerEncerra, PollerLibera, Reiniciar
<1>7. CASE UNCHANGED vars
  BY <1>1, <1>7 DEF vars
<1> QED BY <1>2, <1>3, <1>4, <1>5, <1>6, <1>7 DEF Next, Atendimento

LEMMA PassoDosEventos ==
    ASSUME TypeOK, VinculosInv, EventosInv, [Next]_vars
    PROVE  EventosInv'
<1>1. \A l \in Lives : lives[l].status # "nova" => lives'[l].status # "nova"
  BY PassoDasLives DEF VinculosInv, Avanca
<1>2. \A e \in TodosEventos : evento[e].dono \in Lives \cup {Nenhum}
  BY DEF TypeOK, Evento, OuNenhum
<1>3. CASE SemNovoDono
  BY <1>1, <1>2, <1>3 DEF SemNovoDono, EventosInv, UmEventoPorLive, DonoIniciou
<1>4. ASSUME NEW l \in Lives, NEW x \in TodosEventos, NovoDono(l, x),
             lives[l].status = "nova", lives'[l].status = "em_andamento"
      PROVE  EventosInv'
  <2>1. \A e \in TodosEventos : evento[e].dono # l
    BY <1>4, NenhumEForaDosDados DEF EventosInv, DonoIniciou
  <2>2. UmEventoPorLive'
    BY <1>4, <2>1 DEF NovoDono, EventosInv, UmEventoPorLive
  <2>3. DonoIniciou'
    BY <1>1, <1>2, <1>4 DEF NovoDono, EventosInv, DonoIniciou
  <2> QED BY <2>2, <2>3 DEF EventosInv
<1> QED BY <1>3, <1>4, PassoDosDonos

\* A live never has two agenda events of its own, however events are moved,
\* reopened or cancelled by hand.
THEOREM EventoSempreUmPorLive == Spec => []UmEventoPorLive
<1>1. Init => EventosInv
  BY DEF Init, EventosInv, UmEventoPorLive, DonoIniciou, SemEvento
<1>2. TypeOK /\ VinculosInv /\ EventosInv /\ [Next]_vars => EventosInv'
  BY PassoDosEventos
<1>3. EventosInv => UmEventoPorLive
  BY DEF EventosInv
<1> QED BY <1>1, <1>2, <1>3, VinculosSempre, PTL DEF Spec

----------------------------------------------------------------------------
(* The studio implements CicloDaLive: whatever routes, repairs, poller and *)
(* restarts do, each live goes on air once, ends once, and is charged to   *)
(* at most one contract at its end.                                        *)

\* The variables of the life cycle, as the studio sees them.
Fases == [l \in Lives |-> lives[l].status]
Cobradas == {par \in Contratos \X Lives : horas[par[1]][par[2]] # 0}

Mudou(l) == lives'[l].status # lives[l].status

\* No step moves two lives.
LEMMA PassoDeUmaLive ==
    ASSUME TypeOK, [Next]_vars, NEW k \in Lives, NEW l \in Lives, Mudou(k), Mudou(l)
    PROVE  k = l
<1> USE DEF TypeOK, Mudou
<1>1. CASE lives' = lives
  BY <1>1
<1>2. CASE NextLives
  <2>1. ASSUME NEW x \in Lives, NEW b \in Cabines, NEW tipo \in TiposDeLive,
               NEW c \in OuNenhum(Clientes), NEW e \in OuNenhum(TodosEventos),
               Iniciar(x, b, tipo, e, c)
        PROVE  k = l
    BY <2>1 DEF Iniciar, IniciarCom
  <2>2. ASSUME NEW x \in Lives, NEW b \in Cabines, NEW tipo \in TiposDeLive,
               NEW c \in OuNenhum(Clientes), LancarManual(x, b, tipo, c)
        PROVE  k = l
    BY <2>2 DEF LancarManual
  <2>3. ASSUME NEW x \in Lives, Encerrar(x) PROVE k = l
    BY <2>3 DEF Encerrar
  <2>4. ASSUME NEW x \in Lives, NEW b \in Cabines, Editar(x, b) PROVE k = l
    BY <2>4 DEF Editar
  <2>5. ASSUME NEW x \in Lives, Excluir(x) PROVE k = l
    BY <2>5 DEF Excluir
  <2> QED BY <1>2, <2>1, <2>2, <2>3, <2>4, <2>5 DEF NextLives
<1>3. CASE PollerEncerra
  BY <1>3 DEF PollerEncerra
<1>4. CASE NextCabines
  BY <1>1, <1>4 DEF NextCabines, Reservar, Liberar, MudarStatus, LerCabine, BuscarLive,
     CorrigirCabine
<1>5. CASE NextSolicitacoes \/ NextAgenda
  BY <1>1, <1>5 DEF NextSolicitacoes, NextAgenda, Solicitar,
    ValidarPedido, ValidarAprovacao, Aprovar,
     ValidarAgendamento, Agendar, VerificarRecusa, Recusar, CriarEvento, EditarEvento,
     ChegarAHora
<1>6. CASE NextContratos \/ PollerConsulta \/ PollerBusca \/ PollerLibera \/ Reiniciar
  BY <1>1, <1>6 DEF NextContratos, Ativar, Desativar, MudarCliente, PollerConsulta,
     PollerBusca, PollerLibera, Reiniciar
<1>7. CASE UNCHANGED vars
  BY <1>1, <1>7 DEF vars
<1> QED BY <1>2, <1>3, <1>4, <1>5, <1>6, <1>7 DEF Next, Atendimento, NextPoller

\* Phases after a step that moves live l.
LEMMA FasesDepois ==
    ASSUME TypeOK, [Next]_vars, NEW l \in Lives, Mudou(l)
    PROVE  Fases' = [Fases EXCEPT ![l] = lives'[l].status]
<1>1. \A k \in Lives \ {l} : lives'[k].status = lives[k].status
  BY PassoDeUmaLive DEF Mudou
<1> QED BY <1>1 DEF Fases

\* What Encerrar adds to the deductions: one pair at most.
LEMMA CobradasDepois ==
    ASSUME TypeOK, NEW l \in Lives, Encerrar(l)
    PROVE  Cobradas' = Cobradas \/ \E ct \in Contratos : Cobradas' = Cobradas \cup {<<ct, l>>}
<1> DEFINE ct == cabine[lives[l].cabine].contrato
<1>1. CASE horas' = horas
  BY <1>1 DEF Cobradas
<1>2. CASE horas' # horas
  <2>1. horas' = [horas EXCEPT ![ct][l] = @ + 1]
    BY <1>2 DEF Encerrar
  <2> HIDE DEF ct
  <2>2. ct \in Contratos
    BY <1>2, <2>1 DEF TypeOK
  <2>3. \A c \in Contratos, k \in Lives :
            horas'[c][k] = IF c = ct /\ k = l THEN horas[c][k] + 1 ELSE horas[c][k]
    BY ONLY <2>1, <2>2, l \in Lives, MaisUm, TypeOK DEF TypeOK
  <2>4. horas[ct][l] \in Nat
    BY <2>2 DEF TypeOK
  <2>5. horas'[ct][l] # 0
    BY <2>2, <2>3, <2>4
  <2>6. Cobradas' = Cobradas \cup {<<ct, l>>}
    <3>1. \A par \in Contratos \X Lives :
            horas'[par[1]][par[2]] # 0 <=> horas[par[1]][par[2]] # 0 \/ par = <<ct, l>>
      BY <2>2, <2>3, <2>5
    <3> QED BY <2>2, <3>1 DEF Cobradas
  <2> QED BY <2>2, <2>6
<1> QED BY <1>1, <1>2

\* Each step of the studio is a step of the life cycle or changes nothing of it.
LEMMA PassoDoCiclo ==
    ASSUME TypeOK, VinculosInv, [Next]_vars
    PROVE  Ciclo!CicloNext \/ (Fases' = Fases /\ Cobradas' = Cobradas)
<1>1. CASE \E l \in Lives : Encerrar(l)
  <2>1. PICK l \in Lives : Encerrar(l)
    BY <1>1
  <2>2. lives[l].status = "em_andamento" /\ lives'[l].status = "encerrada"
    BY <2>1 DEF Encerrar, PodeEncerrar, TypeOK, Live
  <2>3. Fases' = [Fases EXCEPT ![l] = "encerrada"]
    BY <2>2, FasesDepois DEF Mudou
  <2>4. Ciclo!Terminar(l)
    BY <2>1, <2>2, <2>3, CobradasDepois DEF Ciclo!Terminar, Fases, Cobradas
  <2> QED BY <2>4 DEF Ciclo!CicloNext
<1>2. CASE horas' = horas /\ \A l \in Lives : ~Mudou(l)
  BY <1>2 DEF Mudou, Fases, Cobradas
<1>3. ASSUME horas' = horas, NEW l \in Lives, Mudou(l) PROVE Ciclo!CicloNext
  <2>1. Fases' = [Fases EXCEPT ![l] = lives'[l].status] /\ Cobradas' = Cobradas
    BY <1>3, FasesDepois DEF Cobradas
  <2>2. Avanca(l)
    BY PassoDasLives DEF VinculosInv
  <2>3. CASE lives[l].status = "nova" /\ lives'[l].status = "em_andamento"
    BY <2>1, <2>3 DEF Ciclo!CicloNext, Ciclo!Comecar, Fases, Cobradas
  <2>4. CASE lives[l].status = "nova" /\ lives'[l].status = "encerrada"
    BY <2>1, <2>4 DEF Ciclo!CicloNext, Ciclo!Lancar, Fases, Cobradas
  <2>5. CASE lives[l].status = "em_andamento" /\ lives'[l].status = "encerrada"
    BY <2>1, <2>5 DEF Ciclo!CicloNext, Ciclo!Terminar, Fases, Cobradas
  <2>6. CASE lives[l].status = "encerrada" /\ lives'[l].status = "excluida"
    BY <2>1, <2>6 DEF Ciclo!CicloNext, Ciclo!Remover, Fases, Cobradas
  <2> QED BY <1>3, <2>2, <2>3, <2>4, <2>5, <2>6 DEF Avanca, Mudou
<1> QED BY <1>1, <1>2, <1>3, PassoDasLives DEF VinculosInv

\* The studio, with its orphan lives, stale repairs, poller and restarts, never
\* leaves the life cycle: one start, one end, at most one charge, at the end.
THEOREM CicloSempreRespeitado == Spec => CicloRespeitado
<1>1. Init => Ciclo!CicloInit
  BY DEF Init, Ciclo!CicloInit, LiveNova
<1>2. TypeOK /\ VinculosInv /\ [Next]_vars =>
        [Ciclo!CicloNext]_<<[l \in Lives |-> lives[l].status],
            {par \in Contratos \X Lives : horas[par[1]][par[2]] # 0}>>
  BY PassoDoCiclo DEF Fases, Cobradas
<1> QED BY <1>1, <1>2, VinculosSempre, PTL DEF Spec, CicloRespeitado, Ciclo!CicloSpec
----------------------------------------------------------------------------
(* The contract a live is billed to, over HistoricoDoEstudio.              *)

\* The history only observes: every behaviour with it is one of the studio.
LEMMA HistoricoSoObserva == HistSpec => Spec
<1>1. HistInit => Init
  BY DEF HistInit
<1>2. [HistNext]_HistVars => [Next]_vars
  BY DEF HistNext, HistVars, vars
<1> QED BY <1>1, <1>2, PTL DEF HistSpec, Spec

\* A live that its booth still names keeps the contract it started with.
LEMMA PassoDaPartidaNoAr ==
    ASSUME TypeOK, TypeOK', VinculosInv, VinculosInv', NoArComPartida, [HistNext]_HistVars
    PROVE  NoArComPartida'
<1> SUFFICES ASSUME NEW l \in Lives, lives'[l].status = "em_andamento", l \notin soltas'
             PROVE  /\ cabine'[lives'[l].cabine].live = l
                    /\ cabine'[lives'[l].cabine].contrato = partida'[l]
  BY DEF NoArComPartida, EmAndamento
<1>1. CASE UNCHANGED HistVars
  BY <1>1 DEF HistVars, NoArComPartida, EmAndamento
<1>2. CASE HistNext
  <2>1. [Next]_vars
    BY <1>2 DEF HistNext
  <2>2. lives[l].status \in {"nova", "em_andamento"}
    BY <2>1, PassoDasLives DEF VinculosInv, Avanca
  <2>3. CASE lives[l].status = "nova"
    <3>1. cabine'[lives'[l].cabine].live = l
      BY <2>1, <2>3, QuemComecaQuemExclui DEF VinculosInv
    <3>2. partida'[l] = cabine'[lives'[l].cabine].contrato
      BY <1>2, <2>3 DEF HistNext, AnotaPartida, EmAndamento
    <3> QED BY <3>1, <3>2
  <2>4. CASE lives[l].status = "em_andamento"
    <3> DEFINE b == lives[l].cabine
    <3>1. b \in Cabines /\ lives'[l].cabine = b
      BY <2>1, <2>4, OrigemFixa DEF VinculosInv, NoArNaOrigem
    <3>2. l \notin soltas
      BY <1>2 DEF HistNext, AnotaSoltas
    <3>3. cabine[b].live = l /\ cabine[b].contrato = partida[l]
      BY <2>4, <3>2 DEF NoArComPartida, EmAndamento
    <3>4. cabine'[b].live = l
      BY <1>2, <2>4, <3>1, <3>3 DEF HistNext, AnotaSoltas, EmAndamento
    <3>5. partida'[l] = partida[l]
      BY <1>2, <2>4 DEF HistNext, AnotaPartida
    <3>6. cabine[b].status = "ao_vivo" /\ cabine'[b].status = "ao_vivo"
      BY <3>1, <3>3, <3>4, NenhumEForaDosDados DEF VinculosInv, VinculoAoVivo
    <3>7. cabine'[b].contrato = cabine[b].contrato
      BY <2>1, <3>1, <3>6, PassoDoContrato DEF Iniciar, PodeIniciar
    <3> QED BY <3>1, <3>3, <3>4, <3>5, <3>7
  <2> QED BY <2>2, <2>3, <2>4
<1> QED BY <1>1, <1>2

\* What Encerrar charges is the contract of NoArComPartida.
LEMMA PassoDaConta ==
    ASSUME TypeOK, VinculosInv, HorasInv, PartidaInv, [HistNext]_HistVars
    PROVE  HorasDaPartida'
<1> SUFFICES ASSUME NEW l \in Lives, NEW ct \in Contratos, horas'[ct][l] # 0
             PROVE  ct = partida'[l] \/ l \in soltas'
  BY DEF HorasDaPartida
<1>1. CASE UNCHANGED HistVars
  BY <1>1 DEF HistVars, PartidaInv, HorasDaPartida
<1>2. CASE HistNext
  <2>1. [Next]_vars
    BY <1>2 DEF HistNext
  <2>2. soltas \subseteq soltas'
    BY <1>2 DEF HistNext, AnotaSoltas
  <2>3. lives[l].status # "nova" => partida'[l] = partida[l]
    BY <1>2 DEF HistNext, AnotaPartida
  <2>4. CASE horas[ct][l] # 0
    <3>1. lives[l].status # "nova"
      BY <2>4 DEF HorasInv, HorasUmaVez
    <3> QED BY <2>2, <2>3, <2>4, <3>1 DEF PartidaInv, HorasDaPartida
  <2>5. CASE horas[ct][l] = 0
    <3>1. PICK k \in Lives : Encerrar(k)
      BY <2>1, <2>5, PassoDasLives DEF VinculosInv
    <3>2. horas' = [horas EXCEPT ![cabine[lives[k].cabine].contrato][k] = @ + 1]
      BY <2>5, <3>1 DEF Encerrar
    <3>3. l = k /\ ct = cabine[lives[l].cabine].contrato
      BY <2>5, <3>2 DEF TypeOK
    <3>4. lives[l].status = "em_andamento"
      BY <3>1, <3>3 DEF Encerrar, PodeEncerrar
    <3> QED BY <2>2, <2>3, <3>3, <3>4 DEF PartidaInv, NoArComPartida, EmAndamento
  <2> QED BY <2>4, <2>5
<1> QED BY <1>1, <1>2

\* The hours of a live go to the contract its booth had when the live went on
\* air, if the booth did not let go of the live before its end.
THEOREM HorasSempreDaPartida == HistSpec => []HorasDaPartida
<1>1. HistInit => PartidaInv
  BY DEF HistInit, Init, LiveNova, PartidaInv, HorasDaPartida, NoArComPartida, EmAndamento
<1>2. /\ TypeOK /\ VinculosInv /\ HorasInv /\ PartidaInv /\ [HistNext]_HistVars
      /\ TypeOK' /\ VinculosInv'
      => PartidaInv'
  BY PassoDaPartidaNoAr, PassoDaConta DEF PartidaInv
<1>3. PartidaInv => HorasDaPartida
  BY DEF PartidaInv
<1> QED BY <1>1, <1>2, <1>3, HistoricoSoObserva, HorasSempre, PTL DEF HistSpec
=============================================================================
