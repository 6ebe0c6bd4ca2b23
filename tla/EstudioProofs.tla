--------------------------- MODULE EstudioProofs ---------------------------
(***************************************************************************)
(* Types of the studio, and the contract a booth carries, for every number *)
(* of booths, lives, contracts, requests, events and readers.              *)
(***************************************************************************)
EXTENDS Estudio, TLAPS

\* Adding one to an entry of a table of counters.
LEMMA MaisUm ==
    ASSUME NEW S, NEW T, NEW f \in [S -> [T -> Nat]], NEW x \in S, NEW y \in T
    PROVE  /\ [f EXCEPT ![x][y] = @ + 1] \in [S -> [T -> Nat]]
           /\ \A u \in S, v \in T : [f EXCEPT ![x][y] = @ + 1][u][v] =
                IF u = x /\ v = y THEN f[u][v] + 1 ELSE f[u][v]
  <1>1. f[x] \in [T -> Nat] /\ f[x][y] + 1 \in Nat
    OBVIOUS
  <1>2. [f[x] EXCEPT ![y] = f[x][y] + 1] \in [T -> Nat]
    BY <1>1
  <1> QED BY <1>1, <1>2

USE DEF TodosEventos, OuNenhum

----------------------------------------------------------------------------
(* Types. *)

LEMMA TipoInicial == Init => TypeOK
  BY DEF Init, TypeOK, Cabine, Live, Evento, Aprovacao, Leitura, Poller, LiveNova,
         SemEvento, SemAprovacao, LeitorParado, PollerParado, StatusCabine, StatusLive,
         StatusContrato, StatusPedido, StatusEvento

\* Writing some columns of a booth row keeps the table's type.
LEMMA EscritaDeCabine ==
    ASSUME TypeOK, NEW b, NEW st \in StatusCabine, NEW k \in OuNenhum(Lives)
    PROVE  /\ [cabine EXCEPT ![b].status = st] \in [Cabines -> Cabine]
           /\ [cabine EXCEPT ![b].status = st, ![b].live = k] \in [Cabines -> Cabine]
  <1> DEFINE um == [cabine[b] EXCEPT !.status = st]
             dois == [um EXCEPT !.live = k]
  <1>1. CASE b \in Cabines
    <2>1. cabine \in [Cabines -> Cabine] /\ cabine[b] \in Cabine
      BY <1>1 DEF TypeOK
    <2>2. um \in Cabine /\ dois \in Cabine
      BY <2>1 DEF Cabine
    <2>3. /\ [cabine EXCEPT ![b] = um] \in [Cabines -> Cabine]
          /\ [cabine EXCEPT ![b] = dois] \in [Cabines -> Cabine]
      BY <1>1, <2>1, <2>2
    <2>4. /\ [cabine EXCEPT ![b].status = st] = [cabine EXCEPT ![b] = um]
          /\ [cabine EXCEPT ![b].status = st, ![b].live = k] = [cabine EXCEPT ![b] = dois]
      BY <1>1, <2>1
    <2> QED BY <2>3, <2>4
  <1>2. CASE b \notin Cabines
    BY <1>2 DEF TypeOK
  <1> QED BY <1>1, <1>2

LEMMA TipoCabines == TypeOK /\ NextCabines => TypeOK'
<1> SUFFICES ASSUME TypeOK, NextCabines PROVE TypeOK'
  OBVIOUS
<1> USE DEF TypeOK, Cabine, StatusCabine, lado, solicitacoes
<1>1. ASSUME NEW b \in Cabines, NEW ct \in OuNenhum(Contratos),
             NEW c \in OuNenhum(Clientes), Reservar(b, ct, c)
      PROVE  TypeOK'
  <2>1. ContratoDaReserva(b, ct, c) \subseteq OuNenhum(Contratos)
    BY DEF ContratoDaReserva, UmOuNenhum, Ativos
  <2> QED BY <1>1, <2>1 DEF Reservar
<1>2. ASSUME NEW b \in Cabines, Liberar(b) PROVE TypeOK'
  BY <1>2 DEF Liberar
<1>3. ASSUME NEW b \in Cabines, NEW s \in StatusManual, MudarStatus(b, s) PROVE TypeOK'
  <2>1. [cabine EXCEPT ![b].status = s] \in [Cabines -> Cabine]
    BY <1>3, EscritaDeCabine DEF StatusManual
  <2> QED BY <1>3, <2>1 DEF MudarStatus
<1>4. ASSUME NEW b \in Cabines, NEW r \in Leitores, LerCabine(r, b) PROVE TypeOK'
  BY <1>4 DEF LerCabine, Leitura
<1>5. ASSUME NEW r \in Leitores, BuscarLive(r) PROVE TypeOK'
  <2>1. UltimaNoAr(leitor[r].cabine) \subseteq OuNenhum(Lives)
    BY DEF UltimaNoAr, UmOuNenhum, NoAr
  <2> QED BY <1>5, <2>1 DEF BuscarLive, Leitura, LeitorParado
<1>6. ASSUME NEW r \in Leitores, CorrigirCabine(r) PROVE TypeOK'
  <2>1. leitor[r] \in Leitura /\ leitor[r].live \in OuNenhum(Lives)
    BY DEF Leitura
  <2>2. cabine' \in [Cabines -> Cabine]
    BY <1>6, <2>1, EscritaDeCabine DEF CorrigirCabine, Normalizada
  <2>3. leitor' \in [Leitores -> Leitura]
    BY <1>6 DEF CorrigirCabine, Leitura, LeitorParado
  <2> QED BY <1>6, <2>2, <2>3 DEF CorrigirCabine
<1> QED BY <1>1, <1>2, <1>3, <1>4, <1>5, <1>6 DEF NextCabines
LEMMA TipoLives == TypeOK /\ NextLives => TypeOK'
<1> SUFFICES ASSUME TypeOK, NextLives PROVE TypeOK'
  OBVIOUS
<1> USE DEF TypeOK, lado, solicitacoes
<1>1. ASSUME NEW l \in Lives, NEW b \in Cabines, NEW tipo \in TiposDeLive,
             NEW c \in OuNenhum(Clientes), NEW e \in OuNenhum(TodosEventos),
             Iniciar(l, b, tipo, e, c)
      PROVE  TypeOK'
  <2>1. PICK c0, ct0, ct :
            /\ c0 \in ClienteResolvido(b, tipo, ClienteInformado(e, c))
            /\ ct0 \in ContratoResolvido(b, c0)
            /\ ct \in ContratoAtivo(ct0)
            /\ IniciarCom(l, b, tipo, e, c0, ct0, ct)
    BY <1>1 DEF Iniciar
  <2>2. ClienteInformado(e, c) \in OuNenhum(Clientes)
    BY DEF ClienteInformado, Evento
  <2>3. c0 \in OuNenhum(Clientes)
    BY <2>1, <2>2, PedidosTipados DEF ClienteResolvido, UmOuNenhum, ClientesAprovados
  <2>4. ct0 \in OuNenhum(Contratos)
    BY <2>1 DEF ContratoResolvido, UmOuNenhum, Ativos, Cabine
  <2>5. ct \in OuNenhum(Contratos)
    BY <2>1, <2>4 DEF ContratoAtivo, Ativos
  <2>6. cabine' \in [Cabines -> Cabine]
    BY <2>1, <2>5 DEF IniciarCom, Cabine, StatusCabine
  <2>7. lives' \in [Lives -> Live]
    BY <2>1 DEF IniciarCom, Live, StatusLive
  <2> DEFINE dela == IF ct0 # Nenhum THEN ClienteDe[ct0] ELSE c0
  <2>8. dela \in OuNenhum(Clientes)
    BY <2>3, <2>4, ContratosTipados
  <2>9. evento' \in [TodosEventos -> Evento]
    <3>1. evento' = AgendaIniciada(l, b, e, dela)
      BY <2>1 DEF IniciarCom
    <3> HIDE DEF dela
    <3>2. CASE e # Nenhum
      <4>1. e \in TodosEventos /\ evento[e] \in Evento
        BY <3>2
      <4>2. [evento[e] EXCEPT !.status = "ao_vivo", !.dono = l] \in Evento
        BY <4>1 DEF Evento, StatusEvento
      <4>3. evento' = [evento EXCEPT ![e] =
                        [evento[e] EXCEPT !.status = "ao_vivo", !.dono = l]]
        BY <3>1, <3>2, <4>1 DEF AgendaIniciada
      <4> QED BY <4>1, <4>2, <4>3
    <3>3. CASE e = Nenhum
      BY <3>1, <3>3, <2>8 DEF AgendaIniciada, Evento, StatusEvento
    <3> QED BY <3>2, <3>3
  <2> QED BY <1>1, <2>6, <2>7, <2>9 DEF Iniciar
<1>2. ASSUME NEW l \in Lives, NEW b \in Cabines, NEW tipo \in TiposDeLive,
             NEW c \in OuNenhum(Clientes), LancarManual(l, b, tipo, c)
      PROVE  TypeOK'
  BY <1>2 DEF LancarManual, Live, StatusLive
<1>3. ASSUME NEW l \in Lives, Encerrar(l) PROVE TypeOK'
  <2> DEFINE b == lives[l].cabine
             ct == cabine[b].contrato
  <2>1. lives' \in [Lives -> Live]
    BY <1>3 DEF Encerrar, Live, StatusLive
  <2>2. cabine' \in [Cabines -> Cabine]
    BY <1>3 DEF Encerrar, Cabine, StatusCabine
  <2>3. horas' \in [Contratos -> [Lives -> Nat]]
    <3>1. \/ horas' = horas
          \/ ct \in Contratos /\ horas' = [horas EXCEPT ![ct][l] = @ + 1]
      BY <1>3 DEF Encerrar, Cabine
    <3> HIDE DEF ct, b
    <3>2. horas \in [Contratos -> [Lives -> Nat]]
      OBVIOUS
    <3>3. ASSUME ct \in Contratos
          PROVE  [horas EXCEPT ![ct][l] = @ + 1] \in [Contratos -> [Lives -> Nat]]
      BY ONLY <3>2, <3>3, l \in Lives, MaisUm
    <3> QED BY <3>1, <3>2, <3>3
  <2>4. evento' \in [TodosEventos -> Evento]
    <3>1. \A e \in TodosEventos :
            [evento[e] EXCEPT !.status = "concluido"] \in Evento
      BY DEF Evento, StatusEvento
    <3> QED BY <1>3, <3>1 DEF Encerrar
  <2> QED BY <1>3, <2>1, <2>2, <2>3, <2>4 DEF Encerrar
<1>4. ASSUME NEW l \in Lives, NEW b \in Cabines, Editar(l, b) PROVE TypeOK'
  BY <1>4 DEF Editar, Live
<1>5. ASSUME NEW l \in Lives, Excluir(l) PROVE TypeOK'
  <2>1. lives' \in [Lives -> Live]
    BY <1>5 DEF Excluir, Live, StatusLive
  <2>2. cabine' \in [Cabines -> Cabine]
    BY <1>5 DEF Excluir, Cabine
  <2> QED BY <1>5, <2>1, <2>2 DEF Excluir
<1> QED BY <1>1, <1>2, <1>3, <1>4, <1>5 DEF NextLives

LEMMA TipoSolicitacoes == TypeOK /\ NextSolicitacoes => TypeOK'
<1> SUFFICES ASSUME TypeOK, NEW p \in Pedidos,
                    \/ ValidarPedido(p) \/ Solicitar(p)
                    \/ ValidarAprovacao(p) \/ Aprovar(p)
                    \/ ValidarAgendamento(p) \/ Agendar(p)
                    \/ VerificarRecusa(p) \/ Recusar(p)
             PROVE  TypeOK'
  BY DEF NextSolicitacoes
<1> USE DEF TypeOK, lado, Aprovacao, SemAprovacao, StatusPedido
<1>1. CASE ValidarPedido(p)
  BY <1>1 DEF ValidarPedido
<1>2. CASE Solicitar(p)
  BY <1>2 DEF Solicitar
<1>3. CASE ValidarAprovacao(p)
  BY <1>3 DEF ValidarAprovacao, Ativos
<1>4. CASE Aprovar(p)
  <2>1. aprovacao[p].contrato \in OuNenhum(Contratos)
    OBVIOUS
  <2>2. cabine' \in [Cabines -> Cabine]
    <3> DEFINE b == PedidoDe[p].cabine
               ct == aprovacao[p].contrato
               nova == [cabine[b] EXCEPT !.status = "reservada", !.contrato = ct]
    <3>1. b \in Cabines /\ cabine[b] \in Cabine
      BY PedidosTipados
    <3>2. nova \in Cabine
      BY <2>1, <3>1 DEF Cabine, StatusCabine
    <3>3. cabine' = cabine \/ cabine' = [cabine EXCEPT ![b] = nova]
      BY <1>4, <3>1 DEF Aprovar, ReservadaPor
    <3> QED BY <3>1, <3>2, <3>3
  <2> QED BY <1>4, <2>2 DEF Aprovar
<1>5. CASE ValidarAgendamento(p)
  BY <1>5 DEF ValidarAgendamento
<1>6. CASE Agendar(p)
  BY <1>6 DEF Agendar
<1>7. CASE VerificarRecusa(p)
  BY <1>7 DEF VerificarRecusa
<1>8. CASE Recusar(p)
  BY <1>8 DEF Recusar
<1> QED BY <1>1, <1>2, <1>3, <1>4, <1>5, <1>6, <1>7, <1>8

LEMMA TipoAgenda == TypeOK /\ NextAgenda => TypeOK'
<1> SUFFICES ASSUME TypeOK, NextAgenda PROVE TypeOK'
  OBVIOUS
<1> USE DEF TypeOK, lado, solicitacoes, Evento
<1>1. ASSUME NEW s \in StatusEvento \ {"inexistente"}, NEW e \in Eventos,
             NEW h \in BOOLEAN, CriarEvento(e, s, h)
      PROVE  TypeOK'
  BY <1>1, EventosTipados DEF CriarEvento
<1>2. ASSUME NEW s \in StatusEvento \ {"inexistente"}, NEW e \in TodosEventos,
             NEW b \in OuNenhum(Cabines), NEW h \in BOOLEAN, EditarEvento(e, s, b, h)
      PROVE  TypeOK'
  <2> DEFINE nova == EventoEditado(evento[e], s, b, h)
  <2>1. nova \in Evento
    <3> DEFINE v == evento[e]
    <3>1. v \in Evento /\ v.dono \in OuNenhum(Lives) /\ s \in StatusEvento
      OBVIOUS
    <3> HIDE DEF v
    <3>2. CASE s = v.status
      <4>1. nova = [v EXCEPT !.status = s, !.cabine = b, !.comecou = h,
                            !.dono = v.dono]
        BY <3>2 DEF EventoEditado, v
      <4> QED BY ONLY <3>1, <4>1, b \in OuNenhum(Cabines), h \in BOOLEAN DEF Evento
    <3>3. CASE s # v.status
      <4>1. nova = [v EXCEPT !.status = s, !.cabine = b, !.comecou = h,
                            !.dono = Nenhum]
        BY <3>3 DEF EventoEditado, v
      <4> QED BY ONLY <3>1, <4>1, b \in OuNenhum(Cabines), h \in BOOLEAN DEF Evento, OuNenhum
    <3> QED BY <3>2, <3>3
  <2>2. evento' = [evento EXCEPT ![e] = nova]
    BY <1>2 DEF EditarEvento
  <2> HIDE DEF nova
  <2>3. evento' \in [TodosEventos -> Evento]
    BY <2>1, <2>2
  <2> QED BY <1>2, <2>3 DEF EditarEvento
<1>3. ASSUME NEW e \in TodosEventos, ChegarAHora(e) PROVE TypeOK'
  <2>1. [evento[e] EXCEPT !.comecou = TRUE] \in Evento
    <3>1. evento[e] \in Evento
      OBVIOUS
    <3> QED BY ONLY <3>1 DEF Evento
  <2>2. evento' = [evento EXCEPT ![e] = [evento[e] EXCEPT !.comecou = TRUE]]
    BY <1>3 DEF ChegarAHora
  <2>3. evento' \in [TodosEventos -> Evento]
    <3>1. evento \in [TodosEventos -> Evento]
      OBVIOUS
    <3> QED BY ONLY <2>1, <2>2, <3>1, e \in TodosEventos
  <2> QED BY <1>3, <2>3 DEF ChegarAHora
<1> HIDE DEF TypeOK, lado, solicitacoes, Evento
<1> QED BY <1>1, <1>2, <1>3 DEF NextAgenda

LEMMA TipoContratos == TypeOK /\ NextContratos => TypeOK'
<1> SUFFICES ASSUME TypeOK, NextContratos PROVE TypeOK'
  OBVIOUS
<1> USE DEF TypeOK, solicitacoes, StatusContrato
<1>1. ASSUME NEW ct \in Contratos, Ativar(ct) PROVE TypeOK'
  BY <1>1 DEF Ativar, StatusDoCliente
<1>2. ASSUME NEW ct \in Contratos, Desativar(ct) PROVE TypeOK'
  BY <1>2 DEF Desativar, StatusDoCliente, Cabine, StatusCabine
<1>3. ASSUME NEW c \in Devedores, MudarCliente(c) PROVE TypeOK'
  BY <1>3, ClientesTipados DEF MudarCliente
<1> QED BY <1>1, <1>2, <1>3 DEF NextContratos

LEMMA TipoPoller == TypeOK /\ NextPoller => TypeOK'
<1> SUFFICES ASSUME TypeOK, NextPoller PROVE TypeOK'
  OBVIOUS
<1> USE DEF TypeOK, lado, solicitacoes, Poller, PollerParado
<1>1. CASE PollerConsulta
  BY <1>1 DEF PollerConsulta
<1>2. CASE PollerBusca
  BY <1>2 DEF PollerBusca, UmOuNenhum
<1>3. CASE PollerEncerra
  BY <1>3 DEF PollerEncerra, Live, StatusLive
<1>4. CASE PollerLibera
  BY <1>4 DEF PollerLibera, Cabine, StatusCabine
<1> QED BY <1>1, <1>2, <1>3, <1>4 DEF NextPoller

LEMMA TipoReiniciar == TypeOK /\ Reiniciar => TypeOK'
  BY DEF TypeOK, Reiniciar, lado, Aprovacao, SemAprovacao, Leitura, LeitorParado,
         Poller, PollerParado

LEMMA TipoPasso == TypeOK /\ [Next]_vars => TypeOK'
<1>1. TypeOK /\ UNCHANGED vars => TypeOK'
  BY DEF TypeOK, vars
<1> QED BY <1>1, TipoCabines, TipoLives, TipoSolicitacoes, TipoAgenda, TipoContratos,
           TipoPoller, TipoReiniciar DEF Next, Atendimento

\* Every column of every row keeps its type, whatever the handlers do.
THEOREM TipoCorreto == Spec => []TypeOK
  BY TipoInicial, TipoPasso, PTL DEF Spec

----------------------------------------------------------------------------
(* The contract a booth carries: fixed while the booth is on air, of the   *)
(* client it was reserved for, and active while reserved, provided no      *)
(* reservation comes from the approval of a request.                       *)

HIDE DEF TodosEventos

(* The contract of a booth that is on air after a step. *)

\* It is the contract the booth had, unless a live starts there.
LEMMA PassoDoContrato ==
    ASSUME TypeOK, [Next]_vars, NEW b \in Cabines, cabine'[b].status = "ao_vivo"
    PROVE  \/ cabine'[b].contrato = cabine[b].contrato
           \/ \E l \in Lives, tipo \in TiposDeLive,
                 c \in OuNenhum(Clientes), e \in OuNenhum(TodosEventos) :
                    Iniciar(l, b, tipo, e, c)
<1> DEFINE Mesmo == cabine'[b].contrato = cabine[b].contrato
<1> USE DEF TypeOK
<1>1. CASE cabine' = cabine
  BY <1>1
<1>2. CASE NextCabines
  <2>1. ASSUME NEW x \in Cabines, NEW ct \in OuNenhum(Contratos),
               NEW c \in OuNenhum(Clientes), Reservar(x, ct, c)
        PROVE  Mesmo
    BY <2>1 DEF Reservar
  <2>2. ASSUME NEW x \in Cabines, Liberar(x) PROVE Mesmo
    BY <2>2 DEF Liberar
  <2>3. ASSUME NEW x \in Cabines, NEW s \in StatusManual, MudarStatus(x, s) PROVE Mesmo
    BY <2>3 DEF MudarStatus, Cabine
  <2>4. ASSUME NEW r \in Leitores, CorrigirCabine(r) PROVE Mesmo
    BY <2>4 DEF CorrigirCabine, Normalizada, Cabine
  <2> QED BY <1>1, <1>2, <2>1, <2>2, <2>3, <2>4 DEF NextCabines, LerCabine, BuscarLive
<1>3. CASE NextLives
  <2>1. ASSUME NEW l \in Lives, NEW x \in Cabines, NEW tipo \in TiposDeLive,
               NEW c \in OuNenhum(Clientes), NEW e \in OuNenhum(TodosEventos),
               Iniciar(l, x, tipo, e, c)
        PROVE  Mesmo \/ x = b
    BY <2>1 DEF Iniciar, IniciarCom
  <2>2. ASSUME NEW l \in Lives, Encerrar(l) PROVE Mesmo
    BY <2>2 DEF Encerrar
  <2>3. ASSUME NEW l \in Lives, Excluir(l) PROVE Mesmo
    BY <2>3 DEF Excluir, Cabine
  <2>4. ASSUME NEW l \in Lives, NEW x \in Cabines, Editar(l, x) PROVE Mesmo
    BY <1>1, <2>4 DEF Editar
  <2>5. ASSUME NEW l \in Lives, NEW x \in Cabines, NEW tipo \in TiposDeLive,
               NEW c \in OuNenhum(Clientes), LancarManual(l, x, tipo, c)
        PROVE  Mesmo
    BY <1>1, <2>5 DEF LancarManual
  <2> QED BY <1>3, <2>1, <2>2, <2>3, <2>4, <2>5 DEF NextLives
<1>4. ASSUME NEW p \in Pedidos, Aprovar(p) PROVE Mesmo
  BY <1>4 DEF Aprovar, ReservadaPor, Cabine
<1>5. CASE NextSolicitacoes \/ NextAgenda
  BY <1>1, <1>4, <1>5 DEF NextSolicitacoes, NextAgenda, Solicitar,
    ValidarPedido, ValidarAprovacao,
     ValidarAgendamento, Agendar, VerificarRecusa, Recusar, CriarEvento, EditarEvento,
     ChegarAHora
<1>6. CASE NextContratos
  BY <1>1, <1>6 DEF NextContratos, Ativar, Desativar, MudarCliente
<1>7. CASE NextPoller
  BY <1>1, <1>7 DEF NextPoller, PollerConsulta, PollerBusca, PollerEncerra,
     PollerLibera, Cabine
<1>8. CASE Reiniciar \/ UNCHANGED vars
  BY <1>1, <1>8 DEF Reiniciar, vars
<1> QED BY <1>2, <1>3, <1>5, <1>6, <1>7, <1>8 DEF Next, Atendimento

\* While a booth stays on air nobody changes its contract.
THEOREM ContratoSempreFixoNoAr == Spec => ContratoFixoNoAr
<1>1. TypeOK /\ [Next]_vars => \A b \in Cabines :
        cabine[b].status = "ao_vivo" /\ cabine'[b].status = "ao_vivo"
            => cabine'[b].contrato = cabine[b].contrato
  BY PassoDoContrato DEF Iniciar, PodeIniciar
<1> QED BY <1>1, TipoCorreto, PTL DEF Spec, ContratoFixoNoAr

----------------------------------------------------------------------------
(* From reserved to on air. *)

\* A start in a booth reserved with a contract charges a contract of its client.
LEMMA InicioReservado ==
    ASSUME TypeOK, NEW b \in Cabines, cabine[b].status = "reservada",
           cabine[b].contrato # Nenhum,
           NEW l \in Lives, NEW tipo \in TiposDeLive, NEW c \in OuNenhum(Clientes),
           NEW e \in OuNenhum(TodosEventos), Iniciar(l, b, tipo, e, c)
    PROVE  /\ cabine'[b].contrato \in Contratos
           /\ ClienteDe[cabine'[b].contrato] = ClienteDe[cabine[b].contrato]
<1> DEFINE antes == cabine[b].contrato
<1>1. antes \in Contratos
  BY DEF TypeOK, Cabine
<1>2. PICK ct \in ContratoAtivo(antes), c0 \in OuNenhum(Clientes) :
        IniciarCom(l, b, tipo, e, c0, antes, ct)
  <2>1. \A c0 : ContratoResolvido(b, c0) = {antes}
    BY DEF ContratoResolvido, ComReserva
  <2>2. ClienteInformado(e, c) \in OuNenhum(Clientes)
    BY DEF ClienteInformado, TypeOK, Evento
  <2>3. ClienteResolvido(b, tipo, ClienteInformado(e, c)) \subseteq OuNenhum(Clientes)
    BY <2>2 DEF ClienteResolvido, ComReserva
  <2> QED BY <2>1, <2>3 DEF Iniciar
<1>3. ct \in Contratos /\ ClienteDe[ct] = ClienteDe[antes]
  BY <1>1, <1>2 DEF ContratoAtivo, Ativos
<1>4. cabine'[b].contrato = ct
  <2>1. ct # Nenhum
    BY <1>3, NenhumEForaDosDados
  <2> QED BY <1>2, <2>1 DEF IniciarCom, TypeOK
<1> QED BY <1>3, <1>4

\* No route turns the reservation of one client into a live billed to another.
THEOREM ReservaSempreDoMesmoCliente == Spec => ReservaDoMesmoCliente
<1>1. ASSUME TypeOK, [Next]_vars, NEW b \in Cabines, cabine[b].status = "reservada",
             cabine[b].contrato # Nenhum, cabine'[b].status = "ao_vivo"
      PROVE  /\ cabine'[b].contrato # Nenhum
             /\ ClienteDe[cabine'[b].contrato] = ClienteDe[cabine[b].contrato]
  BY <1>1, PassoDoContrato, InicioReservado, NenhumEForaDosDados
<1>2. TypeOK /\ [Next]_vars => \A b \in Cabines :
        LET antes == cabine[b].contrato
            depois == cabine'[b].contrato
        IN  cabine[b].status = "reservada" /\ antes # Nenhum /\ cabine'[b].status = "ao_vivo"
                => depois # Nenhum /\ ClienteDe[depois] = ClienteDe[antes]
  BY <1>1
<1> QED BY <1>2, TipoCorreto, PTL DEF Spec, ReservaDoMesmoCliente

----------------------------------------------------------------------------
(* Reservations made by the panel alone. *)

LEMMA PassoDaReserva ==
    ASSUME TypeOK, Pedidos = {}, ReservaComContratoAtivo, [Next]_vars
    PROVE  ReservaComContratoAtivo'
<1> SUFFICES ASSUME NEW b \in Cabines, cabine'[b].status = "reservada",
                    cabine'[b].contrato # Nenhum
             PROVE  contrato'[cabine'[b].contrato] = "ativo"
  BY DEF ReservaComContratoAtivo
<1> DEFINE Ativo == contrato'[cabine'[b].contrato] = "ativo"
<1> USE DEF TypeOK
<1>1. CASE cabine'[b] = cabine[b] /\ contrato' = contrato
  BY <1>1 DEF ReservaComContratoAtivo
<1>2. CASE NextCabines
  <2>1. ASSUME NEW x \in Cabines, NEW ct \in OuNenhum(Contratos),
               NEW c \in OuNenhum(Clientes), Reservar(x, ct, c)
        PROVE  Ativo
    <3>1. PICK k \in ContratoDaReserva(x, ct, c) :
            cabine' = [cabine EXCEPT ![x] =
                        [status |-> "reservada", contrato |-> k, live |-> Nenhum]]
      BY <2>1 DEF Reservar
    <3>2. contrato' = contrato
      BY <2>1 DEF Reservar, lado
    <3>3. k = Nenhum \/ contrato[k] = "ativo"
      BY DEF ContratoDaReserva, UmOuNenhum, Ativos
    <3> QED BY <1>1, <3>1, <3>2, <3>3
  <2>2. ASSUME NEW x \in Cabines, Liberar(x) PROVE Ativo
    BY <1>1, <2>2 DEF Liberar, lado
  <2>3. ASSUME NEW x \in Cabines, NEW s \in StatusManual, MudarStatus(x, s) PROVE Ativo
    <3>1. x = b => cabine'[b].status = s
      BY <2>3 DEF MudarStatus, Cabine
    <3> QED BY <1>1, <2>3, <3>1 DEF MudarStatus, StatusManual, lado
  <2>4. ASSUME NEW r \in Leitores, CorrigirCabine(r) PROVE Ativo
    <3> DEFINE x == leitor[r].cabine
    <3>1. x = b => cabine' = cabine \/ cabine'[b].status \in {"disponivel", "ao_vivo"}
      BY <2>4 DEF CorrigirCabine, Normalizada, Cabine
    <3>2. x # b => cabine'[b] = cabine[b]
      BY <2>4 DEF CorrigirCabine, Normalizada
    <3>3. contrato' = contrato
      BY <2>4 DEF CorrigirCabine, lado
    <3> QED BY <1>1, <3>1, <3>2, <3>3
  <2> QED BY <1>1, <1>2, <2>1, <2>2, <2>3, <2>4 DEF NextCabines, LerCabine, BuscarLive, lado
<1>3. CASE NextLives
  <2>1. ASSUME NEW l \in Lives, NEW x \in Cabines, NEW tipo \in TiposDeLive,
               NEW c \in OuNenhum(Clientes), NEW e \in OuNenhum(TodosEventos),
               Iniciar(l, x, tipo, e, c)
        PROVE  Ativo
    BY <1>1, <2>1 DEF Iniciar, IniciarCom, lado
  <2>2. ASSUME NEW l \in Lives, Encerrar(l) PROVE Ativo
    BY <1>1, <2>2 DEF Encerrar, lado
  <2>3. ASSUME NEW l \in Lives, Excluir(l) PROVE Ativo
    <3>1. /\ cabine'[b].status = cabine[b].status
          /\ cabine'[b].contrato = cabine[b].contrato
      BY <2>3 DEF Excluir, Cabine
    <3> QED BY <2>3, <3>1 DEF Excluir, lado, ReservaComContratoAtivo
  <2>4. ASSUME NEW l \in Lives, NEW x \in Cabines, Editar(l, x) PROVE Ativo
    BY <1>1, <2>4 DEF Editar, lado
  <2>5. ASSUME NEW l \in Lives, NEW x \in Cabines, NEW tipo \in TiposDeLive,
               NEW c \in OuNenhum(Clientes), LancarManual(l, x, tipo, c)
        PROVE  Ativo
    BY <1>1, <2>5 DEF LancarManual, lado
  <2> QED BY <1>3, <2>1, <2>2, <2>3, <2>4, <2>5 DEF NextLives
<1>4. CASE NextSolicitacoes \/ NextAgenda
  BY <1>1, <1>4 DEF NextSolicitacoes, NextAgenda, CriarEvento, EditarEvento,
     ChegarAHora, lado
<1>5. ASSUME NEW ct \in Contratos, Desativar(ct) PROVE Ativo
  <2>1. cabine'[b] = cabine[b] /\ ~SoltaPeloGatilho(b, ct)
    BY <1>5 DEF Desativar
  <2>2. cabine[b].contrato # ct /\ contrato[cabine[b].contrato] = "ativo"
    BY <2>1 DEF SoltaPeloGatilho, ReservaComContratoAtivo
  <2> QED BY <1>5, <2>1, <2>2 DEF Desativar
<1>6. ASSUME NEW ct \in Contratos, Ativar(ct) PROVE Ativo
  BY <1>6 DEF Ativar, ReservaComContratoAtivo
<1>7. CASE NextContratos
  BY <1>1, <1>5, <1>6, <1>7 DEF NextContratos, MudarCliente
<1>8. CASE PollerLibera
  <2>1. cabine'[b] = cabine[b] \/ cabine'[b].status = "disponivel"
    BY <1>8 DEF PollerLibera, Cabine
  <2> QED BY <1>1, <1>8, <2>1 DEF PollerLibera, lado
<1>9. CASE NextPoller \/ Reiniciar \/ UNCHANGED vars
  BY <1>1, <1>8, <1>9 DEF NextPoller, PollerConsulta, PollerBusca, PollerEncerra,
     Reiniciar, vars, lado
<1> QED BY <1>2, <1>3, <1>4, <1>7, <1>9 DEF Next, Atendimento

\* Without approvals a reserved booth never carries a contract that is not
\* active: the checks of reservar and the trigger are enough.  (With them it
\* may: an approval writes the contract it read before that was cancelled.)
THEOREM ReservaSempreComContratoAtivo ==
    ASSUME Pedidos = {}
    PROVE  Spec => []ReservaComContratoAtivo
<1>1. Init => ReservaComContratoAtivo
  BY DEF Init, ReservaComContratoAtivo
<1>2. TypeOK /\ ReservaComContratoAtivo /\ [Next]_vars => ReservaComContratoAtivo'
  BY PassoDaReserva
<1> QED BY <1>1, <1>2, TipoCorreto, PTL DEF Spec
=============================================================================
