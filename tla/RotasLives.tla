----------------------------- MODULE RotasLives -----------------------------
(***************************************************************************)
(* The handlers of routes/lives.js: start, end, manual entry, edition and  *)
(* deletion of a live.  Start and end hold the row locks of the booth (and *)
(* of the live and the contract) from their first query to COMMIT, and     *)
(* what they read without a lock is only read once, so each is one step.   *)
(***************************************************************************)
EXTENDS EstudioBase

\* Events today's automatic lookup of a start in booth b may return.
Agendados(b) ==
    {e \in TodosEventos : /\ evento[e].status = "planejado" /\ evento[e].cabine = b
                          /\ EventoDeHoje(e)}

\* An event named in the body is taken whatever its booth, day or status;
\* without one, some event of Agendados(b) is, if there is any.
EventoAceito(b, e) ==
    IF e = Nenhum THEN Agendados(b) = {} ELSE evento[e].status # "inexistente"

\* Client of the marca of the event, or else the one in the body.
ClienteInformado(e, c) ==
    IF e # Nenhum /\ evento[e].cliente # Nenhum THEN evento[e].cliente ELSE c

\* Clients of the requests approved for today in booth b.
ClientesAprovados(b) ==
    {PedidoDe[p].cliente : p \in {q \in Pedidos :
        pedido[q] = "aprovada" /\ PedidoDe[q].hoje /\ PedidoDe[q].cabine = b}}

\* Mutant of ComReserva: the status that migration 081 removed.
ComCabineAtiva(b) == cabine[b].status = "ativa" /\ cabine[b].contrato # Nenhum

ComReserva(b) == cabine[b].status = "reservada" /\ cabine[b].contrato # Nenhum

\* Client and contract a start works with before it looks at the contract row.
\* A booth reserved with a contract keeps it; any other booth gets an active
\* contract of the client, if the client is known.
ClienteResolvido(b, tipo, c) ==
    IF ~ComReserva(b) /\ tipo = "cliente" /\ c = Nenhum
    THEN UmOuNenhum(ClientesAprovados(b)) ELSE {c}
ContratoResolvido(b, c) ==
    IF ~ComReserva(b) /\ c # Nenhum THEN UmOuNenhum(Ativos(c)) ELSE {cabine[b].contrato}

\* A contract that is not active is replaced by an active one of its client;
\* with none the start is refused (empty set).
ContratoAtivo(ct) ==
    IF ct = Nenhum \/ contrato[ct] = "ativo" THEN {ct} ELSE Ativos(ClienteDe[ct])

\* Mutant of AgendaIniciada: the automatic event is created in any case.
AgendaIniciadaEmDobro(l, b, e, c) ==
    [x \in TodosEventos |->
        IF x = e THEN [evento[x] EXCEPT !.status = "ao_vivo", !.dono = l]
        ELSE IF x = l /\ c \in ComMarca
        THEN [status |-> "ao_vivo", cabine |-> b, cliente |-> c, comecou |-> TRUE,
              dono |-> l]
        ELSE evento[x]]

\* agenda_eventos after the start of l: the event found goes on air, or else
\* an event is created when the client has an active marca.
AgendaIniciada(l, b, e, c) ==
    IF e # Nenhum THEN [evento EXCEPT ![e].status = "ao_vivo", ![e].dono = l]
    ELSE IF c \in ComMarca
         THEN [evento EXCEPT ![l] = [status |-> "ao_vivo", cabine |-> b,
                                     cliente |-> c, comecou |-> TRUE, dono |-> l]]
         ELSE evento

\* What a start writes, once client c0 and contracts ct0, then ct are resolved.
IniciarCom(l, b, tipo, e, c0, ct0, ct) ==
    LET c == IF ct0 # Nenhum THEN ClienteDe[ct0] ELSE c0
    IN  /\ tipo = "cliente" => c # Nenhum /\ c \notin inadimplente
        /\ lives' = [lives EXCEPT ![l] = [status |-> "em_andamento", cabine |-> b,
                                          origem |-> b]]
        /\ cabine' = [cabine EXCEPT ![b] =
                        [status |-> "ao_vivo", live |-> l,
                         contrato |-> IF ct = Nenhum THEN cabine[b].contrato ELSE ct]]
        /\ evento' = AgendaIniciada(l, b, e, c)

PodeIniciar(b) == cabine[b].status \in {"disponivel", "reservada"} /\ cabine[b].live = Nenhum

\* POST /v1/lives
Iniciar(l, b, tipo, e, pedidoPor) ==
    /\ Proxima(l)
    /\ EventoAceito(b, e)
    /\ PodeIniciar(b)
    /\ \E c \in ClienteResolvido(b, tipo, ClienteInformado(e, pedidoPor)) :
        \E ct0 \in ContratoResolvido(b, c) :
            \E ct \in ContratoAtivo(ct0) : IniciarCom(l, b, tipo, e, c, ct0, ct)
    /\ UNCHANGED <<lado, horas, solicitacoes, leitor, poller>>

\* Mutant of PodeEncerrar: the status is not in the WHERE.
PodeEncerrarDeNovo(l) == lives[l].status \in {"em_andamento", "encerrada"}

PodeEncerrar(l) == lives[l].status = "em_andamento"

\* Events the end of a live in booth b concludes.  Each gets data_fim = NOW(),
\* which the CHECK (data_fim > data_inicio) of migration 080 only lets in after
\* data_inicio: otherwise the whole end is rolled back.
NoArNaAgenda(b) ==
    {e \in TodosEventos : evento[e].status = "ao_vivo" /\ evento[e].cabine = b
                           /\ EventoDeHoje(e)}
AgendaConclui(b) == \A e \in NoArNaAgenda(b) : evento[e].comecou

\* PATCH /v1/lives/:id/encerrar: hours go to the contract the booth of the
\* live carries now; the booth is freed and keeps that contract if active.
Encerrar(l) ==
    LET b == lives[l].cabine
        ct == cabine[b].contrato
    IN  /\ PodeEncerrar(l)
        /\ AgendaConclui(b)
        /\ lives' = [lives EXCEPT ![l].status = "encerrada"]
        /\ horas' = IF ct = Nenhum THEN horas ELSE [horas EXCEPT ![ct][l] = @ + 1]
        /\ evento' = [e \in TodosEventos |->
                        IF e \in NoArNaAgenda(b) THEN [evento[e] EXCEPT !.status = "concluido"]
                        ELSE evento[e]]
        /\ cabine' = [cabine EXCEPT ![b] =
                        [status |-> "disponivel", live |-> Nenhum,
                         contrato |-> IF ct # Nenhum /\ contrato[ct] = "ativo"
                                      THEN ct ELSE Nenhum]]
        /\ UNCHANGED <<lado, solicitacoes, leitor, poller>>

\* POST /v1/lives/manual: a live that is entered already ended.
LancarManual(l, b, tipo, c) ==
    /\ Proxima(l)
    /\ tipo = "cliente" => c # Nenhum /\ c \notin inadimplente
    /\ lives' = [lives EXCEPT ![l] = [status |-> "encerrada", cabine |-> b,
                                      origem |-> Nenhum]]
    /\ UNCHANGED <<cabine, lado, horas, solicitacoes, evento, leitor, poller>>

\* PATCH /v1/lives/:id: only ended lives; may move them to another booth.
Editar(l, b) ==
    /\ lives[l].status = "encerrada"
    /\ lives' = [lives EXCEPT ![l].cabine = b]
    /\ UNCHANGED <<cabine, lado, horas, solicitacoes, evento, leitor, poller>>

\* Mutant of PodeExcluir: a live on air may be deleted.
PodeExcluirNoAr(l) == lives[l].status \in {"em_andamento", "encerrada"}

PodeExcluir(l) == lives[l].status = "encerrada"

\* DELETE /v1/lives/:id.  The status is read before the transaction, but an
\* ended live never goes back on air.  cabines.live_atual_id is ON DELETE SET
\* NULL, so a booth that names the live keeps its status and loses the link.
Excluir(l) ==
    /\ PodeExcluir(l)
    /\ lives' = [lives EXCEPT ![l].status = "excluida"]
    /\ cabine' = [b \in Cabines |-> IF cabine[b].live = l
                                    THEN [cabine[b] EXCEPT !.live = Nenhum] ELSE cabine[b]]
    /\ UNCHANGED <<lado, horas, solicitacoes, evento, leitor, poller>>

TiposDeLive == {"cliente", "afiliado", "teste"}

NextLives ==
    \E l \in Lives :
        \/ \E b \in Cabines, tipo \in TiposDeLive, c \in OuNenhum(Clientes) :
            \/ \E e \in OuNenhum(TodosEventos) : Iniciar(l, b, tipo, e, c)
            \/ LancarManual(l, b, tipo, c)
        \/ Encerrar(l)
        \/ \E b \in Cabines : Editar(l, b)
        \/ Excluir(l)
=============================================================================
