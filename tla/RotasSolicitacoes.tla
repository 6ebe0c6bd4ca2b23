------------------------- MODULE RotasSolicitacoes -------------------------
(***************************************************************************)
(* Requests for a live (live_requests) and the agenda.  aprovar locks the  *)
(* request, but reads the other requests and the contract without a lock:  *)
(* it is two steps, validation and write.  The creation of a request by    *)
(* its client or by the unit has the same shape.  recusar checks the       *)
(* status and updates in separate transactions.                            *)
(***************************************************************************)
EXTENDS EstudioBase

Sobrepostos(p) == {q \in Pedidos : <<p, q>> \in Sobrepoe}

\* A client asks for a live.  The portal refuses a slot overlapped by any
\* request not refused; the dashboard only checks that the booth carries an
\* active contract of the client.
PortalAceita(p) == \A q \in Sobrepostos(p) : pedido[q] \in {"inexistente", "recusada"}
PainelAceita(p) == LET ct == cabine[PedidoDe[p].cabine].contrato
                   IN  ct # Nenhum /\ ct \in Ativos(PedidoDe[p].cliente)

\* POST /v1/cliente/solicitacao and POST /v1/cliente/cabines/:id/solicitar-live:
\* the check, which locks nothing, ...
ValidarPedido(p) ==
    /\ pedido[p] = "inexistente" /\ aprovacao[p].fase = "livre"
    /\ PortalAceita(p) \/ PainelAceita(p)
    /\ aprovacao' = [aprovacao EXCEPT ![p] = [fase |-> "pedida", contrato |-> Nenhum]]
    /\ UNCHANGED <<cabine, lives, lado, horas, pedido, recusando, evento, leitor, poller>>

\* ... and the INSERT.
Solicitar(p) ==
    /\ aprovacao[p].fase = "pedida"
    /\ pedido' = [pedido EXCEPT ![p] = "pendente"]
    /\ aprovacao' = [aprovacao EXCEPT ![p] = SemAprovacao]
    /\ UNCHANGED <<cabine, lives, lado, horas, recusando, evento, leitor, poller>>

SemAprovadoSobreposto(p) == \A q \in Sobrepostos(p) : pedido[q] # "aprovada"

\* PATCH /v1/solicitacoes/:id/aprovar, up to the read of the contract.
ValidarAprovacao(p) ==
    /\ pedido[p] = "pendente" /\ aprovacao[p].fase = "livre"
    /\ SemAprovadoSobreposto(p)
    /\ \E ct \in Ativos(PedidoDe[p].cliente) :
        aprovacao' = [aprovacao EXCEPT ![p] = [fase |-> "validada", contrato |-> ct]]
    /\ UNCHANGED <<cabine, lives, lado, horas, pedido, recusando, evento, leitor, poller>>

\* Mutant of ReservadaPor: no WHERE on the status.
ReservadaSempre(b, ct) ==
    [cabine EXCEPT ![b].status = "reservada", ![b].contrato = ct]

\* UPDATE cabines ... WHERE status = 'disponivel'.
ReservadaPor(b, ct) ==
    IF cabine[b].status = "disponivel"
    THEN [cabine EXCEPT ![b].status = "reservada", ![b].contrato = ct]
    ELSE cabine

\* ... and its writes: the booth is reserved if it is free at that moment,
\* whatever the day of the request.
Aprovar(p) ==
    LET b == PedidoDe[p].cabine
    IN  /\ aprovacao[p].fase = "validada"
        /\ pedido' = [pedido EXCEPT ![p] = "aprovada"]
        /\ cabine' = ReservadaPor(b, aprovacao[p].contrato)
        /\ aprovacao' = [aprovacao EXCEPT ![p] = SemAprovacao]
        /\ UNCHANGED <<lives, lado, horas, recusando, evento, leitor, poller>>

\* POST /v1/solicitacoes: the overlap query, then the INSERT of an approved row.
ValidarAgendamento(p) ==
    /\ pedido[p] = "inexistente" /\ aprovacao[p].fase = "livre"
    /\ SemAprovadoSobreposto(p)
    /\ aprovacao' = [aprovacao EXCEPT ![p] = [fase |-> "nova", contrato |-> Nenhum]]
    /\ UNCHANGED <<cabine, lives, lado, horas, pedido, recusando, evento, leitor, poller>>

Agendar(p) ==
    /\ aprovacao[p].fase = "nova"
    /\ pedido' = [pedido EXCEPT ![p] = "aprovada"]
    /\ aprovacao' = [aprovacao EXCEPT ![p] = SemAprovacao]
    /\ UNCHANGED <<cabine, lives, lado, horas, recusando, evento, leitor, poller>>

\* PATCH /v1/solicitacoes/:id/recusar: the check ...
VerificarRecusa(p) ==
    /\ pedido[p] = "pendente"
    /\ recusando' = recusando \cup {p}
    /\ UNCHANGED <<cabine, lives, lado, horas, pedido, aprovacao, evento, leitor, poller>>

\* ... and the UPDATE, which waits for the row lock of an approval in progress
\* and does not look at the status again.
Recusar(p) ==
    /\ p \in recusando
    /\ aprovacao[p].fase = "livre"
    /\ pedido' = [pedido EXCEPT ![p] = "recusada"]
    /\ recusando' = recusando \ {p}
    /\ UNCHANGED <<cabine, lives, lado, horas, aprovacao, evento, leitor, poller>>

----------------------------------------------------------------------------
(* routes/agenda.js: an event may be created and put in any status by hand. *)

\* POST /v1/agenda: an overlap only earns a warning.
CriarEvento(e, status, comecou) ==
    /\ evento[e].status = "inexistente"
    /\ evento' = [evento EXCEPT ![e] =
                    [status |-> status, cabine |-> EventoDe[e].cabine,
                     cliente |-> EventoDe[e].cliente, comecou |-> comecou,
                     dono |-> Nenhum]]
    /\ UNCHANGED <<cabine, lives, lado, horas, solicitacoes, leitor, poller>>

\* A status set by hand is not the doing of a live.
EventoEditado(v, status, b, comecou) ==
    [v EXCEPT !.status = status, !.cabine = b, !.comecou = comecou,
              !.dono = IF status = v.status THEN v.dono ELSE Nenhum]

\* PATCH /v1/agenda/:id, which may change the booth, the status and the hours,
\* and DELETE /v1/agenda/:id, which cancels.
EditarEvento(e, status, b, comecou) ==
    /\ evento[e].status # "inexistente"
    /\ evento' = [evento EXCEPT ![e] = EventoEditado(evento[e], status, b, comecou)]
    /\ UNCHANGED <<cabine, lives, lado, horas, solicitacoes, leitor, poller>>

\* Time passes, up to the start of an event.
ChegarAHora(e) ==
    /\ evento[e].status # "inexistente" /\ ~evento[e].comecou
    /\ evento' = [evento EXCEPT ![e].comecou = TRUE]
    /\ UNCHANGED <<cabine, lives, lado, horas, solicitacoes, leitor, poller>>

NextSolicitacoes ==
    \E p \in Pedidos :
        \/ ValidarPedido(p)
        \/ Solicitar(p)
        \/ ValidarAprovacao(p)
        \/ Aprovar(p)
        \/ ValidarAgendamento(p)
        \/ Agendar(p)
        \/ VerificarRecusa(p)
        \/ Recusar(p)

NextAgenda ==
    \/ \E s \in StatusEvento \ {"inexistente"}, comecou \in BOOLEAN :
        \/ \E e \in Eventos : CriarEvento(e, s, comecou)
        \/ \E e \in TodosEventos, b \in OuNenhum(Cabines) : EditarEvento(e, s, b, comecou)
    \/ \E e \in TodosEventos : ChegarAHora(e)
=============================================================================
