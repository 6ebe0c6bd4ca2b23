---------------------------- MODULE RotasCabines ----------------------------
(***************************************************************************)
(* The handlers of routes/cabines.js that change a booth.  The PATCH       *)
(* routes lock the booth row first (SELECT ... FOR UPDATE), so each is one *)
(* step.  GET live-atual locks nothing and repairs what it read: it is     *)
(* three steps, and anything may happen between them.                      *)
(***************************************************************************)
EXTENDS EstudioBase

\* Another booth carries contract ct.
VinculadoAOutra(ct, b) == \E outra \in Cabines \ {b} : cabine[outra].contrato = ct

\* The contract a reservation stores: the one named in the body, which must
\* be active and free; or one of the client in the body, ignored when another
\* booth has it; or none.
ContratoDaReserva(b, ct, c) ==
    IF ct # Nenhum
    THEN {k \in {ct} : contrato[k] = "ativo" /\ ~VinculadoAOutra(k, b)}
    ELSE {IF k # Nenhum /\ VinculadoAOutra(k, b) THEN Nenhum ELSE k :
            k \in UmOuNenhum(Ativos(c))}

\* PATCH /v1/cabines/:id/reservar
Reservar(b, ct, c) ==
    /\ cabine[b].status = "disponivel"
    /\ cabine[b].live = Nenhum
    /\ \E k \in ContratoDaReserva(b, ct, c) :
        cabine' = [cabine EXCEPT ![b] =
                    [status |-> "reservada", contrato |-> k, live |-> Nenhum]]
    /\ UNCHANGED <<lives, lado, horas, solicitacoes, evento, leitor, poller>>

\* PATCH /v1/cabines/:id/liberar: a live on air only earns a warning.
Liberar(b) ==
    /\ cabine' = [cabine EXCEPT ![b] =
                    [status |-> "disponivel", contrato |-> Nenhum, live |-> Nenhum]]
    /\ UNCHANGED <<lives, lado, horas, solicitacoes, evento, leitor, poller>>

\* Mutant of StatusManual: the schema alone, without the CHECK of migration 081.
StatusDoSchema == {"disponivel", "ativa", "manutencao"}

\* Of the statuses the schema accepts, those the CHECK of migration 081 lets in:
\* a request for 'ativa' fails and changes nothing.
StatusManual == {"disponivel", "manutencao"}

\* PATCH /v1/cabines/:id/status
MudarStatus(b, status) ==
    /\ status \in StatusManual
    /\ cabine[b].live = Nenhum
    /\ cabine[b].status # "ao_vivo"
    /\ cabine' = [cabine EXCEPT ![b].status = status]
    /\ UNCHANGED <<lives, lado, horas, solicitacoes, evento, leitor, poller>>

----------------------------------------------------------------------------
(* GET /v1/cabines/:id/live-atual *)

\* First query: the booth's status and link.
LerCabine(r, b) ==
    /\ leitor[r].pc = "parado"
    /\ leitor' = [leitor EXCEPT ![r] =
                    [pc |-> "leu", cabine |-> b, aoVivo |-> cabine[b].status = "ao_vivo",
                     live |-> cabine[b].live]]
    /\ UNCHANGED <<cabine, lives, lado, horas, solicitacoes, evento, poller>>

\* The newest live on air of booth b (ORDER BY iniciado_em DESC LIMIT 1).
UltimaNoAr(b) == UmOuNenhum({l \in NoAr(b) : \A k \in NoAr(b) : k <= l})

\* Mutants of PrecisaCorrigir: only the link is compared; a live found is ignored.
PrecisaCorrigirVinculo(v, achou) == v.live # achou
PrecisaSoNormalizar(v, achou) == achou = Nenhum /\ (v.aoVivo \/ v.live # Nenhum)

\* What was read of the booth contradicts the live found: none found but the
\* booth on air or linked, or found and the booth not on air with that link.
PrecisaCorrigir(v, achou) ==
    IF achou = Nenhum THEN v.aoVivo \/ v.live # Nenhum
    ELSE v.live # achou \/ ~v.aoVivo

\* Second query, and the decision to repair the booth or only answer.
BuscarLive(r) ==
    LET v == leitor[r]
    IN  /\ v.pc = "leu"
        /\ \E achou \in UltimaNoAr(v.cabine) :
            leitor' = [leitor EXCEPT ![r] =
                        IF PrecisaCorrigir(v, achou)
                        THEN [pc |-> "buscou", cabine |-> v.cabine, aoVivo |-> FALSE,
                              live |-> achou]
                        ELSE LeitorParado]
        /\ UNCHANGED <<cabine, lives, lado, horas, solicitacoes, evento, poller>>

\* Mutant of Normalizada: the link stays.
NormalizadaComVinculo(b) == [cabine EXCEPT ![b].status = "disponivel"]

Normalizada(b) == [cabine EXCEPT ![b].status = "disponivel", ![b].live = Nenhum]

\* Third query: the booth is normalised or resynchronised from those reads.  An
\* UPDATE that names a deleted live breaks the foreign key and changes nothing.
CorrigirCabine(r) ==
    LET b == leitor[r].cabine
        achou == leitor[r].live
    IN  /\ leitor[r].pc = "buscou"
        /\ cabine' = IF achou = Nenhum
                     THEN Normalizada(b)
                     ELSE IF lives[achou].status = "excluida" THEN cabine
                     ELSE [cabine EXCEPT ![b].status = "ao_vivo", ![b].live = achou]
        /\ leitor' = [leitor EXCEPT ![r] = LeitorParado]
        /\ UNCHANGED <<lives, lado, horas, solicitacoes, evento, poller>>

NextCabines ==
    \/ \E b \in Cabines :
        \/ \E ct \in OuNenhum(Contratos), c \in OuNenhum(Clientes) : Reservar(b, ct, c)
        \/ Liberar(b)
        \/ \E s \in StatusManual : MudarStatus(b, s)
        \/ \E r \in Leitores : LerCabine(r, b)
    \/ \E r \in Leitores : BuscarLive(r) \/ CorrigirCabine(r)
=============================================================================
