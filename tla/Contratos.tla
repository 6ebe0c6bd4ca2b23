----------------------------- MODULE Contratos -----------------------------
(***************************************************************************)
(* The life of a contract: creation, signature, credit analysis, audit by  *)
(* the franchisor, activation, cancellation, and the daily job that        *)
(* cancels contracts refused days ago and not decided since.               *)
(*                                                                         *)
(* Audit actions lock the row and record an event in one transaction.      *)
(* Other routes read the status in one query and write it in another.      *)
(* The job is one SQL statement, but it fixes its contracts when it starts *)
(* and may wait for a locked row: what the lock's owner committed is then  *)
(* overwritten.                                                            *)
(***************************************************************************)
EXTENDS Integers

CONSTANTS
    Ids,          \* contracts
    Titulares,    \* their clients
    TitularDe,
    Prazo,        \* CONTRACT_EXPIRATION_DAYS
    Bloqueio      \* days a refusal forbids a new contract

ASSUME TitularesConhecidos == TitularDe \in [Ids -> Titulares]
ASSUME PrazosNaturais == Prazo \in Nat /\ Bloqueio \in Nat /\ Prazo <= Bloqueio

VARIABLES
    contrato,     \* status and days since reviewed_at (Bloqueio when more)
    titular,      \* clientes.status, as contracts write it
    evento,       \* last row of contrato_eventos of each contract
    requisicao,   \* requests between their two queries
    varredura     \* contracts the running job found expired

varsContratos == <<contrato, titular, evento, requisicao, varredura>>

\* Those of the CHECK that some statement writes.
StatusDoContrato == {"rascunho", "em_analise", "pendencia_comercial", "reprovado",
                     "ativo", "cancelado", "arquivado", "cancelado_automaticamente"}
Acoes == {"criar", "assinar_digital", "analisar", "ativar"}
Auditorias == {"aprovar", "pendencia", "reprovar", "arquivar", "assumir_risco"}

ContratosInit ==
    /\ contrato = [c \in Ids |-> [status |-> "nao_ha", dias |-> Bloqueio]]
    /\ titular = [t \in Titulares |-> "negociacao"]
    /\ evento = [c \in Ids |-> "nenhum"]
    /\ requisicao = [c \in Ids |-> {}]
    /\ varredura = {}

Em(c, S) == contrato[c].status \in S
ComStatus(c, s) == [contrato EXCEPT ![c].status = s]
Entrar(c, a) == requisicao' = [requisicao EXCEPT ![c] = @ \cup {a}]
Sair(c, a) == requisicao' = [requisicao EXCEPT ![c] = @ \ {a}]

----------------------------------------------------------------------------
(* Requests in two queries. *)

\* POST /contratos and /quick: refused while a contract of the client is
\* 'reprovado' and was reviewed in the last Bloqueio days.
VerificarBloqueio(c) ==
    /\ Em(c, {"nao_ha"}) /\ "criar" \notin requisicao[c]
    /\ \A d \in Ids : TitularDe[d] = TitularDe[c] /\ Em(d, {"reprovado"})
                          => contrato[d].dias >= Bloqueio
    /\ Entrar(c, "criar")
    /\ UNCHANGED <<contrato, titular, evento, varredura>>

Criar(c) ==
    /\ "criar" \in requisicao[c]
    /\ contrato' = ComStatus(c, "rascunho")
    /\ Sair(c, "criar")
    /\ UNCHANGED <<titular, evento, varredura>>

\* The status each request wants to find.
Admite(a) == CASE a = "assinar_digital" -> {"rascunho"}
               [] a = "analisar"        -> {"em_analise"}
               [] a = "ativar"          -> {"rascunho", "em_analise", "pendencia_comercial"}
               [] OTHER                 -> {}

LerContrato(c, a) ==
    /\ Em(c, Admite(a)) /\ a \notin requisicao[c]
    /\ Entrar(c, a)
    /\ UNCHANGED <<contrato, titular, evento, varredura>>

\* The credit score decides between the two outcomes of a signature on the
\* pad and of an analysis.
Resultados(a) == CASE a = "assinar_digital" -> {"ativo", "em_analise"}
                   [] a = "analisar"        -> {"ativo", "cancelado"}
                   [] OTHER                 -> {"ativo"}

\* The UPDATE does not look at the status again.  Only the signature writes
\* the client's status along.
Concluir(c, a) ==
    /\ a \in requisicao[c] \ {"criar"}
    /\ \E s \in Resultados(a) :
        /\ contrato' = ComStatus(c, s)
        /\ titular' = IF a = "assinar_digital" /\ s = "ativo"
                        THEN [titular EXCEPT ![TitularDe[c]] = "ativo"] ELSE titular
    /\ Sair(c, a)
    /\ UNCHANGED <<evento, varredura>>

----------------------------------------------------------------------------
(* Requests in one query or transaction. *)

Assinar(c) ==
    /\ Em(c, {"rascunho"})
    /\ contrato' = ComStatus(c, "em_analise")
    /\ UNCHANGED <<titular, evento, requisicao, varredura>>

Cancelar(c) ==
    /\ Em(c, {"em_analise", "ativo"})
    /\ contrato' = ComStatus(c, "cancelado")
    /\ UNCHANGED <<titular, evento, requisicao, varredura>>

\* PATCH assumir-risco, with the password checked before.
AssumirRisco(c) ==
    /\ Em(c, {"em_analise", "cancelado"})
    /\ contrato' = ComStatus(c, "ativo")
    /\ titular' = [titular EXCEPT ![TitularDe[c]] = "ativo"]
    /\ UNCHANGED <<evento, requisicao, varredura>>

\* From which statuses each audit action is accepted, and where it leads.
Auditavel(c, a) ==
    CASE a = "aprovar"   -> Em(c, {"em_analise", "pendencia_comercial", "reprovado"})
      [] a = "pendencia" -> Em(c, {"em_analise", "reprovado"})
      [] a = "reprovar"  -> Em(c, {"em_analise", "pendencia_comercial"})
      [] OTHER           -> ~Em(c, {"nao_ha"})

\* Mutant of Destino: the name of the action is written.
DestinoCru(a) == a
Destino(a) == CASE a = "pendencia" -> "pendencia_comercial"
                [] a = "reprovar"  -> "reprovado"
                [] a = "arquivar"  -> "arquivado"
                [] OTHER           -> "ativo"

\* Mutant of ComEvento: a repeated audit of the same contract is not recorded.
ComEventoUmaVez(c, e) == [evento EXCEPT ![c] = IF @ = "nenhum" THEN e ELSE @]

\* insertContratoEvento; the event is named after the status.
ComEvento(c, e) == [evento EXCEPT ![c] = e]

\* executarAcaoAuditoria, in one transaction with the row locked.
Auditar(c, a) ==
    /\ Auditavel(c, a)
    /\ contrato' = [contrato EXCEPT ![c] =
            [status |-> Destino(a), dias |-> IF a = "assumir_risco" THEN @.dias ELSE 0]]
    /\ titular' = [titular EXCEPT ![TitularDe[c]] = Destino(a)]
    /\ evento' = ComEvento(c, Destino(a))
    /\ UNCHANGED <<requisicao, varredura>>

----------------------------------------------------------------------------
(* The daily job and the days. *)

\* Mutant of Expirados: one day more is asked of contracts that never reach it.
ExpiradosTarde == {c \in Ids : Em(c, {"reprovado"}) /\ contrato[c].dias > Bloqueio}

\* AND cancelado_automaticamente_em IS NULL adds nothing: a contract the job
\* cancelled is never refused again.
Expirados == {c \in Ids : Em(c, {"reprovado"}) /\ contrato[c].dias >= Prazo}

\* The snapshot of the statement.
IniciarVarredura ==
    /\ varredura = {} /\ Expirados # {}
    /\ varredura' = Expirados
    /\ UNCHANGED <<contrato, titular, evento, requisicao>>

\* UPDATE ... WHERE c.id = e.id, client and event.
CancelarExpirados ==
    /\ varredura # {}
    /\ contrato' = [c \in Ids |-> IF c \in varredura
            THEN [contrato[c] EXCEPT !.status = "cancelado_automaticamente"] ELSE contrato[c]]
    /\ titular' = [t \in Titulares |-> IF \E c \in varredura : TitularDe[c] = t
            THEN "cancelado_automaticamente" ELSE titular[t]]
    /\ evento' = [c \in Ids |-> IF c \in varredura
            THEN "cancelado_automaticamente" ELSE evento[c]]
    /\ varredura' = {}
    /\ UNCHANGED <<requisicao>>

UmDiaMais(n) == IF n < Bloqueio THEN n + 1 ELSE n

\* No request and no job lasts a day.
PassarDia ==
    /\ varredura = {}
    /\ \A c \in Ids : requisicao[c] = {}
    /\ \E c \in Ids : contrato[c].dias < Bloqueio
    /\ contrato' = [c \in Ids |-> [contrato[c] EXCEPT !.dias = UmDiaMais(@)]]
    /\ UNCHANGED <<titular, evento, requisicao, varredura>>

----------------------------------------------------------------------------
ContratosNext ==
    \/ \E c \in Ids :
        \/ VerificarBloqueio(c) \/ Criar(c) \/ Assinar(c) \/ Cancelar(c) \/ AssumirRisco(c)
        \/ \E a \in Acoes : LerContrato(c, a) \/ Concluir(c, a)
        \/ \E a \in Auditorias : Auditar(c, a)
    \/ IniciarVarredura \/ CancelarExpirados \/ PassarDia

ContratosSpec == ContratosInit /\ [][ContratosNext]_varsContratos

\* Requests end, days pass between them, and the job runs every day.
VarreduraDiaria ==
    /\ \A c \in Ids : WF_varsContratos(Criar(c) \/ \E a \in Acoes : Concluir(c, a))
    /\ SF_varsContratos(PassarDia)
    /\ WF_varsContratos(IniciarVarredura)
    /\ WF_varsContratos(CancelarExpirados)

----------------------------------------------------------------------------
ContratosTypeOK ==
    /\ contrato \in [Ids -> [status: StatusDoContrato \cup {"nao_ha"}, dias: 0..Bloqueio]]
    /\ titular \in [Titulares -> StatusDoContrato \cup {"negociacao"}]
    /\ evento \in [Ids -> StatusDoContrato \cup {"nenhum"}]
    /\ requisicao \in [Ids -> SUBSET Acoes]
    /\ varredura \subseteq Ids

\* A status only an audit or the job can give has that decision as the last
\* event of the contract, whatever stale request or late job wrote meanwhile.
EventoDoStatus ==
    \A c \in Ids :
        Em(c, {"pendencia_comercial", "reprovado", "arquivado", "cancelado_automaticamente"})
            => evento[c] = contrato[c].status

\* A refused contract does not stay refused: someone decides, or the job
\* cancels it.
ReprovadoSeResolve == \A c \in Ids : Em(c, {"reprovado"}) ~> ~Em(c, {"reprovado"})
=============================================================================
