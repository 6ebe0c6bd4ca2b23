------------------------------- MODULE Leads -------------------------------
(***************************************************************************)
(* Leads of a franchise: the CRM routes managers work with at the same     *)
(* time, and the webhook that brings the leads of the public form, whose   *)
(* sender repeats a delivery it has no good answer for.                    *)
(*                                                                         *)
(* ganhar and pegar are transactions that lock the lead when they read it  *)
(* (SELECT ... FOR UPDATE) and write it later; the other routes are one    *)
(* UPDATE or DELETE, which waits for the lock.                             *)
(***************************************************************************)
EXTENDS Integers, FiniteSets

CONSTANTS
    IdsDeLead,
    Gestores,
    Submissoes,      \* submissions of the form
    MaxEntregas,     \* bound: deliveries of each
    MaxReaberturas,  \* bound: times each lead leaves 'ganho'
    NinguemLead      \* no lead, no submission

ASSUME LimitesDeLeads == MaxEntregas \in Nat /\ MaxReaberturas \in Nat
ASSUME NinguemLeadNovo == NinguemLead \notin IdsDeLead \cup Submissoes

VARIABLES
    lead,          \* rows of leads
    transacao,     \* open transaction of each manager
    protegido,     \* WEBHOOK_REPLAY_PROTECTION; off unless it is set
    noncesDoForm,  \* webhook_replay_log
    entrega,       \* deliveries of each submission, and those past the checks
    convertidos,   \* auxiliary: clients created from each lead
    reaberturas,   \* auxiliary: times a lead left 'ganho'
    pegadas        \* auxiliary: times a lead was taken

varsLeads == <<lead, transacao, protegido, noncesDoForm, entrega, convertidos,
               reaberturas, pegadas>>

Lead == [etapa: {"nao_ha", "aberta", "ganho", "excluido"},   \* crm_etapa, or no row
         status: {"disponivel", "pego"},
         cliente: BOOLEAN,                        \* convertido_cliente_id
         envio: Submissoes \cup {NinguemLead}]    \* payload_externo
Transacao == [rota: {"nenhuma", "ganhar", "pegar"}, lead: IdsDeLead \cup {NinguemLead}]

SemLead == [etapa |-> "nao_ha", status |-> "disponivel", cliente |-> FALSE,
            envio |-> NinguemLead]
SemTransacao == [rota |-> "nenhuma", lead |-> NinguemLead]

LeadsInit ==
    /\ lead = [l \in IdsDeLead |-> SemLead]
    /\ transacao = [g \in Gestores |-> SemTransacao]
    /\ protegido \in BOOLEAN
    /\ noncesDoForm = {}
    /\ entrega = [s \in Submissoes |-> [feitas |-> 0, aceitas |-> 0]]
    /\ convertidos = [l \in IdsDeLead |-> 0]
    /\ reaberturas = [l \in IdsDeLead |-> 0]
    /\ pegadas = [l \in IdsDeLead |-> 0]

Existe(l) == lead[l].etapa \in {"aberta", "ganho"}

\* Mutant of Destrancado: the SELECT takes no lock.
DestrancadoSempre(l) == TRUE
Destrancado(l) == \A g \in Gestores : transacao[g].lead # l

Contar(contagem, l) == [contagem EXCEPT ![l] = @ + 1]

----------------------------------------------------------------------------
(* The CRM. *)

\* POST /leads: a lead of the CRM is born taken, at any stage.
CriarLead(l) ==
    /\ lead[l].etapa = "nao_ha"
    /\ \E e \in {"aberta", "ganho"} :
        lead' = [lead EXCEPT ![l] = [SemLead EXCEPT !.etapa = e, !.status = "pego"]]
    /\ UNCHANGED <<transacao, protegido, noncesDoForm, entrega, convertidos, reaberturas, pegadas>>

\* PATCH: any stage to any stage; the client of a converted lead stays.
MudarEtapa(l) ==
    /\ Existe(l) /\ Destrancado(l)
    /\ \E e \in {"aberta", "ganho"} :
        /\ e # lead[l].etapa
        /\ lead' = [lead EXCEPT ![l].etapa = e]
        /\ reaberturas' = IF e = "aberta" THEN Contar(reaberturas, l) ELSE reaberturas
    /\ reaberturas[l] < MaxReaberturas
    /\ UNCHANGED <<transacao, protegido, noncesDoForm, entrega, convertidos, pegadas>>

ExcluirLead(l) ==
    /\ Existe(l) /\ Destrancado(l)
    /\ lead' = [lead EXCEPT ![l].etapa = "excluido"]
    /\ UNCHANGED <<transacao, protegido, noncesDoForm, entrega, convertidos, reaberturas, pegadas>>

\* BEGIN and SELECT ... FOR UPDATE; a lead already converted, or already
\* taken, ends in ROLLBACK.
Trancar(g, l, rota) ==
    /\ transacao[g] = SemTransacao
    /\ Existe(l) /\ Destrancado(l)
    /\ IF rota = "ganhar" THEN lead[l].etapa # "ganho" ELSE lead[l].status = "disponivel"
    /\ transacao' = [transacao EXCEPT ![g] = [rota |-> rota, lead |-> l]]
    /\ UNCHANGED <<lead, protegido, noncesDoForm, entrega, convertidos, reaberturas, pegadas>>

\* Client, active contract and lead, and COMMIT.
ConverterLead(g) ==
    LET l == transacao[g].lead
    IN  /\ transacao[g].rota = "ganhar"
        /\ lead' = [lead EXCEPT ![l].etapa = "ganho", ![l].status = "pego",
                                ![l].cliente = TRUE]
        /\ convertidos' = Contar(convertidos, l)
        /\ transacao' = [transacao EXCEPT ![g] = SemTransacao]
        /\ UNCHANGED <<protegido, noncesDoForm, entrega, reaberturas, pegadas>>

Pegar(g) ==
    LET l == transacao[g].lead
    IN  /\ transacao[g].rota = "pegar"
        /\ lead' = [lead EXCEPT ![l].status = "pego"]
        /\ pegadas' = Contar(pegadas, l)
        /\ transacao' = [transacao EXCEPT ![g] = SemTransacao]
        /\ UNCHANGED <<protegido, noncesDoForm, entrega, convertidos, reaberturas>>

\* A query fails, or the process ends: ROLLBACK.
DesfazerTransacao(g) ==
    /\ transacao[g] # SemTransacao
    /\ transacao' = [transacao EXCEPT ![g] = SemTransacao]
    /\ UNCHANGED <<lead, protegido, noncesDoForm, entrega, convertidos, reaberturas, pegadas>>

----------------------------------------------------------------------------
(* The form's webhook.  The replay log is kept only when the environment    *)
(* sets WEBHOOK_REPLAY_PROTECTION; deliveries of a submission repeat its    *)
(* nonce.                                                                   *)

\* Mutant of NovoEnvio: the answer of the INSERT is not looked at.
NovoEnvioSempre(s) == TRUE
NovoEnvio(s) == protegido => s \notin noncesDoForm

\* A delivery arrives, first or repeated.  With the protection, INSERT of its
\* nonce, committed at once, and 409 when it was there (a delivery refused
\* before that, or whose INSERT fails, changes nothing).
ReceberEnvio(s) ==
    /\ entrega[s].feitas < MaxEntregas
    /\ noncesDoForm' = IF protegido THEN noncesDoForm \cup {s} ELSE noncesDoForm
    /\ entrega' = [entrega EXCEPT ![s].feitas = @ + 1,
                                  ![s].aceitas = IF NovoEnvio(s) THEN @ + 1 ELSE @]
    /\ UNCHANGED <<lead, transacao, protegido, convertidos, reaberturas, pegadas>>

GravarLead(s) ==
    /\ entrega[s].aceitas > 0
    /\ \E l \in IdsDeLead :
        /\ lead[l].etapa = "nao_ha"
        /\ lead' = [lead EXCEPT ![l] = [SemLead EXCEPT !.etapa = "aberta", !.envio = s]]
    /\ entrega' = [entrega EXCEPT ![s].aceitas = @ - 1]
    /\ UNCHANGED <<transacao, protegido, noncesDoForm, convertidos, reaberturas, pegadas>>

\* 500: the nonce stays.
FalharEnvio(s) ==
    /\ entrega[s].aceitas > 0
    /\ entrega' = [entrega EXCEPT ![s].aceitas = @ - 1]
    /\ UNCHANGED <<lead, transacao, protegido, noncesDoForm, convertidos, reaberturas, pegadas>>

----------------------------------------------------------------------------
LeadsNext ==
    \/ \E l \in IdsDeLead :
        \/ CriarLead(l) \/ MudarEtapa(l) \/ ExcluirLead(l)
        \/ \E g \in Gestores, rota \in {"ganhar", "pegar"} : Trancar(g, l, rota)
    \/ \E g \in Gestores : ConverterLead(g) \/ Pegar(g) \/ DesfazerTransacao(g)
    \/ \E s \in Submissoes : ReceberEnvio(s) \/ GravarLead(s) \/ FalharEnvio(s)

LeadsSpec == LeadsInit /\ [][LeadsNext]_varsLeads

----------------------------------------------------------------------------
LeadsTypeOK ==
    /\ lead \in [IdsDeLead -> Lead]
    /\ transacao \in [Gestores -> Transacao]
    /\ protegido \in BOOLEAN /\ noncesDoForm \subseteq Submissoes
    /\ entrega \in [Submissoes -> [feitas: 0..MaxEntregas, aceitas: 0..MaxEntregas]]
    /\ {convertidos, reaberturas, pegadas} \subseteq [IdsDeLead -> Nat]

\* Two managers who win or take the same lead, or win it while another edits
\* or deletes it, do it once: a lead gives one client more than the times it
\* was reopened by hand, and is taken from the pool once.
LeadDisputado ==
    \A l \in IdsDeLead : convertidos[l] <= 1 + reaberturas[l] /\ pegadas[l] <= 1

\* What a manager read under the lock still holds when the transaction
\* writes: nobody converts, takes, edits or deletes the lead meanwhile.
LeituraTrancada ==
    \A g \in Gestores : LET t == transacao[g] IN
        /\ t.rota = "ganhar" => lead[t.lead].etapa = "aberta"
        /\ t.rota = "pegar" => Existe(t.lead) /\ lead[t.lead].status = "disponivel"

DoEnvio(s) == {l \in IdsDeLead : lead[l].envio = s}

\* With the replay protection a submission becomes at most one lead, however
\* often it is delivered and in whatever order its deliveries are processed
\* (none when the delivery that wrote the nonce failed: the repeated ones are
\* refused).  Without it, as the server runs by default, every delivery may
\* leave a lead, and no delivery leaves two.
LeadsPorEnvio ==
    \A s \in Submissoes :
        /\ protegido => Cardinality(DoEnvio(s)) + entrega[s].aceitas <= 1
        /\ Cardinality(DoEnvio(s)) + entrega[s].aceitas <= entrega[s].feitas
=============================================================================
