---------------------------- MODULE LeadsProofs ----------------------------
(***************************************************************************)
(* For any number of leads, managers, submissions and deliveries: a lead   *)
(* is converted and taken once (LeadsSempreDisputados), a submission of    *)
(* the form becomes at most one lead with the replay protection and as     *)
(* many as its deliveries without it (LeadsSemprePorEnvio), and the        *)
(* variables keep their types (LeadsTipo).                                 *)
(***************************************************************************)
EXTENDS Leads, FiniteSetTheorems, TLAPS

TiposUsados ==
    /\ lead \in [IdsDeLead -> Lead]
    /\ transacao \in [Gestores -> Transacao]
    /\ noncesDoForm \subseteq Submissoes
    /\ entrega \in [Submissoes -> [feitas: Nat, aceitas: Nat]]
    /\ convertidos \in [IdsDeLead -> Nat]
    /\ reaberturas \in [IdsDeLead -> Nat]
    /\ pegadas \in [IdsDeLead -> Nat]

\* An open transaction names a lead, and no two name the same.
TravaUnica ==
    /\ \A g \in Gestores : transacao[g].rota = "nenhuma" <=> transacao[g].lead = NinguemLead
    /\ \A g, h \in Gestores :
        transacao[g].lead = transacao[h].lead /\ transacao[g].lead # NinguemLead => g = h

\* Only a lead that is, or was when deleted, 'ganho' may have given more
\* clients than it was reopened; one taken is never offered again.
ContasDosLeads ==
    \A l \in IdsDeLead :
        /\ convertidos[l] <= 1 + reaberturas[l]
        /\ lead[l].etapa \in {"nao_ha", "aberta"} => convertidos[l] <= reaberturas[l]
        /\ pegadas[l] <= 1
        /\ lead[l].etapa = "nao_ha" => pegadas[l] = 0
        /\ lead[l].status = "disponivel" => pegadas[l] = 0

LeadsInv == TiposUsados /\ LeituraTrancada /\ TravaUnica /\ ContasDosLeads

\* With the protection, the deliveries of a submission past the checks, and
\* its lead, exclude each other, and there is neither before its nonce is
\* written.
NonceInv ==
    \A s \in Submissoes :
        /\ entrega[s].aceitas \in {0, 1}
        /\ entrega[s].aceitas = 1 => \A l \in IdsDeLead : lead[l].envio # s
        /\ s \notin noncesDoForm =>
            entrega[s].aceitas = 0 /\ \A l \in IdsDeLead : lead[l].envio # s
        /\ \A l, k \in IdsDeLead : lead[l].envio = s /\ lead[k].envio = s => l = k

\* Each lead of a submission, and each delivery past the checks, is of a
\* delivery of its own.
ContaInv ==
    \A s \in Submissoes :
        /\ IsFiniteSet(DoEnvio(s))
        /\ Cardinality(DoEnvio(s)) + entrega[s].aceitas <= entrega[s].feitas

EnviosInv == (protegido => NonceInv) /\ ContaInv

----------------------------------------------------------------------------
LEMMA ContaVazia ==
    ASSUME \A s \in Submissoes :
               DoEnvio(s) = {} /\ entrega[s].feitas = 0 /\ entrega[s].aceitas = 0
    PROVE  ContaInv
<1>1. IsFiniteSet({}) /\ Cardinality({}) = 0
    BY FS_EmptySet
<1>2. ASSUME NEW s \in Submissoes
      PROVE  IsFiniteSet(DoEnvio(s)) /\ Cardinality(DoEnvio(s)) = 0
    <2>1. DoEnvio(s) = {} OBVIOUS
    <2> QED BY <1>1, <2>1
<1> QED BY <1>2 DEF ContaInv

LEMMA LeadsInicial == LeadsInit => LeadsInv /\ EnviosInv
<1> SUFFICES ASSUME LeadsInit PROVE LeadsInv /\ EnviosInv
    OBVIOUS
<1> USE LeadsInit DEF LeadsInit, SemLead, SemTransacao
<1>1. TiposUsados
    BY DEF TiposUsados, Lead, Transacao
<1>2. LeituraTrancada /\ TravaUnica /\ ContasDosLeads
    BY DEF LeituraTrancada, TravaUnica, ContasDosLeads
<1>3. NonceInv
    BY NinguemLeadNovo DEF NonceInv
<1>4. \A s \in Submissoes : DoEnvio(s) = {} /\ entrega[s].feitas = 0 /\ entrega[s].aceitas = 0
    BY NinguemLeadNovo DEF DoEnvio
<1>5. ContaInv
    BY <1>4, ContaVazia
<1> QED BY <1>1, <1>2, <1>3, <1>5 DEF LeadsInv, EnviosInv

\* A step that leaves the transactions alone, or moves one of them, keeps
\* the locks apart.
LEMMA TravaPasso == LeadsInv /\ [LeadsNext]_varsLeads => TravaUnica'
<1> SUFFICES ASSUME LeadsInv, [LeadsNext]_varsLeads PROVE TravaUnica'
    OBVIOUS
<1> USE NinguemLeadNovo DEF LeadsInv, TiposUsados, TravaUnica, Transacao, SemTransacao
<1>1. CASE UNCHANGED transacao
    BY <1>1
<1>2. ASSUME NEW l \in IdsDeLead, NEW g \in Gestores, NEW r \in {"ganhar", "pegar"},
             Trancar(g, l, r)
      PROVE TravaUnica'
    BY <1>2 DEF Trancar, Destrancado
<1>3. ASSUME NEW g \in Gestores, transacao' = [transacao EXCEPT ![g] = SemTransacao]
      PROVE TravaUnica'
    BY <1>3
<1>4. ASSUME NEW l \in IdsDeLead, CriarLead(l) \/ MudarEtapa(l) \/ ExcluirLead(l)
      PROVE TravaUnica'
    BY <1>1, <1>4 DEF CriarLead, MudarEtapa, ExcluirLead
<1>5. ASSUME NEW g \in Gestores, ConverterLead(g) \/ Pegar(g) \/ DesfazerTransacao(g)
      PROVE TravaUnica'
    BY <1>3, <1>5 DEF ConverterLead, Pegar, DesfazerTransacao
<1>6. ASSUME NEW s \in Submissoes, ReceberEnvio(s) \/ GravarLead(s) \/ FalharEnvio(s)
      PROVE TravaUnica'
    BY <1>1, <1>6 DEF ReceberEnvio, GravarLead, FalharEnvio
<1>7. CASE UNCHANGED varsLeads
    BY <1>1, <1>7 DEF varsLeads
<1> QED BY <1>2, <1>4, <1>5, <1>6, <1>7 DEF LeadsNext

LEMMA LeadsPasso == LeadsInv /\ [LeadsNext]_varsLeads => LeadsInv'
<1> SUFFICES ASSUME LeadsInv, [LeadsNext]_varsLeads
             PROVE TiposUsados' /\ LeituraTrancada' /\ ContasDosLeads'
    BY TravaPasso DEF LeadsInv
<1> USE NinguemLeadNovo
<1> DEFINE Outros(l) == \A k \in IdsDeLead \ {l} : lead'[k] = lead[k]
           Contas == <<convertidos, reaberturas, pegadas>>
<1>t. TiposUsados /\ LeituraTrancada /\ TravaUnica /\ ContasDosLeads
    BY DEF LeadsInv
<1>a. \A l \in IdsDeLead : Destrancado(l) \/ \E g \in Gestores : transacao[g].lead = l
    BY DEF Destrancado
<1>b. \A g \in Gestores : transacao[g].lead \in IdsDeLead => Existe(transacao[g].lead)
    BY <1>t DEF TiposUsados, TravaUnica, LeituraTrancada, Transacao, Existe
\* A step that changes a lead nobody has locked leaves what was read in place.
<1>c. ASSUME NEW l \in IdsDeLead, Outros(l), UNCHANGED transacao,
             Destrancado(l) \/ ~Existe(l)
      PROVE LeituraTrancada'
    <2>1. \A g \in Gestores : transacao[g].lead # l
        BY <1>b, <1>c DEF Destrancado
    <2> QED BY <1>c, <1>t, <2>1 DEF LeituraTrancada, Existe, TravaUnica, TiposUsados, Transacao
<1>d. ASSUME NEW l \in IdsDeLead, lead' = lead, UNCHANGED Contas
      PROVE ContasDosLeads'
    BY <1>d, <1>t DEF ContasDosLeads
<1>1. CASE UNCHANGED varsLeads
    BY <1>1, <1>t DEF varsLeads, TiposUsados, LeituraTrancada, ContasDosLeads, Existe
<1>2. ASSUME NEW l \in IdsDeLead, CriarLead(l)
      PROVE TiposUsados' /\ LeituraTrancada' /\ ContasDosLeads'
    <2>1. PICK e \in {"aberta", "ganho"} :
            lead' = [lead EXCEPT ![l] = [SemLead EXCEPT !.etapa = e, !.status = "pego"]]
        BY <1>2 DEF CriarLead
    <2>2. /\ lead' \in [IdsDeLead -> Lead] /\ Outros(l)
          /\ lead'[l].etapa = e /\ lead'[l].status = "pego"
        BY <1>t, <2>1 DEF TiposUsados, Lead, SemLead
    <2>3. lead[l].etapa = "nao_ha" /\ UNCHANGED <<transacao, noncesDoForm, entrega, Contas>>
        BY <1>2 DEF CriarLead
    <2>4. TiposUsados' BY <1>t, <2>2, <2>3 DEF TiposUsados
    <2>5. LeituraTrancada' BY <1>c, <2>2, <2>3 DEF Existe
    <2>6. ContasDosLeads' BY <1>t, <2>2, <2>3 DEF ContasDosLeads, TiposUsados
    <2> QED BY <2>4, <2>5, <2>6
<1>3. ASSUME NEW l \in IdsDeLead, MudarEtapa(l)
      PROVE TiposUsados' /\ LeituraTrancada' /\ ContasDosLeads'
    <2>1. PICK e \in {"aberta", "ganho"} :
            /\ e # lead[l].etapa
            /\ lead' = [lead EXCEPT ![l].etapa = e]
            /\ reaberturas' = IF e = "aberta" THEN Contar(reaberturas, l) ELSE reaberturas
        BY <1>3 DEF MudarEtapa
    <2>2. /\ lead' \in [IdsDeLead -> Lead] /\ Outros(l)
          /\ lead'[l].etapa = e /\ lead'[l].status = lead[l].status
        BY <1>t, <2>1 DEF TiposUsados, Lead
    <2>3. /\ Destrancado(l) /\ Existe(l)
          /\ UNCHANGED <<transacao, noncesDoForm, entrega, convertidos, pegadas>>
        BY <1>3 DEF MudarEtapa
    <2>4. /\ reaberturas' \in [IdsDeLead -> Nat]
          /\ \A k \in IdsDeLead \ {l} : reaberturas'[k] = reaberturas[k]
          /\ e = "aberta" => reaberturas'[l] = reaberturas[l] + 1
          /\ e = "ganho" => reaberturas'[l] = reaberturas[l]
        BY <1>t, <2>1 DEF TiposUsados, Contar
    <2>5. TiposUsados' BY <1>t, <2>2, <2>3, <2>4 DEF TiposUsados
    <2>6. LeituraTrancada' BY <1>c, <2>2, <2>3
    <2>7. ContasDosLeads' BY <1>t, <2>2, <2>3, <2>4 DEF ContasDosLeads, TiposUsados, Existe
    <2> QED BY <2>5, <2>6, <2>7
<1>4. ASSUME NEW l \in IdsDeLead, ExcluirLead(l)
      PROVE TiposUsados' /\ LeituraTrancada' /\ ContasDosLeads'
    <2>1. /\ Destrancado(l) /\ Existe(l)
          /\ lead' = [lead EXCEPT ![l].etapa = "excluido"]
          /\ UNCHANGED <<transacao, noncesDoForm, entrega, Contas>>
        BY <1>4 DEF ExcluirLead
    <2>2. /\ lead' \in [IdsDeLead -> Lead] /\ Outros(l)
          /\ lead'[l].etapa = "excluido" /\ lead'[l].status = lead[l].status
        BY <1>t, <2>1 DEF TiposUsados, Lead
    <2>3. TiposUsados' BY <1>t, <2>1, <2>2 DEF TiposUsados
    <2>4. LeituraTrancada' BY <1>c, <2>1, <2>2
    <2>5. ContasDosLeads' BY <1>t, <2>1, <2>2 DEF ContasDosLeads, TiposUsados, Existe
    <2> QED BY <2>3, <2>4, <2>5
<1>5. ASSUME NEW l \in IdsDeLead, NEW g \in Gestores, NEW r \in {"ganhar", "pegar"},
             Trancar(g, l, r)
      PROVE TiposUsados' /\ LeituraTrancada' /\ ContasDosLeads'
    <2>1. /\ Existe(l) /\ transacao' = [transacao EXCEPT ![g] = [rota |-> r, lead |-> l]]
          /\ r = "ganhar" => lead[l].etapa # "ganho"
          /\ r = "pegar" => lead[l].status = "disponivel"
          /\ UNCHANGED <<lead, noncesDoForm, entrega, Contas>>
        BY <1>5 DEF Trancar
    <2>2. TiposUsados' BY <1>t, <2>1 DEF TiposUsados, Transacao
    <2>3. LeituraTrancada' BY <1>t, <2>1 DEF LeituraTrancada, TiposUsados, Existe, Transacao
    <2> QED BY <1>d, <2>1, <2>2, <2>3
<1>6. ASSUME NEW g \in Gestores, ConverterLead(g)
      PROVE TiposUsados' /\ LeituraTrancada' /\ ContasDosLeads'
    <2> DEFINE l == transacao[g].lead
    <2>1. l \in IdsDeLead /\ lead[l].etapa = "aberta"
        BY <1>6, <1>t DEF ConverterLead, TiposUsados, TravaUnica, LeituraTrancada, Transacao
    <2>2. /\ lead' = [lead EXCEPT ![l].etapa = "ganho", ![l].status = "pego", ![l].cliente = TRUE]
          /\ convertidos' = Contar(convertidos, l)
          /\ transacao' = [transacao EXCEPT ![g] = SemTransacao]
          /\ UNCHANGED <<noncesDoForm, entrega, reaberturas, pegadas>>
        BY <1>6 DEF ConverterLead
    <2> HIDE DEF l
    <2>3. /\ lead' \in [IdsDeLead -> Lead] /\ Outros(l)
          /\ lead'[l].etapa = "ganho" /\ lead'[l].status = "pego"
        <3>1. lead[l] \in Lead BY <1>t, <2>1 DEF TiposUsados
        <3> DEFINE nova == [lead[l] EXCEPT !.etapa = "ganho", !.status = "pego", !.cliente = TRUE]
        <3>2. nova \in Lead /\ nova.etapa = "ganho" /\ nova.status = "pego"
            BY <3>1 DEF Lead
        <3>3. lead' = [lead EXCEPT ![l] = nova]
            BY <1>t, <2>1, <2>2 DEF TiposUsados
        <3> HIDE DEF nova
        <3> QED BY <1>t, <2>1, <3>2, <3>3 DEF TiposUsados
    <2>4. /\ convertidos' \in [IdsDeLead -> Nat] /\ convertidos'[l] = convertidos[l] + 1
          /\ \A k \in IdsDeLead \ {l} : convertidos'[k] = convertidos[k]
        BY <1>t, <2>1, <2>2 DEF TiposUsados, Contar
    <2>5. TiposUsados' BY <1>t, <2>2, <2>3, <2>4 DEF TiposUsados, Transacao, SemTransacao
    <2>6. \A h \in Gestores \ {g} : transacao'[h] = transacao[h] /\ transacao[h].lead # l
        BY <1>t, <2>1, <2>2 DEF TiposUsados, TravaUnica, l
    <2>7. transacao'[g].rota = "nenhuma" BY <1>t, <2>2 DEF TiposUsados, SemTransacao
    <2>8. LeituraTrancada'
        BY <1>t, <2>3, <2>6, <2>7 DEF LeituraTrancada, Existe, TravaUnica, TiposUsados, Transacao
    <2>9. ContasDosLeads' BY <1>t, <2>1, <2>2, <2>3, <2>4 DEF ContasDosLeads, TiposUsados
    <2> QED BY <2>5, <2>8, <2>9
<1>7. ASSUME NEW g \in Gestores, Pegar(g)
      PROVE TiposUsados' /\ LeituraTrancada' /\ ContasDosLeads'
    <2> DEFINE l == transacao[g].lead
    <2>1. l \in IdsDeLead /\ Existe(l) /\ lead[l].status = "disponivel"
        BY <1>7, <1>t DEF Pegar, TiposUsados, TravaUnica, LeituraTrancada, Transacao
    <2>2. /\ lead' = [lead EXCEPT ![l].status = "pego"]
          /\ pegadas' = Contar(pegadas, l)
          /\ transacao' = [transacao EXCEPT ![g] = SemTransacao]
          /\ UNCHANGED <<noncesDoForm, entrega, convertidos, reaberturas>>
        BY <1>7 DEF Pegar
    <2> HIDE DEF l
    <2>3. /\ lead' \in [IdsDeLead -> Lead] /\ Outros(l)
          /\ lead'[l].etapa = lead[l].etapa /\ lead'[l].status = "pego"
        BY <1>t, <2>1, <2>2 DEF TiposUsados, Lead
    <2>4. /\ pegadas' \in [IdsDeLead -> Nat] /\ pegadas'[l] = pegadas[l] + 1
          /\ \A k \in IdsDeLead \ {l} : pegadas'[k] = pegadas[k]
        BY <1>t, <2>1, <2>2 DEF TiposUsados, Contar
    <2>5. TiposUsados' BY <1>t, <2>2, <2>3, <2>4 DEF TiposUsados, Transacao, SemTransacao
    <2>6. \A h \in Gestores \ {g} : transacao'[h] = transacao[h] /\ transacao[h].lead # l
        BY <1>t, <2>1, <2>2 DEF TiposUsados, TravaUnica, l
    <2>7. transacao'[g].rota = "nenhuma" BY <1>t, <2>2 DEF TiposUsados, SemTransacao
    <2>8. LeituraTrancada'
        BY <1>t, <2>3, <2>6, <2>7 DEF LeituraTrancada, Existe, TravaUnica, TiposUsados, Transacao
    <2>9. ContasDosLeads'
        BY <1>t, <2>1, <2>2, <2>3, <2>4 DEF ContasDosLeads, TiposUsados, Existe
    <2> QED BY <2>5, <2>8, <2>9
<1>8. ASSUME NEW g \in Gestores, DesfazerTransacao(g)
      PROVE TiposUsados' /\ LeituraTrancada' /\ ContasDosLeads'
    <2>1. /\ transacao' = [transacao EXCEPT ![g] = SemTransacao]
          /\ UNCHANGED <<lead, noncesDoForm, entrega, Contas>>
        BY <1>8 DEF DesfazerTransacao
    <2>2. TiposUsados' BY <1>t, <2>1 DEF TiposUsados, Transacao, SemTransacao
    <2>3. LeituraTrancada'
        BY <1>t, <2>1 DEF LeituraTrancada, TiposUsados, Existe, SemTransacao
    <2> QED BY <1>t, <2>1, <2>2, <2>3 DEF ContasDosLeads
<1>9. ASSUME NEW s \in Submissoes, ReceberEnvio(s) \/ FalharEnvio(s)
      PROVE TiposUsados' /\ LeituraTrancada' /\ ContasDosLeads'
    <2>1. UNCHANGED <<lead, transacao, Contas>>
        BY <1>9 DEF ReceberEnvio, FalharEnvio
    <2>2. noncesDoForm' \subseteq Submissoes /\ entrega' \in [Submissoes -> [feitas: Nat, aceitas: Nat]]
        BY <1>9, <1>t DEF ReceberEnvio, FalharEnvio, TiposUsados
    <2> QED BY <1>t, <2>1, <2>2 DEF TiposUsados, LeituraTrancada, ContasDosLeads, Existe
<1>10. ASSUME NEW s \in Submissoes, GravarLead(s)
      PROVE TiposUsados' /\ LeituraTrancada' /\ ContasDosLeads'
    <2>1. PICK l \in IdsDeLead :
            /\ lead[l].etapa = "nao_ha"
            /\ lead' = [lead EXCEPT ![l] = [SemLead EXCEPT !.etapa = "aberta", !.envio = s]]
        BY <1>10 DEF GravarLead
    <2>2. /\ lead' \in [IdsDeLead -> Lead] /\ Outros(l)
          /\ lead'[l].etapa = "aberta" /\ lead'[l].status = "disponivel"
        BY <1>t, <2>1 DEF TiposUsados, Lead, SemLead
    <2>3. /\ entrega' \in [Submissoes -> [feitas: Nat, aceitas: Nat]]
          /\ UNCHANGED <<transacao, noncesDoForm, Contas>>
        BY <1>10, <1>t DEF GravarLead, TiposUsados
    <2>4. TiposUsados' BY <1>t, <2>2, <2>3 DEF TiposUsados
    <2>5. LeituraTrancada' BY <1>c, <2>1, <2>2, <2>3 DEF Existe
    <2>6. ContasDosLeads' BY <1>t, <2>1, <2>2, <2>3 DEF ContasDosLeads, TiposUsados
    <2> QED BY <2>4, <2>5, <2>6
<1> QED BY <1>1, <1>2, <1>3, <1>4, <1>5, <1>6, <1>7, <1>8, <1>9, <1>10 DEF LeadsNext

\* Two managers who win or take the same lead do it once (leads.js, ganhar
\* and pegar, under SELECT ... FOR UPDATE).
THEOREM LeadsSempreDisputados == LeadsSpec => []LeadDisputado
<1>1. LeadsInit => LeadsInv BY LeadsInicial
<1>2. LeadsInv /\ [LeadsNext]_varsLeads => LeadsInv' BY LeadsPasso
<1>3. LeadsInv => LeadDisputado BY DEF LeadsInv, ContasDosLeads, LeadDisputado
<1> QED BY <1>1, <1>2, <1>3, PTL DEF LeadsSpec

\* What ganhar and pegar read under the lock still holds when they write.
THEOREM LeadsSempreTrancados == LeadsSpec => []LeituraTrancada
<1>1. LeadsInit => LeadsInv BY LeadsInicial
<1>2. LeadsInv /\ [LeadsNext]_varsLeads => LeadsInv' BY LeadsPasso
<1>3. LeadsInv => LeituraTrancada BY DEF LeadsInv
<1> QED BY <1>1, <1>2, <1>3, PTL DEF LeadsSpec

----------------------------------------------------------------------------
LEMMA NoncePasso ==
    ASSUME TiposUsados, protegido, NonceInv, [LeadsNext]_varsLeads
    PROVE  NonceInv'
<1> USE NinguemLeadNovo DEF TiposUsados, NonceInv, Lead, SemLead
<1>1. CASE UNCHANGED varsLeads
    BY <1>1 DEF varsLeads
<1>2. ASSUME NEW l \in IdsDeLead, CriarLead(l) PROVE NonceInv'
    <2>1. lead'[l].envio = NinguemLead /\ \A k \in IdsDeLead \ {l} : lead'[k] = lead[k]
        BY <1>2 DEF CriarLead
    <2>2. UNCHANGED <<noncesDoForm, entrega>>
        BY <1>2 DEF CriarLead
    <2> QED BY <2>1, <2>2
\* No other route changes where a lead came from.
<1>3. ASSUME \A k \in IdsDeLead : lead'[k].envio = lead[k].envio,
             UNCHANGED <<noncesDoForm, entrega>>
      PROVE NonceInv'
    BY <1>3
<1>4. ASSUME NEW l \in IdsDeLead, MudarEtapa(l) PROVE NonceInv'
    <2>1. PICK e \in {"aberta", "ganho"} : lead' = [lead EXCEPT ![l].etapa = e]
        BY <1>4 DEF MudarEtapa
    <2> QED BY <1>3, <1>4, <2>1 DEF MudarEtapa
<1>8. ASSUME NEW l \in IdsDeLead, ExcluirLead(l) PROVE NonceInv'
    BY <1>3, <1>8 DEF ExcluirLead
<1>9. ASSUME NEW l \in IdsDeLead, NEW g \in Gestores, NEW r \in {"ganhar", "pegar"},
             Trancar(g, l, r)
      PROVE NonceInv'
    BY <1>3, <1>9 DEF Trancar
<1>10. ASSUME NEW g \in Gestores, ConverterLead(g) PROVE NonceInv'
    <2> DEFINE x == transacao[g].lead
    <2>1. /\ lead' = [lead EXCEPT ![x].etapa = "ganho", ![x].status = "pego", ![x].cliente = TRUE]
          /\ UNCHANGED <<noncesDoForm, entrega>>
        BY <1>10 DEF ConverterLead
    <2> HIDE DEF x
    <2>2. \A k \in IdsDeLead : lead'[k].envio = lead[k].envio
        BY <2>1
    <2> QED BY <1>3, <2>1, <2>2
<1>11. ASSUME NEW g \in Gestores, Pegar(g) PROVE NonceInv'
    <2> DEFINE x == transacao[g].lead
    <2>1. lead' = [lead EXCEPT ![x].status = "pego"] /\ UNCHANGED <<noncesDoForm, entrega>>
        BY <1>11 DEF Pegar
    <2> HIDE DEF x
    <2>2. \A k \in IdsDeLead : lead'[k].envio = lead[k].envio
        BY <2>1
    <2> QED BY <1>3, <2>1, <2>2
<1>12. ASSUME NEW g \in Gestores, DesfazerTransacao(g) PROVE NonceInv'
    BY <1>3, <1>12 DEF DesfazerTransacao
<1>5. ASSUME NEW s \in Submissoes, ReceberEnvio(s) PROVE NonceInv'
    BY <1>5 DEF ReceberEnvio, NovoEnvio
<1>6. ASSUME NEW s \in Submissoes, GravarLead(s) PROVE NonceInv'
    <2>1. PICK l \in IdsDeLead :
            lead' = [lead EXCEPT ![l] = [SemLead EXCEPT !.etapa = "aberta", !.envio = s]]
        BY <1>6 DEF GravarLead
    <2>2. lead'[l].envio = s /\ \A k \in IdsDeLead \ {l} : lead'[k] = lead[k]
        BY <2>1
    <2>3. /\ entrega[s].aceitas = 1 /\ entrega'[s].aceitas = 0
          /\ \A r \in Submissoes \ {s} : entrega'[r] = entrega[r]
          /\ UNCHANGED noncesDoForm
        BY <1>6 DEF GravarLead
    <2>4. s \in noncesDoForm /\ \A k \in IdsDeLead : lead[k].envio # s
        BY <2>3
    <2>5. \A k \in IdsDeLead : lead'[k].envio = s => k = l
        BY <2>2, <2>4
    <2>6. \A r \in Submissoes \ {s}, k \in IdsDeLead : lead'[k].envio = r => lead[k].envio = r
        BY <2>2
    <2> QED BY <2>2, <2>3, <2>4, <2>5, <2>6
<1>7. ASSUME NEW s \in Submissoes, FalharEnvio(s) PROVE NonceInv'
    BY <1>7 DEF FalharEnvio
<1> QED BY <1>1, <1>2, <1>4, <1>5, <1>6, <1>7, <1>8, <1>9, <1>10, <1>11, <1>12 DEF LeadsNext

LEMMA UmAMenos ==
    ASSUME NEW S, NEW x, IsFiniteSet(S)
    PROVE  /\ IsFiniteSet(S \ {x}) /\ Cardinality(S \ {x}) \in Nat
           /\ Cardinality(S \ {x}) <= Cardinality(S)
<1>1. IsFiniteSet(S \ {x})
    BY FS_RemoveElement
<1>2. Cardinality(S \ {x}) \in Nat /\ Cardinality(S) \in Nat
    BY <1>1, FS_CardinalityType
<1>3. Cardinality(S \ {x}) = IF x \in S THEN Cardinality(S) - 1 ELSE Cardinality(S)
    BY FS_RemoveElement
<1> QED BY <1>1, <1>2, <1>3

LEMMA UmAMais ==
    ASSUME NEW S, NEW x, IsFiniteSet(S)
    PROVE  /\ IsFiniteSet(S \cup {x}) /\ Cardinality(S \cup {x}) \in Nat
           /\ Cardinality(S \cup {x}) <= Cardinality(S) + 1
<1>1. IsFiniteSet(S \cup {x})
    BY FS_AddElement
<1>2. Cardinality(S \cup {x}) \in Nat /\ Cardinality(S) \in Nat
    BY <1>1, FS_CardinalityType
<1>3. Cardinality(S \cup {x}) = IF x \in S THEN Cardinality(S) ELSE Cardinality(S) + 1
    BY FS_AddElement
<1> QED BY <1>1, <1>2, <1>3

\* A step that records no lead of the form keeps the leads of a submission,
\* and never adds to its deliveries past the checks more than it receives.
LEMMA ContaPasso ==
    ASSUME TiposUsados, ContaInv, [LeadsNext]_varsLeads
    PROVE  ContaInv'
<1> USE NinguemLeadNovo
<1>t. /\ lead \in [IdsDeLead -> Lead]
      /\ entrega \in [Submissoes -> [feitas: Nat, aceitas: Nat]]
    BY DEF TiposUsados
<1>a. \A s \in Submissoes : Cardinality(DoEnvio(s)) \in Nat
    BY FS_CardinalityType DEF ContaInv
<1>1. ASSUME \A s \in Submissoes : DoEnvio(s)' = DoEnvio(s),
             \A s \in Submissoes :
                 \/ entrega'[s] = entrega[s]
                 \/ /\ entrega'[s].feitas = entrega[s].feitas + 1
                    /\ entrega'[s].aceitas \in {entrega[s].aceitas, entrega[s].aceitas + 1}
                 \/ /\ entrega'[s].feitas = entrega[s].feitas
                    /\ entrega'[s].aceitas = entrega[s].aceitas - 1
      PROVE ContaInv'
    BY <1>1, <1>t, <1>a DEF ContaInv
<1>2. ASSUME \A k \in IdsDeLead : lead'[k].envio = lead[k].envio
      PROVE \A s \in Submissoes : DoEnvio(s)' = DoEnvio(s)
    BY <1>2 DEF DoEnvio
<1>3. CASE UNCHANGED <<lead, entrega>>
    BY <1>1, <1>2, <1>3
<1>4. ASSUME NEW l \in IdsDeLead, CriarLead(l) PROVE ContaInv'
    <2>1. /\ lead[l].etapa = "nao_ha" /\ UNCHANGED entrega
          /\ lead'[l].envio = NinguemLead
          /\ \A k \in IdsDeLead \ {l} : lead'[k] = lead[k]
        BY <1>4, <1>t DEF CriarLead, SemLead, Lead
    <2>2. \A s \in Submissoes : DoEnvio(s)' = DoEnvio(s) \ {l}
        BY <2>1 DEF DoEnvio
    <2>3. \A s \in Submissoes : /\ IsFiniteSet(DoEnvio(s) \ {l})
                               /\ Cardinality(DoEnvio(s) \ {l}) \in Nat
                               /\ Cardinality(DoEnvio(s) \ {l}) <= Cardinality(DoEnvio(s))
        BY UmAMenos DEF ContaInv
    <2> QED BY <1>t, <1>a, <2>1, <2>2, <2>3 DEF ContaInv
<1>5. ASSUME NEW l \in IdsDeLead, MudarEtapa(l) PROVE ContaInv'
    <2>1. PICK e \in {"aberta", "ganho"} : lead' = [lead EXCEPT ![l].etapa = e]
        BY <1>5 DEF MudarEtapa
    <2>2. \A k \in IdsDeLead : lead'[k].envio = lead[k].envio
        BY <1>t, <2>1 DEF Lead
    <2> QED BY <1>1, <1>2, <1>5, <2>2 DEF MudarEtapa
<1>6. ASSUME NEW l \in IdsDeLead, ExcluirLead(l) PROVE ContaInv'
    <2>1. \A k \in IdsDeLead : lead'[k].envio = lead[k].envio
        BY <1>t, <1>6 DEF ExcluirLead, Lead
    <2> QED BY <1>1, <1>2, <1>6, <2>1 DEF ExcluirLead
<1>7. ASSUME NEW g \in Gestores, ConverterLead(g) PROVE ContaInv'
    <2> DEFINE x == transacao[g].lead
    <2>1. lead' = [lead EXCEPT ![x].etapa = "ganho", ![x].status = "pego", ![x].cliente = TRUE]
        BY <1>7 DEF ConverterLead
    <2> HIDE DEF x
    <2>2. \A k \in IdsDeLead : lead'[k].envio = lead[k].envio
        BY <1>t, <2>1 DEF Lead
    <2> QED BY <1>1, <1>2, <1>7, <2>2 DEF ConverterLead
<1>8. ASSUME NEW g \in Gestores, Pegar(g) PROVE ContaInv'
    <2> DEFINE x == transacao[g].lead
    <2>1. lead' = [lead EXCEPT ![x].status = "pego"]
        BY <1>8 DEF Pegar
    <2> HIDE DEF x
    <2>2. \A k \in IdsDeLead : lead'[k].envio = lead[k].envio
        BY <1>t, <2>1 DEF Lead
    <2> QED BY <1>1, <1>2, <1>8, <2>2 DEF Pegar
<1>9. ASSUME NEW s \in Submissoes, ReceberEnvio(s) \/ FalharEnvio(s) PROVE ContaInv'
    <2>1. UNCHANGED lead
        BY <1>9 DEF ReceberEnvio, FalharEnvio
    <2>2. /\ \A r \in Submissoes \ {s} : entrega'[r] = entrega[r]
          /\ \/ /\ entrega'[s].feitas = entrega[s].feitas + 1
                /\ entrega'[s].aceitas \in {entrega[s].aceitas, entrega[s].aceitas + 1}
             \/ /\ entrega'[s].feitas = entrega[s].feitas
                /\ entrega'[s].aceitas = entrega[s].aceitas - 1
        BY <1>9, <1>t DEF ReceberEnvio, FalharEnvio
    <2> QED BY <1>1, <1>2, <2>1, <2>2
\* The lead recorded is a new one, and its delivery is no longer pending.
<1>10. ASSUME NEW s \in Submissoes, GravarLead(s) PROVE ContaInv'
    <2>1. PICK l \in IdsDeLead :
            lead' = [lead EXCEPT ![l] = [SemLead EXCEPT !.etapa = "aberta", !.envio = s]]
        BY <1>10 DEF GravarLead
    <2>2. /\ lead'[l].envio = s /\ \A k \in IdsDeLead \ {l} : lead'[k] = lead[k]
          /\ entrega'[s].feitas = entrega[s].feitas
          /\ entrega'[s].aceitas = entrega[s].aceitas - 1
          /\ \A r \in Submissoes \ {s} : entrega'[r] = entrega[r]
        <3>1. lead'[l].envio = s /\ \A k \in IdsDeLead \ {l} : lead'[k] = lead[k]
            BY <1>t, <2>1 DEF SemLead
        <3> QED BY <1>10, <1>t, <3>1 DEF GravarLead
    <2>3. DoEnvio(s)' = DoEnvio(s) \cup {l}
        BY <2>2 DEF DoEnvio
    <2>4. /\ IsFiniteSet(DoEnvio(s) \cup {l})
          /\ Cardinality(DoEnvio(s) \cup {l}) \in Nat
          /\ Cardinality(DoEnvio(s) \cup {l}) <= Cardinality(DoEnvio(s)) + 1
        BY UmAMais DEF ContaInv
    <2>5. \A r \in Submissoes \ {s} :
            /\ DoEnvio(r)' = DoEnvio(r) \ {l}
            /\ IsFiniteSet(DoEnvio(r) \ {l})
            /\ Cardinality(DoEnvio(r) \ {l}) \in Nat
            /\ Cardinality(DoEnvio(r) \ {l}) <= Cardinality(DoEnvio(r))
        <3>1. \A r \in Submissoes \ {s} : DoEnvio(r)' = DoEnvio(r) \ {l}
            BY <2>2 DEF DoEnvio
        <3> QED BY <3>1, UmAMenos DEF ContaInv
    <2>6. ASSUME NEW r \in Submissoes \ {s}
          PROVE /\ IsFiniteSet(DoEnvio(r)')
                /\ Cardinality(DoEnvio(r)') + entrega'[r].aceitas <= entrega'[r].feitas
        <3>1. entrega[r].aceitas \in Nat /\ entrega[r].feitas \in Nat
            BY <1>t
        <3>2. Cardinality(DoEnvio(r)) + entrega[r].aceitas <= entrega[r].feitas
            BY DEF ContaInv
        <3>3. Cardinality(DoEnvio(r) \ {l}) + entrega[r].aceitas <= entrega[r].feitas
            BY <1>a, <2>5, <3>1, <3>2
        <3>4. DoEnvio(r)' = DoEnvio(r) \ {l} /\ entrega'[r] = entrega[r]
            BY <2>2, <2>5
        <3> QED BY <2>5, <3>3, <3>4
    <2>7. /\ IsFiniteSet(DoEnvio(s)')
          /\ Cardinality(DoEnvio(s)') + entrega'[s].aceitas <= entrega'[s].feitas
        BY <1>t, <1>a, <2>2, <2>3, <2>4 DEF ContaInv
    <2> QED BY <2>6, <2>7 DEF ContaInv
<1>11. ASSUME NEW l \in IdsDeLead, NEW g \in Gestores, NEW r \in {"ganhar", "pegar"},
              Trancar(g, l, r)
       PROVE ContaInv'
    BY <1>3, <1>11 DEF Trancar
<1>12. ASSUME NEW g \in Gestores, DesfazerTransacao(g) PROVE ContaInv'
    BY <1>3, <1>12 DEF DesfazerTransacao
<1>13. CASE UNCHANGED varsLeads
    BY <1>3, <1>13 DEF varsLeads
<1> QED BY <1>4, <1>5, <1>6, <1>7, <1>8, <1>9, <1>10, <1>11, <1>12, <1>13 DEF LeadsNext

LEMMA ProtegidoFica == [LeadsNext]_varsLeads => protegido' = protegido
BY DEF LeadsNext, varsLeads, CriarLead, MudarEtapa, ExcluirLead, Trancar, ConverterLead,
       Pegar, DesfazerTransacao, ReceberEnvio, GravarLead, FalharEnvio

LEMMA EnviosPasso ==
    ASSUME TiposUsados, EnviosInv, [LeadsNext]_varsLeads
    PROVE  EnviosInv'
<1>1. protegido' = protegido BY ProtegidoFica
<1>2. ContaInv' BY ContaPasso DEF EnviosInv
<1>3. protegido => NonceInv' BY NoncePasso DEF EnviosInv
<1> QED BY <1>1, <1>2, <1>3 DEF EnviosInv

LEMMA EnviosContados == EnviosInv => LeadsPorEnvio
<1> SUFFICES ASSUME EnviosInv, protegido, NEW s \in Submissoes
             PROVE Cardinality(DoEnvio(s)) + entrega[s].aceitas <= 1
    BY DEF LeadsPorEnvio, EnviosInv, ContaInv
<1>n. NonceInv
    BY DEF EnviosInv
<1>1. CASE DoEnvio(s) = {}
    <2>1. Cardinality(DoEnvio(s)) = 0
        BY <1>1, FS_EmptySet
    <2>2. entrega[s].aceitas \in {0, 1}
        BY <1>n DEF NonceInv
    <2> QED BY <2>1, <2>2
<1>2. CASE DoEnvio(s) # {}
    <2>1. PICK l \in DoEnvio(s) : DoEnvio(s) = {l}
        BY <1>n, <1>2 DEF NonceInv, DoEnvio
    <2>2. Cardinality(DoEnvio(s)) = 1
        BY <2>1, FS_Singleton
    <2>3. entrega[s].aceitas = 0
        BY <1>n, <1>2 DEF NonceInv, DoEnvio
    <2> QED BY <2>2, <2>3
<1> QED BY <1>1, <1>2

\* With WEBHOOK_REPLAY_PROTECTION a submission of the form becomes at most
\* one lead; without it, which is the default, never more leads than it had
\* deliveries (webhook_bio_crm.js, the replay log and the INSERT).
THEOREM LeadsSemprePorEnvio == LeadsSpec => []LeadsPorEnvio
<1>1. LeadsInit => LeadsInv /\ EnviosInv BY LeadsInicial
<1>2. LeadsInv /\ EnviosInv /\ [LeadsNext]_varsLeads => LeadsInv' /\ EnviosInv'
    BY LeadsPasso, EnviosPasso DEF LeadsInv
<1>3. EnviosInv => LeadsPorEnvio BY EnviosContados
<1> QED BY <1>1, <1>2, <1>3, PTL DEF LeadsSpec
----------------------------------------------------------------------------
\* Deliveries stop at the bound.
EntregasInv ==
    protegido \in BOOLEAN /\ \A s \in Submissoes : entrega[s].feitas \in 0..MaxEntregas

LEMMA EntregasPasso ==
    ASSUME TiposUsados, EntregasInv, [LeadsNext]_varsLeads
    PROVE  EntregasInv'
<1>t. entrega \in [Submissoes -> [feitas: Nat, aceitas: Nat]]
    BY DEF TiposUsados
<1>p. protegido' = protegido
    BY ProtegidoFica
<1>1. CASE UNCHANGED entrega
    BY <1>p, <1>1 DEF EntregasInv
<1>2. ASSUME NEW s \in Submissoes, ReceberEnvio(s) PROVE EntregasInv'
    <2>1. /\ entrega[s].feitas < MaxEntregas
          /\ entrega'[s].feitas = entrega[s].feitas + 1
          /\ \A r \in Submissoes \ {s} : entrega'[r] = entrega[r]
        BY <1>t, <1>2 DEF ReceberEnvio
    <2>2. entrega[s].feitas \in 0..MaxEntregas
        BY DEF EntregasInv
    <2>3. entrega'[s].feitas \in 0..MaxEntregas
        BY <2>1, <2>2, LimitesDeLeads
    <2> QED BY <1>p, <2>1, <2>3 DEF EntregasInv
<1>3. ASSUME NEW s \in Submissoes, GravarLead(s) \/ FalharEnvio(s) PROVE EntregasInv'
    <2>1. \A r \in Submissoes : entrega'[r].feitas = entrega[r].feitas
        BY <1>t, <1>3 DEF GravarLead, FalharEnvio
    <2> QED BY <1>p, <2>1 DEF EntregasInv
<1> QED BY <1>1, <1>2, <1>3 DEF LeadsNext, varsLeads, CriarLead, MudarEtapa, ExcluirLead,
        Trancar, ConverterLead, Pegar, DesfazerTransacao

LEMMA LeadsTipados == LeadsInv /\ EnviosInv /\ EntregasInv => LeadsTypeOK
<1> SUFFICES ASSUME LeadsInv, EnviosInv, EntregasInv PROVE LeadsTypeOK
    OBVIOUS
<1>t. TiposUsados
    BY DEF LeadsInv
<1>1. ASSUME NEW s \in Submissoes PROVE entrega[s].aceitas \in 0..MaxEntregas
    <2>1. /\ Cardinality(DoEnvio(s)) \in Nat
          /\ Cardinality(DoEnvio(s)) + entrega[s].aceitas <= entrega[s].feitas
        BY FS_CardinalityType DEF EnviosInv, ContaInv
    <2>2. entrega[s].aceitas \in Nat /\ entrega[s].feitas \in 0..MaxEntregas
        BY <1>t DEF TiposUsados, EntregasInv
    <2> QED BY <2>1, <2>2, LimitesDeLeads
<1>2. entrega \in [Submissoes -> [feitas: 0..MaxEntregas, aceitas: 0..MaxEntregas]]
    BY <1>t, <1>1 DEF TiposUsados, EntregasInv
<1> QED BY <1>t, <1>2 DEF LeadsTypeOK, TiposUsados, EntregasInv

\* The rows of leads, the transactions and the deliveries keep their types.
THEOREM LeadsTipo == LeadsSpec => []LeadsTypeOK
<1>1. LeadsInit => LeadsInv /\ EnviosInv /\ EntregasInv
    BY LeadsInicial, LimitesDeLeads DEF LeadsInit, EntregasInv
<1>2. LeadsInv /\ EnviosInv /\ EntregasInv /\ [LeadsNext]_varsLeads
        => LeadsInv' /\ EnviosInv' /\ EntregasInv'
    BY LeadsPasso, EnviosPasso, EntregasPasso DEF LeadsInv
<1>3. LeadsInv /\ EnviosInv /\ EntregasInv => LeadsTypeOK
    BY LeadsTipados
<1> QED BY <1>1, <1>2, <1>3, PTL DEF LeadsSpec
=============================================================================
