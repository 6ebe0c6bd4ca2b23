----------------------------- MODULE Comissoes -----------------------------
(***************************************************************************)
(* Attributed sales (vendas_atribuidas) and the commission engine.         *)
(*                                                                         *)
(* The end of a live writes the sale of its main presenter in its own      *)
(* transaction, and then starts a calculation nobody waits for; so does an *)
(* edition of its GMV.  A calculation reads the presenters, then takes     *)
(* them one by one: it reads the month's total for the band, reads the     *)
(* sale, and writes it in a later query, outside any transaction.          *)
(* Managers meanwhile approve, refuse and edit the same rows.              *)
(*                                                                         *)
(* The month is that of the start of the live, but the end dates the sale  *)
(* by the day of the end: the calculation gives it the day of the start.   *)
(* Dates are their months, in UTC.                                         *)
(*                                                                         *)
(* The brand of every client is active.  Of the three commissions only the *)
(* presenter's band depends on other rows; the others follow from the GMV. *)
(***************************************************************************)
EXTENDS Integers, FiniteSetsExt

CONSTANTS
    Transmissoes,     \* lives
    Apresentadoras,
    PrincipalDe,      \* presenter behind lives.apresentador_id, or SemAp
    Gmv,              \* possible GMV values
    Corte,            \* first total of the high band
    Calculos,         \* bound: calculations in progress
    MaxEdicoes,       \* bound: changes made by people
    UltimoMes,        \* bound: months
    SemAp             \* apresentadora_id IS NULL

Meses == 1..UltimoMes

ASSUME GmvNatural == Gmv \subseteq Nat /\ Corte \in Nat /\ MaxEdicoes \in Nat
ASSUME UltimoMesPositivo == UltimoMes \in Nat \ {0}
ASSUME TransmissoesFinitas == IsFiniteSet(Transmissoes)
ASSUME SemApNova == SemAp \notin Transmissoes \cup Apresentadoras
ASSUME PrincipalConhecida == PrincipalDe \in [Transmissoes -> Apresentadoras \cup {SemAp}]

VARIABLES
    mesAtual,      \* the current month
    iniciada,      \* month of iniciado_em of each live
    encerradas,    \* lives that ended
    elenco,        \* live_apresentadores: presenters besides the main one
    vendas,        \* vendas_atribuidas of origin 'live', unique per live and presenter
    calculo,       \* calculations in progress
    ultima,        \* auxiliary: last GMV sent to the engine, by whom, and
                   \* whether nothing disturbed its calculation since
    edicoes

varsComissoes == <<mesAtual, iniciada, encerradas, elenco, vendas, calculo, ultima, edicoes>>

Creditaveis == Apresentadoras \cup {SemAp}
Chaves == Transmissoes \X Creditaveis
Faixas == {"informada", "baixa", "alta"}
StatusVenda == {"nao_ha", "pendente_aprovacao", "aprovada", "reprovada"}

Venda == [status: StatusVenda, gmv: Gmv \cup {0}, faixa: Faixas, mes: Meses]
Calculo == [pc: {"livre", "elenco", "lendo", "gravando"},
            live: Transmissoes \cup {SemAp}, gmv: Gmv \cup {0},
            mes: Meses,                 \* of iniciado_em, when the live was read
            fila: SUBSET Creditaveis,   \* presenters still to credit
            alvo: Creditaveis,
            lida: StatusVenda,          \* of the sale, when it was read
            faixa: Faixas]              \* of the month's total, when it was read

SemVenda == [status |-> "nao_ha", gmv |-> 0, faixa |-> "informada", mes |-> 1]
CalculoLivre == [pc |-> "livre", live |-> SemAp, gmv |-> 0, mes |-> 1, fila |-> {},
                 alvo |-> SemAp, lida |-> "nao_ha", faixa |-> "informada"]
SemCalculo == [gmv |-> 0, serena |-> FALSE, fim |-> FALSE]

ComissoesInit ==
    /\ mesAtual = 1
    /\ iniciada \in [Transmissoes -> Meses]
    /\ encerradas = {}
    /\ elenco = [l \in Transmissoes |-> {}]
    /\ vendas = [v \in Chaves |-> SemVenda]
    /\ calculo = [c \in Calculos |-> CalculoLivre]
    /\ ultima = [l \in Transmissoes |-> SemCalculo]
    /\ edicoes = 0

EmCalculo(l) == \E c \in Calculos : calculo[c].live = l
EditarUmaVez == edicoes < MaxEdicoes /\ edicoes' = edicoes + 1
Perturbar(l) == ultima' = [ultima EXCEPT ![l].serena = FALSE]

----------------------------------------------------------------------------
(* What people do. *)

VirarMes ==
    /\ mesAtual < UltimoMes
    /\ mesAtual' = mesAtual + 1
    /\ UNCHANGED <<iniciada, encerradas, elenco, vendas, calculo, ultima, edicoes>>

\* upsertVendaAtribuida: date and amounts change, the approval does not.
Gravada(v, g, p) == [vendas EXCEPT ![v] =
    [status |-> IF @.status = "nao_ha" THEN "pendente_aprovacao" ELSE @.status,
     gmv |-> g, faixa |-> "informada", mes |-> p]]

\* A calculation of l is started and not waited for; fim: by the end of the
\* live, with the GMV and the month of the sale.
Calcular(l, g, fim) ==
    /\ \E c \in Calculos :
        /\ calculo[c].pc = "livre"
        /\ calculo' = [calculo EXCEPT ![c].pc = "elenco", ![c].live = l, ![c].gmv = g]
    /\ ultima' = [ultima EXCEPT ![l] = [gmv |-> g, serena |-> ~EmCalculo(l), fim |-> fim]]

\* Mutant of EncerrarComVenda: the sale is left to the calculation.
EncerrarSemVenda(l) ==
    /\ l \notin encerradas
    /\ iniciada[l] <= mesAtual
    /\ encerradas' = encerradas \cup {l}
    /\ \E g \in Gmv : Calcular(l, g, iniciada[l] = mesAtual)
    /\ UNCHANGED <<mesAtual, iniciada, elenco, vendas, edicoes>>

\* encerrar: the live, the sale of its main presenter by fat_gerado, of today,
\* and after COMMIT the calculation, by manual_gmv when the body has one.
EncerrarComVenda(l) ==
    /\ l \notin encerradas
    /\ iniciada[l] <= mesAtual
    /\ encerradas' = encerradas \cup {l}
    /\ \E fat, g \in Gmv :
        /\ vendas' = Gravada(<<l, PrincipalDe[l]>>, fat, mesAtual)
        /\ Calcular(l, g, g = fat /\ iniciada[l] = mesAtual)
    /\ UNCHANGED <<mesAtual, iniciada, elenco, edicoes>>

\* POST /lives/manual: the live is born ended, with its sale, of any day; no
\* calculation.
LancarManualComVenda(l) ==
    /\ l \notin encerradas
    /\ encerradas' = encerradas \cup {l}
    /\ \E fat \in Gmv, p \in Meses :
        /\ vendas' = Gravada(<<l, PrincipalDe[l]>>, fat, p)
        /\ iniciada' = [iniciada EXCEPT ![l] = p]
    /\ \E e \in SUBSET Apresentadoras : elenco' = [elenco EXCEPT ![l] = e]
    /\ UNCHANGED <<mesAtual, calculo, ultima, edicoes>>

\* PATCH /lives/:id, which may move the live to another day; with a GMV it
\* starts a calculation, by that of the body (only fat_gerado, even if the
\* live has a manual_gmv the body does not repeat).
EditarLive(l) ==
    /\ l \in encerradas
    /\ EditarUmaVez
    /\ \E p \in Meses : iniciada' = [iniciada EXCEPT ![l] = p]
    /\ \/ \E g \in Gmv : Calcular(l, g, FALSE)
       \/ Perturbar(l) /\ UNCHANGED calculo
    /\ UNCHANGED <<mesAtual, encerradas, elenco, vendas>>

\* A presenter joins or leaves a live; its sales are not touched.
MudarElenco(l) ==
    /\ EditarUmaVez
    /\ \E a \in Apresentadoras :
        elenco' = [elenco EXCEPT ![l] = IF a \in @ THEN @ \ {a} ELSE @ \cup {a}]
    /\ Perturbar(l)
    /\ UNCHANGED <<mesAtual, iniciada, encerradas, vendas, calculo>>

\* POST and PATCH /vendas-atribuidas, approved or not.
AlterarVenda(v) ==
    /\ EditarUmaVez
    /\ \E g \in Gmv, p \in Meses : vendas' = Gravada(v, g, p)
    /\ Perturbar(v[1])
    /\ UNCHANGED <<mesAtual, iniciada, encerradas, elenco, calculo>>

\* Mutant of Decidir: the name of the action is written.
DecidirPeloNome(v) ==
    /\ vendas[v].status = "pendente_aprovacao"
    /\ \E p \in {"aprovar", "reprovar"} : vendas' = [vendas EXCEPT ![v].status = p]
    /\ Perturbar(v[1])
    /\ UNCHANGED <<mesAtual, iniciada, encerradas, elenco, calculo, edicoes>>

\* aprovar and reprovar.  They look at the status in one query and write it
\* in another: a status that changed in between is one that another order of
\* the same requests gives.
Decidir(v) ==
    /\ \E p \in {"aprovada", "reprovada"} :
        /\ vendas[v].status \notin {"nao_ha", p}
        /\ vendas' = [vendas EXCEPT ![v].status = p]
    /\ Perturbar(v[1])
    /\ UNCHANGED <<mesAtual, iniciada, encerradas, elenco, calculo, edicoes>>

----------------------------------------------------------------------------
(* The engine. *)

\* Main presenter and others, or nobody.
Creditadas(l) ==
    LET todas == (elenco[l] \cup {PrincipalDe[l]}) \ {SemAp}
    IN  IF todas = {} THEN {SemAp} ELSE todas

LerElenco(c) ==
    /\ calculo[c].pc = "elenco"
    /\ calculo' = [calculo EXCEPT ![c].pc = "lendo", ![c].mes = iniciada[calculo[c].live],
                                  ![c].fila = Creditadas(calculo[c].live)]
    /\ UNCHANGED <<mesAtual, iniciada, encerradas, elenco, vendas, ultima, edicoes>>

\* GMV of month p from the other lives of the presenter.
GmvAcumuladoMes(l, a, p) ==
    MapThenSumSet(LAMBDA m : vendas[<<m, a>>].gmv,
                  {m \in Transmissoes \ {l} : vendas[<<m, a>>].mes = p})

\* A live nobody presented has no band.
Faixa(l, a, g, p) == IF a = SemAp THEN "informada"
                     ELSE IF GmvAcumuladoMes(l, a, p) + g >= Corte THEN "alta" ELSE "baixa"

\* The month's total and the sale of the next presenter.
LerVenda(c) ==
    LET k == calculo[c]
    IN  /\ k.pc = "lendo"
        /\ \E a \in k.fila :
            calculo' = [calculo EXCEPT ![c] = [k EXCEPT
                            !.pc = "gravando", !.fila = @ \ {a}, !.alvo = a,
                            !.lida = vendas[<<k.live, a>>].status,
                            !.faixa = Faixa(k.live, a, k.gmv, k.mes)]]
        /\ UNCHANGED <<mesAtual, iniciada, encerradas, elenco, vendas, ultima, edicoes>>

\* Mutants of Substituivel and Recalculada: an approved sale is overwritten;
\* a sale that exists keeps its GMV.
SubstituivelSempre(status) == TRUE
RecalculadaSemGmv(c) == [status |-> "pendente_aprovacao", faixa |-> calculo[c].faixa,
    mes |-> calculo[c].mes,
    gmv |-> IF calculo[c].lida = "nao_ha" THEN calculo[c].gmv
            ELSE vendas[<<calculo[c].live, calculo[c].alvo>>].gmv]

\* A sale that was approved when it was read is left alone.
Substituivel(status) == status # "aprovada"
Recalculada(c) == [status |-> "pendente_aprovacao", gmv |-> calculo[c].gmv,
                   faixa |-> calculo[c].faixa, mes |-> calculo[c].mes]

\* INSERT when the sale was not there, UPDATE when it was.
GravarVenda(c) ==
    LET k == calculo[c]
        v == <<k.live, k.alvo>>
    IN  /\ k.pc = "gravando"
        /\ k.lida = "nao_ha" => vendas[v].status = "nao_ha"
        /\ vendas' = IF Substituivel(k.lida) THEN [vendas EXCEPT ![v] = Recalculada(c)]
                     ELSE vendas
        /\ calculo' = [calculo EXCEPT ![c].pc = "lendo"]
        /\ UNCHANGED <<mesAtual, iniciada, encerradas, elenco, ultima, edicoes>>

\* The INSERT meets the row of another calculation, or any query fails: the
\* remaining presenters are not credited and only a warning is logged.
AbandonarCalculo(c) ==
    /\ \/ /\ calculo[c].pc = "gravando" /\ calculo[c].lida = "nao_ha"
          /\ vendas[<<calculo[c].live, calculo[c].alvo>>].status # "nao_ha"
          /\ UNCHANGED edicoes
       \/ calculo[c].pc # "livre" /\ EditarUmaVez
    /\ Perturbar(calculo[c].live)
    /\ calculo' = [calculo EXCEPT ![c] = CalculoLivre]
    /\ UNCHANGED <<mesAtual, iniciada, encerradas, elenco, vendas>>

ConcluirCalculo(c) ==
    /\ calculo[c].pc = "lendo"
    /\ calculo[c].fila = {}
    /\ calculo' = [calculo EXCEPT ![c] = CalculoLivre]
    /\ UNCHANGED <<mesAtual, iniciada, encerradas, elenco, vendas, ultima, edicoes>>

PassoDoCalculo(c) == \/ LerElenco(c) \/ LerVenda(c) \/ GravarVenda(c)
                     \/ AbandonarCalculo(c) \/ ConcluirCalculo(c)

----------------------------------------------------------------------------
ComissoesNext ==
    \/ VirarMes
    \/ \E l \in Transmissoes : \/ EncerrarComVenda(l) \/ LancarManualComVenda(l)
                               \/ EditarLive(l) \/ MudarElenco(l)
    \/ \E v \in Chaves : AlterarVenda(v) \/ Decidir(v)
    \/ \E c \in Calculos : PassoDoCalculo(c)

ComissoesSpec == ComissoesInit /\ [][ComissoesNext]_varsComissoes

----------------------------------------------------------------------------
ComissoesTypeOK ==
    /\ mesAtual \in Meses
    /\ iniciada \in [Transmissoes -> Meses]
    /\ encerradas \subseteq Transmissoes
    /\ elenco \in [Transmissoes -> SUBSET Apresentadoras]
    /\ vendas \in [Chaves -> Venda]
    /\ calculo \in [Calculos -> Calculo]
    /\ ultima \in [Transmissoes -> [gmv: Gmv \cup {0}, serena: BOOLEAN, fim: BOOLEAN]]
    /\ edicoes \in 0..MaxEdicoes

\* Once the calculation of a live ended undisturbed (no other of that live,
\* no failure, no decision, nobody changed its presenters or its sales since
\* it began), every presenter has a sale with the GMV it was given, unless it
\* was approved before: whatever the end of the live had written first.
VendaAcompanhaLive ==
    \A l \in Transmissoes : ultima[l].serena /\ ~EmCalculo(l) =>
        \A a \in Creditadas(l) :
            LET v == vendas[<<l, a>>]
            IN  v.status = "aprovada" \/ (v.status # "nao_ha" /\ v.gmv = ultima[l].gmv)

\* The end of l, in the month of its start, was calculated undisturbed, and
\* its GMV is fat_gerado.
FimCalculado(l) == /\ ultima[l].serena /\ ultima[l].fim
                   /\ ~EmCalculo(l)
                   /\ vendas[<<l, PrincipalDe[l]>>].status # "aprovada"

\* Two lives of the same main presenter, begun and ended in one month, may end
\* together, and each be calculated before the other's commission is written.
\* Still one of them sees the total of both, because each end commits its sale
\* before its calculation starts: when the total reaches the high band, one
\* gets it.  Of lives that turn the month this is not so: until its own
\* calculation is written the sale of such a live is dated in the month of its
\* end, where the calculation of the other does not look.
FaixaDosFins ==
    \A l, m \in Transmissoes :
        LET a == PrincipalDe[l]
            soma == vendas[<<l, a>>].gmv + vendas[<<m, a>>].gmv
        IN  l # m /\ PrincipalDe[m] = a /\ a # SemAp /\ iniciada[l] = iniciada[m]
              /\ FimCalculado(l) /\ FimCalculado(m)
                => soma < Corte \/ "alta" \in {vendas[<<l, a>>].faixa, vendas[<<m, a>>].faixa}

\* An approved sale is reopened by a refusal, or by a calculation that had
\* read it before the approval: never by one that started afterwards.
AprovacaoRespeitada ==
    [][\A v \in Chaves :
        vendas[v].status = "aprovada" /\ vendas'[v].status # "aprovada" =>
            \/ vendas'[v].status = "reprovada"
            \/ \E c \in Calculos : /\ calculo[c].pc = "gravando"
                                   /\ v = <<calculo[c].live, calculo[c].alvo>>
                                   /\ calculo[c].lida # "aprovada"]_varsComissoes
=============================================================================
