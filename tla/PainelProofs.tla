---------------------------- MODULE PainelProofs ----------------------------
(***************************************************************************)
(* The monthly figures and the TikTok accounts keep their types, for any   *)
(* number of lives, clients, months, units and accounts.  That of a stored *)
(* pair of tokens says that its text is never encrypted twice, whichever   *)
(* of the login and the two renewals wrote it.  What both must come to     *)
(* show is liveness, and TLC's.                                            *)
(***************************************************************************)
EXTENDS MCPainel, TLAPS

LEMMA MetricasInicial == MetricasInit => MetricasTypeOK
<1> SUFFICES ASSUME MetricasInit PROVE MetricasTypeOK
    OBVIOUS
<1> USE DEF MetricasInit
<1>1. 1 \in Meses
    BY LimitesDeMetricas DEF Meses
<1>2. (CHOOSE c \in ClientesMedidos : TRUE) \in ClientesMedidos
    BY HaClientesMedidos
<1>3. medida \in [LivesMedidas -> Medida]
    BY <1>1, <1>2 DEF Medida
<1>4. DOMAIN linha = ClientesMedidos \X Meses
    OBVIOUS
<1>5. correcoes \in 0..MaxCorrecoes /\ falhasDoJob \in 0..MaxFalhasDoJob
    BY LimitesDeMetricas
<1> QED BY <1>1, <1>3, <1>4, <1>5 DEF MetricasTypeOK

\* The rows of one live change.
LEMMA UmaMedida ==
    ASSUME MetricasTypeOK, NEW l \in LivesMedidas, NEW x \in Medida,
           medida' = [medida EXCEPT ![l] = x], UNCHANGED <<linha, mes, fechamento, falhasDoJob>>,
           correcoes' = correcoes \/ (correcoes < MaxCorrecoes /\ correcoes' = correcoes + 1)
    PROVE  MetricasTypeOK'
<1>1. correcoes' \in 0..MaxCorrecoes
    BY LimitesDeMetricas DEF MetricasTypeOK
<1>2. medida' \in [LivesMedidas -> Medida]
    BY DEF MetricasTypeOK
<1> QED BY <1>1, <1>2 DEF MetricasTypeOK

LEMMA MetricasPasso == MetricasTypeOK /\ [MetricasNext]_varsMetricas => MetricasTypeOK'
<1> SUFFICES ASSUME MetricasTypeOK, [MetricasNext]_varsMetricas PROVE MetricasTypeOK'
    OBVIOUS
<1>m. /\ medida \in [LivesMedidas -> Medida] /\ mes \in Meses /\ Meses \subseteq Nat
      /\ DOMAIN linha = ClientesMedidos \X Meses
      /\ fechamento \in [pc: {"parado", "corrente", "anterior"}, mes: Meses]
    BY DEF MetricasTypeOK, Meses
<1>1. ASSUME NEW l \in LivesMedidas, IniciarMedida(l) PROVE MetricasTypeOK'
    <2>1. PICK c \in ClientesMedidos :
            medida' = [medida EXCEPT ![l] = [fase |-> "em_andamento", cliente |-> c,
                                             mes |-> mes, gmv |-> 0]]
        BY <1>1 DEF IniciarMedida
    <2>2. [fase |-> "em_andamento", cliente |-> c, mes |-> mes, gmv |-> 0] \in Medida
        BY <1>m DEF Medida
    <2>3. PICK x \in Medida : x = [fase |-> "em_andamento", cliente |-> c, mes |-> mes, gmv |-> 0]
        BY <2>2
    <2>4. medida' = [medida EXCEPT ![l] = x]
        BY <2>1, <2>3
    <2>5. UNCHANGED <<linha, mes, fechamento, correcoes, falhasDoJob>>
        BY <1>1 DEF IniciarMedida
    <2> QED BY <2>4, <2>5, UmaMedida
<1>2. ASSUME NEW l \in LivesMedidas, EncerrarMedida(l) PROVE MetricasTypeOK'
    <2>1. PICK g \in GmvMedido : medida' = [medida EXCEPT ![l].fase = "encerrada", ![l].gmv = g]
        BY <1>2 DEF EncerrarMedida
    <2>2. [medida[l] EXCEPT !.fase = "encerrada", !.gmv = g] \in Medida
        BY <1>m DEF Medida
    <2>3. PICK x \in Medida : x = [medida[l] EXCEPT !.fase = "encerrada", !.gmv = g]
        BY <2>2
    <2>4. medida' = [medida EXCEPT ![l] = x]
        BY <1>m, <2>1, <2>3
    <2>5. UNCHANGED <<linha, mes, fechamento, correcoes, falhasDoJob>>
        BY <1>2 DEF EncerrarMedida
    <2> QED BY <2>4, <2>5, UmaMedida
<1>3. ASSUME NEW l \in LivesMedidas, CorrigirMedida(l) PROVE MetricasTypeOK'
    <2>1. PICK c \in ClientesMedidos, n \in 1..mes, g \in GmvMedido :
            medida' = [medida EXCEPT ![l].cliente = c, ![l].mes = n, ![l].gmv = g]
        BY <1>3 DEF CorrigirMedida
    <2>2. n \in Meses
        BY <1>m, LimitesDeMetricas DEF Meses
    <2>3. [medida[l] EXCEPT !.cliente = c, !.mes = n, !.gmv = g] \in Medida
        BY <1>m, <2>2 DEF Medida
    <2>4. PICK x \in Medida : x = [medida[l] EXCEPT !.cliente = c, !.mes = n, !.gmv = g]
        BY <2>3
    <2>5. medida' = [medida EXCEPT ![l] = x]
        BY <1>m, <2>1, <2>4
    <2>6. /\ UNCHANGED <<linha, mes, fechamento, falhasDoJob>>
          /\ correcoes < MaxCorrecoes /\ correcoes' = correcoes + 1
        BY <1>3 DEF CorrigirMedida
    <2> QED BY <2>5, <2>6, UmaMedida
<1>4. ASSUME NEW l \in LivesMedidas, ExcluirMedida(l) PROVE MetricasTypeOK'
    <2>1. PICK x \in Medida : x = [medida[l] EXCEPT !.fase = "excluida"]
        BY <1>m DEF Medida
    <2>2. medida' = [medida EXCEPT ![l] = x]
        BY <1>m, <1>4, <2>1 DEF ExcluirMedida
    <2>3. /\ UNCHANGED <<linha, mes, fechamento, falhasDoJob>>
          /\ correcoes < MaxCorrecoes /\ correcoes' = correcoes + 1
        BY <1>4 DEF ExcluirMedida
    <2> QED BY <2>2, <2>3, UmaMedida
\* The job: rows are overwritten, never created.
<1>5. \A n : DOMAIN ComSnapshot(n) = DOMAIN linha
    BY DEF ComSnapshot
<1>6. ASSUME \/ IniciarFechamento \/ FecharCorrente \/ FecharAnterior \/ FalharFechamento
      PROVE MetricasTypeOK'
    <2>1. UNCHANGED <<medida, mes, correcoes>> /\ DOMAIN linha' = DOMAIN linha
        BY <1>5, <1>6 DEF IniciarFechamento, FecharCorrente, FecharAnterior, FalharFechamento
    <2>2. fechamento' \in [pc: {"parado", "corrente", "anterior"}, mes: Meses]
        BY <1>m, <1>6 DEF IniciarFechamento, FecharCorrente, FecharAnterior, FalharFechamento
    <2>3. falhasDoJob' \in 0..MaxFalhasDoJob
        BY <1>6, LimitesDeMetricas
        DEF IniciarFechamento, FecharCorrente, FecharAnterior, FalharFechamento, MetricasTypeOK
    <2> QED BY <1>m, <2>1, <2>2, <2>3 DEF MetricasTypeOK
<1>7. CASE VirarMes
    <2>1. mes' \in Meses
        BY <1>m, <1>7, LimitesDeMetricas DEF VirarMes, Meses
    <2> QED BY <1>m, <1>7, <2>1 DEF VirarMes, MetricasTypeOK
<1>8. CASE UNCHANGED varsMetricas
    BY <1>8 DEF varsMetricas, MetricasTypeOK
<1> QED BY <1>1, <1>2, <1>3, <1>4, <1>6, <1>7, <1>8 DEF MetricasNext

\* The monthly figures keep their types (cliente_metricas_mensais).
THEOREM MetricasTipo == MetricasSpec => []MetricasTypeOK
    BY MetricasInicial, MetricasPasso, PTL DEF MetricasSpec

----------------------------------------------------------------------------
LEMMA NovoTipado == \A a \in Perfis \cup {SemPerfil} : Novo(a) \subseteq Par
    BY DEF Novo, Par, Cifrar, Prazos

LEMMA Parados ==
    /\ RotinaParada \in Rotina /\ SemLogin \in Login /\ SemPar \in Par
    BY DEF RotinaParada, Rotina, SemLogin, Login, SemPar, Par, Prazos

LEMMA ContaTikTokInicial == ContaTikTokInit => ContaTikTokTypeOK
<1> SUFFICES ASSUME ContaTikTokInit PROVE ContaTikTokTypeOK
    OBVIOUS
<1> USE DEF ContaTikTokInit
<1>1. par \in [Unidades -> Par]
    BY Parados DEF Par, Prazos
<1>2. usuarioTT \in [Unidades -> Perfis \cup {SemPerfil}]
    BY <1>1 DEF Par
<1>3. login \in [Unidades -> Login] /\ rotina \in [Rotinas -> Rotina]
    BY Parados
<1>4. autorizada \in [Perfis -> BOOLEAN] /\ aviso \in [Perfis -> {"nenhum", "enviado", "recebido"}]
    OBVIOUS
<1>5. logins \in 0..MaxLogins /\ falhasTT \in 0..MaxFalhasTT
    BY ContasDasUnidades
<1> QED BY <1>1, <1>2, <1>3, <1>4, <1>5 DEF ContaTikTokTypeOK

LEMMA ContaTikTokPasso ==
    ContaTikTokTypeOK /\ [ContaTikTokNext]_varsContaTikTok => ContaTikTokTypeOK'
<1> SUFFICES ASSUME ContaTikTokTypeOK, [ContaTikTokNext]_varsContaTikTok
             PROVE  ContaTikTokTypeOK'
    OBVIOUS
<1>t. /\ par \in [Unidades -> Par]
      /\ usuarioTT \in [Unidades -> Perfis \cup {SemPerfil}]
      /\ autorizada \in [Perfis -> BOOLEAN]
      /\ login \in [Unidades -> Login]
      /\ aviso \in [Perfis -> {"nenhum", "enviado", "recebido"}]
      /\ rotina \in [Rotinas -> Rotina]
      /\ logins \in 0..MaxLogins /\ falhasTT \in 0..MaxFalhasTT
    BY DEF ContaTikTokTypeOK
<1>f. ASSUME Falhar PROVE falhasTT' \in 0..MaxFalhasTT
    BY <1>f, <1>t, ContasDasUnidades DEF Falhar
<1>1. ASSUME NEW t \in Unidades, Conectar(t) \/ RecusarCallback(t) \/ TrocarCodigo(t)
      PROVE ContaTikTokTypeOK'
    <2>1. login' \in [Unidades -> Login]
        BY <1>1, <1>t, Parados DEF Conectar, RecusarCallback, TrocarCodigo, Login
    <2>2. logins' \in 0..MaxLogins
        BY <1>1, <1>t, ContasDasUnidades DEF Conectar, RecusarCallback, TrocarCodigo
    <2>3. autorizada' \in [Perfis -> BOOLEAN]
        BY <1>1, <1>t DEF Conectar, RecusarCallback, TrocarCodigo
    <2>4. UNCHANGED <<par, usuarioTT, aviso, rotina, falhasTT>>
        BY <1>1 DEF Conectar, RecusarCallback, TrocarCodigo
    <2> QED BY <1>t, <2>1, <2>2, <2>3, <2>4 DEF ContaTikTokTypeOK
<1>2. ASSUME NEW t \in Unidades, GravarLogin(t) PROVE ContaTikTokTypeOK'
    <2>1. login[t].perfil \in Perfis \cup {SemPerfil}
        BY <1>t DEF Login
    <2>2. PICK p \in Novo(login[t].perfil) : par' = [par EXCEPT ![t] = p]
        BY <1>2 DEF GravarLogin
    <2>3. p \in Par
        BY <2>1, NovoTipado
    <2>4. par' \in [Unidades -> Par]
        BY <1>t, <2>2, <2>3
    <2>5. /\ usuarioTT' \in [Unidades -> Perfis \cup {SemPerfil}]
          /\ login' \in [Unidades -> Login]
        BY <1>2, <1>t, <2>1, Parados DEF GravarLogin
    <2>6. UNCHANGED <<autorizada, aviso, rotina, logins, falhasTT>>
        BY <1>2 DEF GravarLogin
    <2> QED BY <1>t, <2>4, <2>5, <2>6 DEF ContaTikTokTypeOK
<1>3. ASSUME NEW t \in Unidades, Envelhecer(t) PROVE ContaTikTokTypeOK'
    <2>1. par' \in [Unidades -> Par]
        BY <1>3, <1>t DEF Envelhecer, Par, Prazos
    <2> QED BY <1>3, <1>t, <2>1 DEF Envelhecer, ContaTikTokTypeOK
<1>4. ASSUME NEW a \in Perfis, RetirarAutorizacao(a) \/ ReceberAvisoTT(a)
      PROVE ContaTikTokTypeOK'
    BY <1>4, <1>t DEF RetirarAutorizacao, ReceberAvisoTT, ContaTikTokTypeOK
<1>5. ASSUME NEW a \in Perfis, ApagarTokens(a) PROVE ContaTikTokTypeOK'
    <2>1. par' \in [Unidades -> Par]
        BY <1>5, <1>t, Parados DEF ApagarTokens
    <2>2. falhasTT' \in 0..MaxFalhasTT
        BY <1>5, <1>t, <1>f DEF ApagarTokens
    <2>3. aviso' \in [Perfis -> {"nenhum", "enviado", "recebido"}]
        BY <1>5, <1>t DEF ApagarTokens
    <2>4. UNCHANGED <<usuarioTT, autorizada, login, rotina, logins>>
        BY <1>5 DEF ApagarTokens
    <2> QED BY <1>t, <2>1, <2>2, <2>3, <2>4 DEF ContaTikTokTypeOK
\* One routine moves, and the rest of the state but the failures stays.
<1>r. ASSUME NEW r \in Rotinas, NEW x \in Rotina, rotina' = [rotina EXCEPT ![r] = x],
             UNCHANGED <<usuarioTT, autorizada, login, aviso, logins>>,
             par' \in [Unidades -> Par], UNCHANGED falhasTT \/ Falhar
      PROVE ContaTikTokTypeOK'
    <2>1. rotina' \in [Rotinas -> Rotina]
        BY <1>r, <1>t
    <2>2. falhasTT' \in 0..MaxFalhasTT
        BY <1>r, <1>t, <1>f
    <2> QED BY <1>r, <1>t, <2>1, <2>2 DEF ContaTikTokTypeOK
<1>6. ASSUME NEW r \in Rotinas, IniciarRotina(r) PROVE ContaTikTokTypeOK'
    <2>1. PICK S \in SUBSET Unidades :
            rotina' = [rotina EXCEPT ![r].pc = "percorrendo", ![r].fila = Lidas(S)]
        BY <1>6, ContasDasUnidades DEF IniciarRotina
    <2>2. Lidas(S) \subseteq ParLido
        BY <1>t, <2>1 DEF Lidas, ParLido
    <2>3. rotina[r] \in Rotina
        BY <1>t
    <2>4. [rotina[r] EXCEPT !.pc = "percorrendo", !.fila = Lidas(S)] \in Rotina
        BY <2>2, <2>3 DEF Rotina
    <2>5. PICK x \in Rotina : x = [rotina[r] EXCEPT !.pc = "percorrendo", !.fila = Lidas(S)]
        BY <2>4
    <2>6. rotina' = [rotina EXCEPT ![r] = x]
        BY <1>t, <2>1, <2>5
    <2>7. UNCHANGED <<par, usuarioTT, autorizada, login, aviso, logins, falhasTT>>
        BY <1>6 DEF IniciarRotina
    <2> QED BY <1>t, <1>r, <2>6, <2>7
<1>7. ASSUME NEW r \in Rotinas, RenovarSeguinte(r) PROVE ContaTikTokTypeOK'
    <2>1. PICK x \in rotina[r].fila :
            /\ \/ rotina' = [rotina EXCEPT ![r] = [pc |-> "gravando", fila |-> @.fila \ {x},
                                                   unidade |-> x.unidade, de |-> x.par.de]]
               \/ rotina' = [rotina EXCEPT ![r].fila = @ \ {x}]
            /\ UNCHANGED falhasTT \/ Falhar
            /\ UNCHANGED <<par, usuarioTT, autorizada, login, aviso, logins>>
        BY <1>7 DEF RenovarSeguinte
    <2>2. rotina[r] \in Rotina
        BY <1>t
    <2>3. rotina[r].fila \subseteq ParLido
        BY <2>2 DEF Rotina
    <2>4. x.unidade \in Unidades /\ x.par.de \in Perfis \cup {SemPerfil}
        BY <2>3 DEF ParLido, Par
    <2> DEFINE grava == [pc |-> "gravando", fila |-> rotina[r].fila \ {x},
                         unidade |-> x.unidade, de |-> x.par.de]
               pula == [rotina[r] EXCEPT !.fila = @ \ {x}]
    <2>5. grava \in Rotina /\ pula \in Rotina
        BY <2>2, <2>3, <2>4 DEF Rotina
    <2>6. rotina' = [rotina EXCEPT ![r] = grava] \/ rotina' = [rotina EXCEPT ![r] = pula]
        BY <1>t, <2>1
    <2>7. PICK y \in Rotina : rotina' = [rotina EXCEPT ![r] = y]
        <3> HIDE DEF grava, pula
        <3> QED BY <2>5, <2>6
    <2> QED BY <1>t, <1>r, <2>1, <2>7
<1>8. ASSUME NEW r \in Rotinas, GravarRenovacao(r) PROVE ContaTikTokTypeOK'
    <2>1. rotina[r] \in Rotina /\ rotina[r].de \in Perfis \cup {SemPerfil}
        BY <1>t DEF Rotina
    <2>2. PICK p \in Novo(rotina[r].de) : par' = [par EXCEPT ![rotina[r].unidade] = p]
        BY <1>8 DEF GravarRenovacao
    <2>3. p \in Par
        BY <2>1, NovoTipado
    <2>4. par' \in [Unidades -> Par]
        BY <1>t, <2>2, <2>3
    <2> DEFINE y == [rotina[r] EXCEPT !.pc = "percorrendo", !.unidade = SemPerfil, !.de = SemPerfil]
    <2>5. y \in Rotina
        BY <2>1 DEF Rotina
    <2>6. PICK x \in Rotina : x = y
        BY <2>5
    <2>7. rotina' = [rotina EXCEPT ![r] = x]
        BY <1>8, <1>t, <2>6 DEF GravarRenovacao
    <2>8. UNCHANGED <<usuarioTT, autorizada, login, aviso, logins, falhasTT>>
        BY <1>8 DEF GravarRenovacao
    <2> QED BY <1>r, <2>4, <2>7, <2>8
<1>9. ASSUME NEW r \in Rotinas, TerminarRotina(r) PROVE ContaTikTokTypeOK'
    BY <1>9, <1>t, <1>r, Parados DEF TerminarRotina
<1>10. CASE CairServidor
    <2>1. rotina' \in [Rotinas -> Rotina] /\ login' \in [Unidades -> Login]
        BY <1>10, <1>t, Parados DEF CairServidor
    <2>2. aviso' \in [Perfis -> {"nenhum", "enviado", "recebido"}]
        BY <1>10, <1>t DEF CairServidor
    <2>3. falhasTT' \in 0..MaxFalhasTT
        BY <1>10, <1>f DEF CairServidor
    <2> QED BY <1>10, <1>t, <2>1, <2>2, <2>3 DEF CairServidor, ContaTikTokTypeOK
<1>11. CASE UNCHANGED varsContaTikTok
    BY <1>11 DEF varsContaTikTok, ContaTikTokTypeOK
<1> QED BY <1>1, <1>2, <1>3, <1>4, <1>5, <1>6, <1>7, <1>8, <1>9, <1>10, <1>11
        DEF ContaTikTokNext, PassoDaRotina

\* A stored pair is encrypted at most once, and the routines, logins and
\* warnings keep their types (tiktok-token-refresh.js, tiktok.js).
THEOREM ContaTikTokTipo == ContaTikTokSpec => []ContaTikTokTypeOK
    BY ContaTikTokInicial, ContaTikTokPasso, PTL DEF ContaTikTokSpec

----------------------------------------------------------------------------
\* The figures and the accounts keep their types together.
THEOREM PainelTipo == PainelSpec => []PainelTypeOK
<1>1. PainelInit => MetricasInit /\ ContaTikTokInit
    BY DEF PainelInit
<1>2. [PainelNext]_<<cena, vars, varsMetricas, varsContaTikTok>>
        => [MetricasNext]_varsMetricas /\ [ContaTikTokNext]_varsContaTikTok
    BY DEF PainelNext
<1>3. MetricasTypeOK /\ ContaTikTokTypeOK => PainelTypeOK
    BY DEF PainelTypeOK
<1> QED BY <1>1, <1>2, <1>3, MetricasTipo, ContaTikTokTipo, PTL
        DEF PainelSpec, MetricasSpec, ContaTikTokSpec
=============================================================================
