---------------------------- MODULE AcessoProofs ----------------------------
(***************************************************************************)
(* For any number of users, clients, tokens, links and requests in         *)
(* progress: types, JWTs of ended sessions refused while their version can *)
(* be read and no other ever, one user per client, and credentials used    *)
(* once.                                                                   *)
(***************************************************************************)
EXTENDS Acesso, TLAPS

\* Versions and ends of sessions are counted together.
ContasCertas ==
    /\ conta \in [Contas -> Conta]
    /\ geracao \in [Contas -> 0..MaxVersao]
    /\ \A u \in Contas : conta[u].situacao # "removida" => conta[u].versao = geracao[u] + 1

\* What was read of account u, not later than now.
Lida(u, versao, g) ==
    /\ u \in Contas
    /\ versao = g + 1
    /\ conta[u].situacao # "removida" => g <= geracao[u]

Valido(q) ==
    /\ q \in Pedido
    /\ q.etapa # "livre" => q.conta \in Contas
    /\ q.etapa = "convidar" => q.alvo \in Parceiros \cup {NaoHa}
    /\ q.etapa \in {"emitir", "revogar_usada"} => Lida(q.conta, q.versao, q.geracao)
JwtValido(j) == j \in Jwt /\ (j # SemJwt => Lida(j.conta, j.versao, j.geracao))

Papeis == [dona: Contas \cup {NaoHa}, vale: BOOLEAN]
PapeisCertos ==
    /\ ficha \in [Fichas -> Papeis] /\ \A k \in Fichas : ficha[k].vale => ficha[k].dona \in Contas
    /\ link \in [Links -> Papeis] /\ \A k \in Links : link[k].vale => link[k].dona \in Contas

AcessoInv ==
    /\ ContasCertas
    /\ pedido \in [Pedidos -> Pedido] /\ \A p \in Pedidos : Valido(pedido[p])
    /\ JwtValido(jwt)
    /\ PapeisCertos
    /\ vinculo \in [Parceiros -> Contas \cup {NaoHa}]
    /\ aceites \in [Contas -> Nat] /\ trocas \in [Links -> Nat]

----------------------------------------------------------------------------
LEMMA AcessoInicial == AcessoInit => AcessoInv
<1> SUFFICES ASSUME AcessoInit PROVE AcessoInv
    OBVIOUS
<1> USE LimitesDeAcesso, NaoHaNovo DEF AcessoInit
<1>1. ContasCertas
    BY DEF ContasCertas, Conta, ContaNova, Versoes
<1>2. PedidoLivre \in Pedido /\ PedidoLivre.etapa = "livre"
    BY DEF Pedido, PedidoLivre, Etapas, Versoes
<1>3. pedido \in [Pedidos -> Pedido] /\ \A p \in Pedidos : Valido(pedido[p])
    BY <1>2 DEF Valido
<1>4. JwtValido(jwt)
    BY DEF JwtValido, Jwt, SemJwt, Versoes
<1>5. PapeisCertos
    BY DEF PapeisCertos, Papeis
<1> QED BY <1>1, <1>3, <1>4, <1>5 DEF AcessoInv

\* What a step does to the accounts: they stay right, none comes back from
\* removal, and no end of sessions is forgotten.
LEMMA PassoDasContas ==
    ASSUME AcessoInv, [AcessoNext]_varsAcesso
    PROVE  /\ ContasCertas'
           /\ \A u \in Contas : /\ conta'[u].situacao # "removida" => conta[u].situacao # "removida"
                                /\ geracao[u] <= geracao'[u]
<1> DEFINE Segue(u) == /\ conta'[u].situacao # "removida" => conta[u].situacao # "removida"
                       /\ geracao[u] <= geracao'[u]
           Tese == ContasCertas' /\ \A u \in Contas : Segue(u)
<1> SUFFICES Tese
    OBVIOUS
<1> USE LimitesDeAcesso
<1>t. /\ ContasCertas
      /\ \A p \in Pedidos : pedido[p].etapa # "livre" => pedido[p].conta \in Contas
    BY DEF AcessoInv, Valido
\* One account changes, and its version does not.
<1>a. ASSUME NEW u \in Contas, NEW c \in Conta, conta' = [conta EXCEPT ![u] = c],
             c.situacao # "removida" => conta[u].situacao # "removida" /\ c.versao = conta[u].versao,
             UNCHANGED geracao
      PROVE Tese
    BY <1>a, <1>t DEF ContasCertas
<1>b. ASSUME UNCHANGED <<conta, geracao>> PROVE Tese
    BY <1>b, <1>t DEF ContasCertas
<1>c. ASSUME NEW u \in Contas, ContaExiste(u), EncerrarJwts(u) PROVE Tese
    <2>1. conta[u] \in Conta /\ conta[u].versao = geracao[u] + 1 /\ conta[u].versao < MaxVersao
        BY <1>c, <1>t DEF ContasCertas, EncerrarJwts, ContaExiste
    <2> DEFINE nova == [conta[u] EXCEPT !.versao = @ + 1]
    <2>2. nova \in Conta /\ nova.versao = geracao[u] + 2 /\ nova.situacao = conta[u].situacao
        BY <2>1, <1>t DEF Conta, Versoes, ContasCertas
    <2>3. conta' = [conta EXCEPT ![u] = nova]
        BY <1>c, <1>t DEF EncerrarJwts, ComVersaoNova, ContasCertas
    <2> HIDE DEF nova
    <2>4. geracao' = [geracao EXCEPT ![u] = @ + 1]
        BY <1>c DEF EncerrarJwts
    <2>5. geracao[u] + 1 \in 0..MaxVersao
        BY <2>1, <1>t DEF ContasCertas, Conta, Versoes
    <2> QED BY <1>t, <2>2, <2>3, <2>4, <2>5 DEF ContasCertas
<1>1. ASSUME NEW p \in Pedidos, NEW u \in Contas, Inicio(p, u) PROVE Tese
    <2>1. CASE AceitarConvite(p, u)
        <3>1. conta[u] \in Conta BY <1>t DEF ContasCertas
        <3> DEFINE nova == [conta[u] EXCEPT !.aceito = TRUE, !.convite = FALSE]
        <3>2. /\ nova \in Conta /\ nova.situacao = conta[u].situacao
              /\ nova.versao = conta[u].versao
            BY <3>1 DEF Conta
        <3>3. conta' = [conta EXCEPT ![u] = nova] /\ UNCHANGED geracao
            BY <2>1, <1>t DEF AceitarConvite, ContasCertas
        <3> HIDE DEF nova
        <3> QED BY <1>a, <3>2, <3>3
    <2>2. CASE ForcarSaida(p, u)
        BY <2>2, <1>c DEF ForcarSaida
    <2> QED
        BY <1>1, <1>b, <2>1, <2>2
        DEF Inicio, VerificarConvite, LerConvite, LerLogin, PedirLink, IniciarDesativacao
<1>2. ASSUME NEW p \in Pedidos, Continuacao(p) PROVE Tese
    <2> DEFINE u == pedido[p].conta
    <2>1. CASE Convidar(p)
        <3>1. u \in Contas /\ conta[u] \in Conta
            BY <2>1, <1>t DEF Convidar, Esta, ContasCertas
        <3>2. CASE UNCHANGED conta
            BY <2>1, <3>2, <1>b DEF Convidar
        <3>3. CASE conta # conta'
            <4>0. PICK porEmail \in BOOLEAN :
                    conta' = [conta EXCEPT ![u].situacao = "ativa", ![u].convite = porEmail,
                                           ![u].cliente = pedido[p].alvo]
                BY <2>1, <3>3 DEF Convidar
            <4> DEFINE nova == [conta[u] EXCEPT !.situacao = "ativa", !.convite = porEmail,
                                                !.cliente = pedido[p].alvo]
            <4>1. pedido[p].alvo \in Parceiros \cup {NaoHa}
                BY <2>1 DEF Convidar, Esta, AcessoInv, Valido
            <4>2. nova \in Conta /\ nova.versao = conta[u].versao
                BY <3>1, <4>0, <4>1 DEF Conta
            <4>3. conta[u].situacao = "nao_ha" /\ conta' = [conta EXCEPT ![u] = nova]
                <5>1. conta[u].situacao = "nao_ha" BY <2>1, <3>3 DEF Convidar
                <5> QED BY <3>1, <4>0, <5>1, <1>t DEF ContasCertas
            <4>4. UNCHANGED geracao
                BY <2>1 DEF Convidar
            <4> HIDE DEF nova, u
            <4> QED BY <1>a, <3>1, <4>2, <4>3, <4>4
        <3> QED BY <3>2, <3>3
    <2>2. CASE ReenviarConvite(p)
        <3>1. u \in Contas /\ conta[u] \in Conta /\ UNCHANGED geracao
            BY <2>2, <1>t DEF ReenviarConvite, Esta, ContasCertas
        <3> DEFINE nova == [conta[u] EXCEPT !.convite = TRUE]
        <3>2. /\ nova \in Conta /\ nova.situacao = conta[u].situacao
              /\ nova.versao = conta[u].versao
            BY <3>1 DEF Conta
        <3>3. conta' = conta \/ conta' = [conta EXCEPT ![u] = nova]
            BY <2>2, <3>1, <1>t DEF ReenviarConvite, ContasCertas
        <3> HIDE DEF nova, u
        <3> QED BY <1>a, <1>b, <3>1, <3>2, <3>3
    <2>3. CASE CancelarConvite(p)
        <3> DEFINE nova == [ContaNova EXCEPT !.situacao = "removida"]
        <3>0. ContaNova \in Conta
            BY DEF Conta, ContaNova, Versoes
        <3>1. nova \in Conta /\ nova.situacao = "removida"
            BY <3>0 DEF Conta
        <3>2. u \in Contas /\ conta' = [conta EXCEPT ![u] = nova] /\ UNCHANGED geracao
            BY <2>3, <1>t DEF CancelarConvite, Esta
        <3> HIDE DEF nova, u
        <3> QED BY <1>a, <3>1, <3>2
    <2>4. CASE TrocarSenha(p)
        <3>1. u \in Contas
            BY <2>4, <1>t DEF TrocarSenha, Esta
        <3>2. CASE Ativa(u)
            <4>1. ContaExiste(u) /\ EncerrarJwts(u)
                BY <2>4, <3>2 DEF TrocarSenha, Ativa, ContaExiste
            <4> HIDE DEF u
            <4> QED BY <1>c, <3>1, <4>1
        <3>3. CASE ~Ativa(u)
            BY <2>4, <3>3, <1>b DEF TrocarSenha
        <3> QED BY <3>2, <3>3
    <2>5. CASE Desativar(p)
        <3>1. u \in Contas /\ conta[u] \in Conta /\ UNCHANGED geracao
            BY <2>5, <1>t DEF Desativar, Esta, ContasCertas
        <3> DEFINE nova == [conta[u] EXCEPT !.situacao = "inativa"]
        <3>2. nova \in Conta /\ nova.versao = conta[u].versao
            BY <3>1 DEF Conta
        <3>3. conta' = conta \/ (ContaExiste(u) /\ conta' = [conta EXCEPT ![u] = nova])
            BY <2>5, <3>1, <1>t DEF Desativar, ContasCertas
        <3> HIDE DEF nova, u
        <3> QED BY <1>a, <1>b, <3>1, <3>2, <3>3 DEF ContaExiste
    <2> QED
        BY <1>2, <1>b, <2>1, <2>2, <2>3, <2>4, <2>5
        DEF Continuacao, ApagarFichas, RevogarUsada, Emitir, InvalidarLinks, InserirLink,
            RevogarTudo
<1>3. ASSUME NEW u \in Contas, Reativar(u) PROVE Tese
    <2> DEFINE nova == [conta[u] EXCEPT !.situacao = "ativa"]
    <2>1. nova \in Conta /\ nova.versao = conta[u].versao
        BY <1>t DEF ContasCertas, Conta
    <2>2. conta[u].situacao = "inativa" /\ conta' = [conta EXCEPT ![u] = nova] /\ UNCHANGED geracao
        BY <1>3, <1>t DEF Reativar, ContasCertas
    <2> HIDE DEF nova
    <2> QED BY <1>a, <2>1, <2>2
<1>4. ASSUME NEW s \in {"ativa", "inativa"}, MudarUnidade(s) PROVE Tese
    <2>1. \A u \in Contas : [conta[u] EXCEPT !.situacao = s] \in Conta
        BY <1>t DEF ContasCertas, Conta
    <2>2. \A u \in Contas : conta'[u] = IF ContaExiste(u) THEN [conta[u] EXCEPT !.situacao = s]
                                                       ELSE conta[u]
        BY <1>4 DEF MudarUnidade
    <2>3. conta' \in [Contas -> Conta] /\ UNCHANGED geracao
        BY <1>4, <1>t, <2>1 DEF MudarUnidade, ContasCertas
    <2>4. \A u \in Contas : /\ conta'[u].versao = conta[u].versao
                            /\ conta'[u].situacao # "removida" => conta[u].situacao # "removida"
        BY <1>t, <2>2 DEF ContasCertas, Conta, ContaExiste
    <2> QED BY <1>t, <2>3, <2>4 DEF ContasCertas
<1>5. ASSUME NEW u \in Contas, RevogarSessoes(u) PROVE Tese
    BY <1>b, <1>5 DEF RevogarSessoes
<1>6. ASSUME NEW p \in Pedidos, NEW k \in Fichas, LerRenovacao(p, k) PROVE Tese
    BY <1>b, <1>6 DEF LerRenovacao
<1>7. ASSUME NEW p \in Pedidos, NEW k \in Links, ConsumirLink(p, k) PROVE Tese
    BY <1>b, <1>7 DEF ConsumirLink
<1>8. CASE UNCHANGED varsAcesso
    BY <1>b, <1>8 DEF varsAcesso
<1> QED BY <1>1, <1>2, <1>3, <1>4, <1>5, <1>6, <1>7, <1>8 DEF AcessoNext

\* What was read before a step is still not later than now after it.
LEMMA LeituraFica ==
    ASSUME AcessoInv, [AcessoNext]_varsAcesso, NEW u, NEW v, NEW g, g \in Nat, Lida(u, v, g)
    PROVE  Lida(u, v, g)'
BY PassoDasContas DEF Lida, AcessoInv, ContasCertas

LEMMA RecordesDoPedido ==
    ASSUME NEW q \in Pedido, NEW e \in Etapas
    PROVE  /\ [q EXCEPT !.etapa = e] \in Pedido
           /\ [q EXCEPT !.etapa = e].etapa = e
           /\ [q EXCEPT !.etapa = e].conta = q.conta
           /\ [q EXCEPT !.etapa = e].versao = q.versao
           /\ [q EXCEPT !.etapa = e].geracao = q.geracao
BY DEF Pedido

\* What a step does to the requests: what they hold was valid before it.
LEMMA PassoDosPedidos ==
    ASSUME AcessoInv, [AcessoNext]_varsAcesso
    PROVE  pedido' \in [Pedidos -> Pedido] /\ \A p \in Pedidos : Valido(pedido'[p])
<1> DEFINE Tese == pedido' \in [Pedidos -> Pedido] /\ \A p \in Pedidos : Valido(pedido'[p])
<1> SUFFICES Tese
    OBVIOUS
<1> USE LimitesDeAcesso
<1>t. pedido \in [Pedidos -> Pedido] /\ \A p \in Pedidos : Valido(pedido[p])
    BY DEF AcessoInv
<1>a. ASSUME NEW p \in Pedidos, NEW q, Valido(q), pedido' = [pedido EXCEPT ![p] = q]
      PROVE Tese
    BY <1>a, <1>t DEF Valido
<1>b. ASSUME UNCHANGED pedido PROVE Tese
    BY <1>b, <1>t
<1>c. ASSUME NEW p \in Pedidos, Fechar(p) PROVE Tese
    <2>1. Valido(PedidoLivre)
        BY DEF Valido, PedidoLivre, Pedido, Etapas, Versoes
    <2> QED BY <1>a, <1>c, <2>1 DEF Fechar
\* A request opened without a session, ...
<1>d. ASSUME NEW p \in Pedidos, NEW u \in Contas, NEW x \in Parceiros \cup {NaoHa},
             NEW e \in Etapas \ {"emitir", "revogar_usada"}, Abrir(p, e, u, x)
      PROVE Tese
    <2> DEFINE q == [PedidoLivre EXCEPT !.etapa = e, !.conta = u, !.alvo = x]
    <2>0. PedidoLivre \in Pedido
        BY DEF PedidoLivre, Pedido, Etapas, Versoes
    <2>1. q \in Pedido /\ q.etapa = e /\ q.conta = u /\ q.alvo = x
        BY <2>0 DEF Pedido
    <2>3. Valido(q)
        BY <2>1 DEF Valido
    <2>2. pedido' = [pedido EXCEPT ![p] = q]
        BY <1>d DEF Abrir
    <2> HIDE DEF q
    <2> QED BY <1>a, <2>3, <2>2
\* ... with one, ...
<1>e. ASSUME NEW p \in Pedidos, NEW u \in Contas, NEW x \in Fichas \cup {NaoHa},
             NEW e \in {"emitir", "revogar_usada"}, AbrirSessao(p, e, u, x), ContaExiste(u)
      PROVE Tese
    <2> DEFINE q == [etapa |-> e, conta |-> u, versao |-> conta[u].versao,
                     geracao |-> geracao[u], alvo |-> x]
    <2>1. /\ conta[u].versao \in Versoes /\ geracao[u] \in 0..MaxVersao
          /\ conta[u].versao = geracao[u] + 1
        BY <1>e DEF AcessoInv, ContasCertas, Conta, ContaExiste
    <2>2. Valido(q)
        BY <2>1 DEF Valido, Pedido, Etapas, Lida
    <2>3. pedido' = [pedido EXCEPT ![p] = q]
        BY <1>e DEF AbrirSessao
    <2> HIDE DEF q
    <2> QED BY <1>a, <2>2, <2>3
\* ... or that goes on.
<1>f. ASSUME NEW p \in Pedidos, NEW e \in Etapas, pedido[p].etapa # "livre", Seguir(p, e),
             e \in {"convidar"} => FALSE,
             e \in {"emitir", "revogar_usada"} => pedido[p].etapa \in {"emitir", "revogar_usada"}
      PROVE Tese
    <2> DEFINE q == [pedido[p] EXCEPT !.etapa = e]
    <2>1. q \in Pedido /\ q.etapa = e /\ q.conta = pedido[p].conta
          /\ q.versao = pedido[p].versao /\ q.geracao = pedido[p].geracao
        BY <1>t, RecordesDoPedido
    <2>2. pedido' = [pedido EXCEPT ![p] = q]
        BY <1>f, <1>t DEF Seguir
    <2> HIDE DEF q
    <2>3. Valido(q)
        BY <1>f, <1>t, <2>1 DEF Valido
    <2> QED BY <1>a, <2>2, <2>3
<1>1. ASSUME NEW p \in Pedidos, NEW u \in Contas, Inicio(p, u) PROVE Tese
    <2>1. ASSUME NEW c \in Parceiros \cup {NaoHa}, VerificarConvite(p, u, c) PROVE Tese
        BY <1>d, <2>1 DEF VerificarConvite, Etapas
    <2>2. CASE AceitarConvite(p, u)
        BY <1>e, <2>2 DEF AceitarConvite, Aceitavel, Ativa, ContaExiste
    <2>3. ASSUME NEW e \in {"reenviar", "cancelar"}, LerConvite(p, u, e) PROVE Tese
        BY <1>d, <2>3 DEF LerConvite, Etapas
    <2>4. CASE LerLogin(p, u)
        BY <1>e, <2>4 DEF LerLogin, Ativa, ContaExiste
    <2>5. CASE PedirLink(p, u)
        BY <1>d, <2>5 DEF PedirLink, Etapas
    <2>6. CASE ForcarSaida(p, u)
        BY <1>d, <2>6 DEF ForcarSaida, Etapas
    <2>7. CASE IniciarDesativacao(p, u)
        BY <1>d, <2>7 DEF IniciarDesativacao, Etapas
    <2> QED BY <1>1, <2>1, <2>2, <2>3, <2>4, <2>5, <2>6, <2>7 DEF Inicio
<1>2. ASSUME NEW p \in Pedidos, Continuacao(p) PROVE Tese
    <2>1. CASE RevogarUsada(p)
        BY <1>f, <2>1 DEF RevogarUsada, Esta, Etapas
    <2>2. CASE InvalidarLinks(p)
        BY <1>f, <2>2 DEF InvalidarLinks, Esta, Etapas
    <2>3. CASE TrocarSenha(p)
        BY <1>f, <2>3 DEF TrocarSenha, Esta, Etapas
    <2>4. CASE Convidar(p) \/ ReenviarConvite(p) \/ CancelarConvite(p) \/ Emitir(p)
               \/ InserirLink(p) \/ RevogarTudo(p) \/ Desativar(p)
        BY <1>c, <2>4
        DEF Convidar, ReenviarConvite, CancelarConvite, Emitir, InserirLink, RevogarTudo, Desativar
    <2>5. CASE ApagarFichas(p)
        BY <1>f, <2>5 DEF ApagarFichas, Esta, Etapas
    <2> QED BY <1>2, <2>1, <2>2, <2>3, <2>4, <2>5 DEF Continuacao
<1>3. ASSUME NEW p \in Pedidos, NEW k \in Fichas, LerRenovacao(p, k) PROVE Tese
    <2>1. ficha[k].dona \in Contas
        BY <1>3 DEF LerRenovacao, AcessoInv, PapeisCertos
    <2> QED BY <1>e, <1>3, <2>1 DEF LerRenovacao, Ativa, ContaExiste
<1>4. ASSUME NEW p \in Pedidos, NEW k \in Links, ConsumirLink(p, k) PROVE Tese
    <2>1. link[k].dona \in Contas
        BY <1>4 DEF ConsumirLink, AcessoInv, PapeisCertos
    <2> QED BY <1>d, <1>4, <2>1 DEF ConsumirLink, Etapas
<1>5. ASSUME NEW u \in Contas, RevogarSessoes(u) \/ Reativar(u) PROVE Tese
    BY <1>b, <1>5 DEF RevogarSessoes, Reativar
<1>6. ASSUME NEW s \in {"ativa", "inativa"}, MudarUnidade(s) PROVE Tese
    BY <1>b, <1>6 DEF MudarUnidade
<1>7. CASE UNCHANGED varsAcesso
    BY <1>b, <1>7 DEF varsAcesso
<1> QED BY <1>1, <1>2, <1>3, <1>4, <1>5, <1>6, <1>7 DEF AcessoNext

LEMMA PassoDoJwt ==
    ASSUME AcessoInv, [AcessoNext]_varsAcesso
    PROVE  JwtValido(jwt')
<1>1. JwtValido(jwt)
    BY DEF AcessoInv
<1>2. ASSUME NEW p \in Pedidos, Emitir(p) PROVE JwtValido(jwt')
    <2> DEFINE q == pedido[p]
               j == [conta |-> q.conta, versao |-> q.versao, geracao |-> q.geracao]
    <2>1. q \in Pedido /\ q.conta \in Contas /\ Lida(q.conta, q.versao, q.geracao)
        BY <1>2 DEF Emitir, Esta, AcessoInv, Valido
    <2>2. JwtValido(j)
        BY <2>1 DEF JwtValido, Jwt, Pedido
    <2>3. jwt' \in {jwt, j}
        BY <1>2 DEF Emitir
    <2> HIDE DEF j
    <2> QED BY <1>1, <2>2, <2>3
<1>3. CASE UNCHANGED jwt
    BY <1>1, <1>3
<1>4. ASSUME NEW p \in Pedidos, NEW u \in Contas, Inicio(p, u) PROVE UNCHANGED jwt
    BY <1>4
    DEF Inicio, VerificarConvite, AceitarConvite, LerConvite, LerLogin, PedirLink, ForcarSaida,
        IniciarDesativacao
<1>5. ASSUME NEW p \in Pedidos, Continuacao(p), ~Emitir(p) PROVE UNCHANGED jwt
    BY <1>5
    DEF Continuacao, Convidar, ReenviarConvite, ApagarFichas, CancelarConvite, RevogarUsada,
        InvalidarLinks,
        InserirLink, TrocarSenha, RevogarTudo, Desativar
<1>6. ASSUME NEW p \in Pedidos,
             (\E k \in Fichas : LerRenovacao(p, k)) \/ (\E k \in Links : ConsumirLink(p, k))
      PROVE UNCHANGED jwt
    BY <1>6 DEF LerRenovacao, ConsumirLink
<1>7. ASSUME NEW u \in Contas, RevogarSessoes(u) \/ Reativar(u) PROVE UNCHANGED jwt
    BY <1>7 DEF RevogarSessoes, Reativar
<1>8. ASSUME NEW s \in {"ativa", "inativa"}, MudarUnidade(s) PROVE UNCHANGED jwt
    BY <1>8 DEF MudarUnidade
<1>9. CASE UNCHANGED varsAcesso
    BY <1>3, <1>9 DEF varsAcesso
<1> QED BY <1>2, <1>3, <1>4, <1>5, <1>6, <1>7, <1>8, <1>9 DEF AcessoNext

\* Tokens, links and clients name users.
LEMMA PassoDosPapeis ==
    ASSUME AcessoInv, [AcessoNext]_varsAcesso
    PROVE  /\ PapeisCertos'
           /\ vinculo' \in [Parceiros -> Contas \cup {NaoHa}]
           /\ aceites' \in [Contas -> Nat] /\ trocas' \in [Links -> Nat]
<1> DEFINE Tese == /\ PapeisCertos'
                   /\ vinculo' \in [Parceiros -> Contas \cup {NaoHa}]
                   /\ aceites' \in [Contas -> Nat] /\ trocas' \in [Links -> Nat]
<1> SUFFICES Tese
    OBVIOUS
<1>t. /\ PapeisCertos
      /\ vinculo \in [Parceiros -> Contas \cup {NaoHa}]
      /\ aceites \in [Contas -> Nat] /\ trocas \in [Links -> Nat]
      /\ \A p \in Pedidos : pedido[p].etapa # "livre" => pedido[p].conta \in Contas
    BY DEF AcessoInv, Valido
<1>b. ASSUME UNCHANGED <<ficha, link, vinculo, aceites, trocas>> PROVE Tese
    BY <1>b, <1>t DEF PapeisCertos
<1>c. ASSUME NEW u, ficha' = Revogadas(u), UNCHANGED <<link, vinculo, aceites, trocas>>
      PROVE Tese
    BY <1>c, <1>t DEF PapeisCertos, Papeis, Revogadas
\* One token, or one link, changes.
<1>d. ASSUME NEW k \in Fichas, NEW r \in Papeis, r.vale => r.dona \in Contas,
             ficha' = [ficha EXCEPT ![k] = r], UNCHANGED <<link, vinculo, aceites, trocas>>
      PROVE Tese
    BY <1>d, <1>t DEF PapeisCertos
<1>e. ASSUME NEW k \in Links, NEW r \in Papeis, r.vale => r.dona \in Contas,
             link' = [link EXCEPT ![k] = r], trocas' \in [Links -> Nat],
             UNCHANGED <<ficha, vinculo, aceites>>
      PROVE Tese
    BY <1>e, <1>t DEF PapeisCertos
<1>1. ASSUME NEW p \in Pedidos, NEW u \in Contas, Inicio(p, u) PROVE Tese
    <2>1. CASE AceitarConvite(p, u)
        BY <2>1, <1>t DEF AceitarConvite, PapeisCertos
    <2>2. CASE IniciarDesativacao(p, u)
        BY <2>2, <1>c DEF IniciarDesativacao
    <2> QED
        BY <1>1, <1>b, <2>1, <2>2
        DEF Inicio, VerificarConvite, LerConvite, LerLogin, PedirLink, ForcarSaida
<1>2. ASSUME NEW p \in Pedidos, Continuacao(p) PROVE Tese
    <2>1. CASE Convidar(p)
        <3>1. vinculo' \in [Parceiros -> Contas \cup {NaoHa}]
            BY <2>1, <1>t DEF Convidar, Esta
        <3> QED BY <2>1, <3>1, <1>t DEF Convidar, PapeisCertos
    <2>2. CASE CancelarConvite(p)
        <3> DEFINE u == pedido[p].conta
        <3>1. vinculo' \in [Parceiros -> Contas \cup {NaoHa}]
            BY <2>2, <1>t DEF CancelarConvite
        <3>2. /\ ficha' = [k \in Fichas |-> [ficha[k] EXCEPT !.vale = @ /\ ficha[k].dona # u]]
              /\ link' = [k \in Links |-> [link[k] EXCEPT !.vale = @ /\ link[k].dona # u]]
              /\ UNCHANGED <<aceites, trocas>>
            BY <2>2 DEF CancelarConvite, Revogadas
        <3> HIDE DEF u
        <3>3. ficha' \in [Fichas -> Papeis] /\ \A k \in Fichas : ficha'[k].vale => ficha'[k].dona \in Contas
            BY <3>2, <1>t DEF PapeisCertos, Papeis
        <3>4. link' \in [Links -> Papeis] /\ \A k \in Links : link'[k].vale => link'[k].dona \in Contas
            BY <3>2, <1>t DEF PapeisCertos, Papeis
        <3> QED BY <3>1, <3>2, <3>3, <3>4, <1>t DEF PapeisCertos
    <2>3. CASE RevogarUsada(p)
        <3> DEFINE k == pedido[p].alvo
                   r == [ficha[k] EXCEPT !.vale = FALSE]
        <3>1. ficha' = [ficha EXCEPT ![k].vale = FALSE] /\ UNCHANGED <<link, vinculo, aceites, trocas>>
            BY <2>3 DEF RevogarUsada
        <3>2. CASE k \in Fichas
            <4>1. r \in Papeis /\ r.vale = FALSE
                BY <3>2, <1>t DEF PapeisCertos, Papeis
            <4>2. ficha' = [ficha EXCEPT ![k] = r]
                BY <3>1, <3>2, <1>t DEF PapeisCertos
            <4> HIDE DEF r, k
            <4> QED BY <1>d, <3>1, <3>2, <4>1, <4>2
        <3>3. CASE k \notin Fichas
            <4> HIDE DEF k
            <4>1. ficha' = ficha
                BY <3>1, <3>3, <1>t DEF PapeisCertos
            <4> QED BY <1>b, <3>1, <4>1
        <3> QED BY <3>2, <3>3
    <2>4. CASE Emitir(p)
        <3>1. pedido[p].conta \in Contas /\ UNCHANGED <<link, vinculo, aceites, trocas>>
            BY <2>4, <1>t DEF Emitir, Esta
        <3>2. ficha' = ficha \/ \E k \in Fichas :
                ficha' = [ficha EXCEPT ![k] = [dona |-> pedido[p].conta, vale |-> TRUE]]
            BY <2>4 DEF Emitir
        <3> DEFINE r == [dona |-> pedido[p].conta, vale |-> TRUE]
        <3>3. r \in Papeis /\ r.dona \in Contas
            BY <3>1 DEF Papeis
        <3>4. ficha' = ficha \/ \E k \in Fichas : ficha' = [ficha EXCEPT ![k] = r]
            BY <3>2
        <3> HIDE DEF r
        <3> QED BY <1>b, <1>d, <3>1, <3>3, <3>4
    <2>5. CASE InvalidarLinks(p)
        <3> DEFINE u == pedido[p].conta
        <3>1. /\ link' = [k \in Links |-> [link[k] EXCEPT !.vale = @ /\ link[k].dona # u]]
              /\ UNCHANGED <<ficha, vinculo, aceites, trocas>>
            BY <2>5 DEF InvalidarLinks
        <3> HIDE DEF u
        <3> QED BY <3>1, <1>t DEF PapeisCertos, Papeis
    <2>6. CASE InserirLink(p)
        <3>1. pedido[p].conta \in Contas /\ UNCHANGED <<ficha, vinculo, aceites, trocas>>
            BY <2>6, <1>t DEF InserirLink, Esta
        <3>2. link' = link \/ \E k \in Links :
                link' = [link EXCEPT ![k] = [dona |-> pedido[p].conta, vale |-> TRUE]]
            BY <2>6 DEF InserirLink
        <3> DEFINE r == [dona |-> pedido[p].conta, vale |-> TRUE]
        <3>3. r \in Papeis /\ r.dona \in Contas
            BY <3>1 DEF Papeis
        <3>4. link' = link \/ \E k \in Links : link' = [link EXCEPT ![k] = r]
            BY <3>2
        <3> HIDE DEF r
        <3> QED BY <1>b, <1>e, <1>t, <3>1, <3>3, <3>4
    <2>7. CASE RevogarTudo(p) \/ ApagarFichas(p)
        BY <2>7, <1>c DEF RevogarTudo, ApagarFichas
    <2>8. CASE ReenviarConvite(p) \/ TrocarSenha(p) \/ Desativar(p)
        BY <1>b, <2>8 DEF ReenviarConvite, TrocarSenha, Desativar
    <2> QED BY <1>2, <2>1, <2>2, <2>3, <2>4, <2>5, <2>6, <2>7, <2>8 DEF Continuacao
<1>3. ASSUME NEW p \in Pedidos, NEW k \in Fichas, LerRenovacao(p, k) PROVE Tese
    BY <1>b, <1>3 DEF LerRenovacao
<1>4. ASSUME NEW p \in Pedidos, NEW k \in Links, ConsumirLink(p, k) PROVE Tese
    <2> DEFINE r == [link[k] EXCEPT !.vale = FALSE]
    <2>1. r \in Papeis /\ r.vale = FALSE
        BY <1>t DEF PapeisCertos, Papeis
    <2>2. /\ link' = [link EXCEPT ![k] = r] /\ trocas' \in [Links -> Nat]
          /\ UNCHANGED <<ficha, vinculo, aceites>>
        BY <1>4, <1>t DEF ConsumirLink, PapeisCertos
    <2> HIDE DEF r
    <2> QED BY <1>e, <2>1, <2>2
<1>5. ASSUME NEW u \in Contas, RevogarSessoes(u) PROVE Tese
    BY <1>c, <1>5 DEF RevogarSessoes
<1>6. ASSUME NEW u \in Contas, Reativar(u) PROVE Tese
    BY <1>b, <1>6 DEF Reativar
<1>7. ASSUME NEW s \in {"ativa", "inativa"}, MudarUnidade(s) PROVE Tese
    <2>1. ficha' = ficha \/ ficha' = [k \in Fichas |-> [ficha[k] EXCEPT !.vale = FALSE]]
        BY <1>7 DEF MudarUnidade
    <2>2. UNCHANGED <<link, vinculo, aceites, trocas>>
        BY <1>7 DEF MudarUnidade
    <2>3. ASSUME ficha' = [k \in Fichas |-> [ficha[k] EXCEPT !.vale = FALSE]] PROVE Tese
        <3>1. \A k \in Fichas : ficha'[k] \in Papeis /\ ficha'[k].vale = FALSE
            BY <2>3, <1>t DEF PapeisCertos, Papeis
        <3>2. ficha' \in [Fichas -> Papeis]
            BY <2>3, <3>1
        <3> QED BY <2>2, <3>1, <3>2, <1>t DEF PapeisCertos
    <2> QED BY <1>b, <2>1, <2>2, <2>3
<1>8. CASE UNCHANGED varsAcesso
    BY <1>b, <1>8 DEF varsAcesso
<1> QED BY <1>1, <1>2, <1>3, <1>4, <1>5, <1>6, <1>7, <1>8 DEF AcessoNext

LEMMA AcessoPasso == AcessoInv /\ [AcessoNext]_varsAcesso => AcessoInv'
<1> SUFFICES ASSUME AcessoInv, [AcessoNext]_varsAcesso PROVE AcessoInv'
    OBVIOUS
<1>1. ContasCertas' /\ PapeisCertos' /\ vinculo' \in [Parceiros -> Contas \cup {NaoHa}]
      /\ aceites' \in [Contas -> Nat] /\ trocas' \in [Links -> Nat]
    BY PassoDasContas, PassoDosPapeis
<1>2. ASSUME NEW q, Valido(q) PROVE Valido(q)'
    <2>1. q.etapa \in {"emitir", "revogar_usada"} => Lida(q.conta, q.versao, q.geracao)'
        <3>1. q.geracao \in Nat
            BY <1>2, LimitesDeAcesso DEF Valido, Pedido
        <3> QED BY <1>2, <3>1, LeituraFica DEF Valido
    <2> QED BY <1>2, <2>1 DEF Valido
<1>3. ASSUME NEW j, JwtValido(j) PROVE JwtValido(j)'
    <2>1. j # SemJwt => Lida(j.conta, j.versao, j.geracao)'
        <3>1. j.geracao \in Nat
            BY <1>3, LimitesDeAcesso DEF JwtValido, Jwt
        <3> QED BY <1>3, <3>1, LeituraFica DEF JwtValido
    <2> QED BY <1>3, <2>1 DEF JwtValido
<1>4. JwtValido(jwt)'
    BY PassoDoJwt, <1>3
<1> QED BY <1>1, <1>2, <1>4, PassoDosPedidos DEF AcessoInv

\* The variables stay in their types; token_version stays within its bound.
THEOREM AcessoTipo == AcessoSpec => []AcessoTypeOK
<1>1. AcessoInit => AcessoInv BY AcessoInicial
<1>2. AcessoInv /\ [AcessoNext]_varsAcesso => AcessoInv' BY AcessoPasso
<1>3. AcessoInv => AcessoTypeOK
    BY DEF AcessoInv, AcessoTypeOK, ContasCertas, PapeisCertos, Papeis, JwtValido
<1> QED BY <1>1, <1>2, <1>3, PTL DEF AcessoSpec

\* While its user exists and the version can be read, a JWT signed before the
\* sessions of its user were ended is refused; one signed after is accepted
\* (plugins/auth.js, _verifyTokenVersion).
THEOREM JwtSempreDaGeracao == AcessoSpec => []JwtDaGeracao
<1>1. AcessoInit => AcessoInv BY AcessoInicial
<1>2. AcessoInv /\ [AcessoNext]_varsAcesso => AcessoInv' BY AcessoPasso
<1>3. AcessoInv => JwtDaGeracao
    <2> SUFFICES ASSUME AcessoInv, jwt # SemJwt, ContaExiste(jwt.conta)
                 PROVE Aceito(jwt, FALSE) <=> jwt.geracao = geracao[jwt.conta]
        BY DEF JwtDaGeracao, Aceito
    <2>1. /\ jwt.conta \in Contas /\ jwt.versao = jwt.geracao + 1
          /\ jwt.geracao <= geracao[jwt.conta]
          /\ conta[jwt.conta].versao = geracao[jwt.conta] + 1
          /\ jwt.geracao \in Int /\ geracao[jwt.conta] \in Int
        BY LimitesDeAcesso DEF AcessoInv, JwtValido, Jwt, Lida, ContasCertas, ContaExiste
    <2> QED BY <2>1 DEF Aceito
<1> QED BY <1>1, <1>2, <1>3, PTL DEF AcessoSpec

----------------------------------------------------------------------------
(* One user per client. *)

\* Outside the two that bind and unbind, a step neither creates a user nor
\* changes the client of one.
LEMMA VinculoPasso ==
    ASSUME AcessoInv, UmUsuarioPorCliente, [AcessoNext]_varsAcesso
    PROVE  UmUsuarioPorCliente'
<1> USE DEF UmUsuarioPorCliente
<1>t. /\ conta \in [Contas -> Conta] /\ vinculo \in [Parceiros -> Contas \cup {NaoHa}]
      /\ \A p \in Pedidos : pedido[p].etapa # "livre" => pedido[p].conta \in Contas
    BY DEF AcessoInv, ContasCertas, Valido
<1>a. ASSUME UNCHANGED vinculo,
             \A u \in Contas : /\ ContaExiste(u)' => ContaExiste(u)
                               /\ conta'[u].cliente = conta[u].cliente
      PROVE UmUsuarioPorCliente'
    BY <1>a
<1>b. ASSUME UNCHANGED <<conta, vinculo>> PROVE UmUsuarioPorCliente'
    BY <1>b DEF ContaExiste
\* One account changes, and neither its client nor whether it exists.
<1>c. ASSUME NEW u \in Contas, NEW c \in Conta, conta' = [conta EXCEPT ![u] = c],
             c.cliente = conta[u].cliente,
             c.situacao \in {"ativa", "inativa"} => ContaExiste(u), UNCHANGED vinculo
      PROVE UmUsuarioPorCliente'
    BY <1>a, <1>c, <1>t DEF ContaExiste
<1>d. ASSUME NEW u \in Contas, EncerrarJwts(u), UNCHANGED vinculo PROVE UmUsuarioPorCliente'
    <2>1. /\ \A v \in Contas : /\ conta'[v].situacao = conta[v].situacao
                               /\ conta'[v].cliente = conta[v].cliente
        BY <1>d, <1>t DEF EncerrarJwts, ComVersaoNova, Conta
    <2> QED BY <1>a, <1>d, <2>1 DEF ContaExiste
<1>1. ASSUME NEW p \in Pedidos, Convidar(p) PROVE UmUsuarioPorCliente'
    <2> DEFINE u == pedido[p].conta
               c == pedido[p].alvo
    <2>1. u \in Contas /\ c \in Parceiros \cup {NaoHa}
        BY <1>1 DEF Convidar, Esta, AcessoInv, Valido
    <2>2. CASE UNCHANGED <<conta, vinculo>>
        BY <1>b, <2>2
    <2>3. CASE /\ conta[u].situacao = "nao_ha" /\ AindaSemUsuario(c)
               /\ \E porEmail \in BOOLEAN :
                    conta' = [conta EXCEPT ![u].situacao = "ativa", ![u].convite = porEmail,
                                           ![u].cliente = c]
               /\ vinculo' = IF c = NaoHa THEN vinculo ELSE [vinculo EXCEPT ![c] = u]
        <3>0. PICK porEmail \in BOOLEAN :
                conta' = [conta EXCEPT ![u].situacao = "ativa", ![u].convite = porEmail,
                                       ![u].cliente = c]
            BY <2>3
        <3> DEFINE nova == [conta[u] EXCEPT !.situacao = "ativa", !.convite = porEmail,
                                            !.cliente = c]
        <3>1. nova.cliente = c /\ conta' = [conta EXCEPT ![u] = nova]
            BY <1>t, <2>1, <3>0 DEF Conta
        <3>2. /\ c # NaoHa => vinculo[c] = NaoHa /\ vinculo' = [vinculo EXCEPT ![c] = u]
              /\ c = NaoHa => vinculo' = vinculo
            BY <2>3 DEF AindaSemUsuario
        <3> HIDE DEF nova, u, c
        <3>3. conta'[u].cliente = c /\ \A v \in Contas \ {u} : conta'[v] = conta[v]
            BY <1>t, <2>1, <3>1
        <3>4. c # NaoHa => vinculo'[c] = u
            BY <1>t, <2>1, <3>2
        <3>5. ASSUME NEW v \in Contas \ {u}, ContaExiste(v), conta[v].cliente # NaoHa
              PROVE  vinculo'[conta[v].cliente] = v
            <4>1. vinculo[conta[v].cliente] = v /\ conta[v].cliente \in Parceiros
                BY <1>t, <3>5 DEF Conta
            <4>2. v # NaoHa /\ (c # NaoHa => conta[v].cliente # c)
                BY <3>2, <4>1, NaoHaNovo
            <4> QED BY <1>t, <3>2, <4>1, <4>2
        <3> QED BY <3>3, <3>4, <3>5 DEF ContaExiste
    <2> QED BY <1>1, <2>2, <2>3 DEF Convidar
<1>2. ASSUME NEW p \in Pedidos, CancelarConvite(p) PROVE UmUsuarioPorCliente'
    <2> DEFINE u == pedido[p].conta
               nova == [ContaNova EXCEPT !.situacao = "removida"]
    <2>1. /\ u \in Contas /\ conta' = [conta EXCEPT ![u] = nova]
          /\ vinculo' = [c \in Parceiros |-> IF vinculo[c] = u THEN NaoHa ELSE vinculo[c]]
        BY <1>2, <1>t DEF CancelarConvite, Esta
    <2>2. nova.situacao = "removida"
        BY DEF ContaNova
    <2> HIDE DEF u, nova
    <2>3. ASSUME NEW v \in Contas, ContaExiste(v)', conta'[v].cliente # NaoHa
          PROVE  vinculo'[conta'[v].cliente] = v
        <3>1. v # u /\ conta'[v] = conta[v]
            BY <1>t, <2>1, <2>2, <2>3 DEF ContaExiste
        <3>2. conta[v].cliente \in Parceiros /\ vinculo[conta[v].cliente] = v
            BY <1>t, <2>3, <3>1 DEF ContaExiste, Conta
        <3> QED BY <2>1, <3>1, <3>2
    <2> QED BY <2>3
<1>3. ASSUME NEW p \in Pedidos, NEW u \in Contas, Inicio(p, u) PROVE UmUsuarioPorCliente'
    <2>1. CASE AceitarConvite(p, u)
        <3>1. \A v \in Contas : /\ conta'[v].situacao = conta[v].situacao
                                /\ conta'[v].cliente = conta[v].cliente
            BY <2>1, <1>t DEF AceitarConvite, Conta
        <3> QED BY <1>a, <2>1, <3>1 DEF AceitarConvite, ContaExiste
    <2>2. CASE ForcarSaida(p, u)
        BY <1>d, <2>2 DEF ForcarSaida
    <2> QED
        BY <1>3, <1>b, <2>1, <2>2
        DEF Inicio, VerificarConvite, LerConvite, LerLogin, PedirLink, IniciarDesativacao
<1>4. ASSUME NEW p \in Pedidos, Continuacao(p) PROVE UmUsuarioPorCliente'
    <2>1. pedido[p].etapa # "livre" => pedido[p].conta \in Contas
        BY <1>t
    <2>2. CASE ReenviarConvite(p)
        <3>1. \A v \in Contas : /\ conta'[v].situacao = conta[v].situacao
                                /\ conta'[v].cliente = conta[v].cliente
            BY <2>2, <1>t DEF ReenviarConvite, Conta
        <3> QED BY <1>a, <2>2, <3>1 DEF ReenviarConvite, ContaExiste
    <2>3. CASE Desativar(p)
        <3> DEFINE u == pedido[p].conta
                   nova == [conta[u] EXCEPT !.situacao = "inativa"]
        <3>1. u \in Contas /\ UNCHANGED vinculo
            BY <2>1, <2>3 DEF Desativar, Esta
        <3>2. nova \in Conta /\ nova.cliente = conta[u].cliente
            BY <3>1, <1>t DEF Conta
        <3>3. conta' = conta \/ (ContaExiste(u) /\ conta' = [conta EXCEPT ![u] = nova])
            BY <2>3, <3>1, <1>t DEF Desativar
        <3> HIDE DEF nova, u
        <3> QED BY <1>b, <1>c, <3>1, <3>2, <3>3
    <2>4. CASE TrocarSenha(p)
        <3> DEFINE u == pedido[p].conta
        <3>1. u \in Contas /\ UNCHANGED vinculo /\ (EncerrarJwts(u) \/ UNCHANGED conta)
            BY <2>1, <2>4 DEF TrocarSenha, Esta
        <3> HIDE DEF u
        <3> QED BY <1>b, <1>d, <3>1
    <2> QED
        BY <1>1, <1>2, <1>4, <1>b, <2>2, <2>3, <2>4
        DEF Continuacao, ApagarFichas, RevogarUsada, Emitir, InvalidarLinks, InserirLink,
            RevogarTudo
<1>5. ASSUME NEW u \in Contas, Reativar(u) PROVE UmUsuarioPorCliente'
    <2> DEFINE nova == [conta[u] EXCEPT !.situacao = "ativa"]
    <2>1. nova \in Conta /\ nova.cliente = conta[u].cliente
        BY <1>t DEF Conta
    <2>2. ContaExiste(u) /\ conta' = [conta EXCEPT ![u] = nova] /\ UNCHANGED vinculo
        BY <1>5, <1>t DEF Reativar, ContaExiste
    <2> HIDE DEF nova
    <2> QED BY <1>c, <2>1, <2>2
<1>6. ASSUME NEW s \in {"ativa", "inativa"}, MudarUnidade(s) PROVE UmUsuarioPorCliente'
    <2>1. /\ \A u \in Contas : conta'[u] = IF ContaExiste(u) THEN [conta[u] EXCEPT !.situacao = s]
                                                             ELSE conta[u]
          /\ UNCHANGED vinculo
        BY <1>6 DEF MudarUnidade
    <2>2. \A u \in Contas : /\ ContaExiste(u)' => ContaExiste(u)
                            /\ conta'[u].cliente = conta[u].cliente
        BY <2>1, <1>t DEF ContaExiste, Conta
    <2> QED BY <1>a, <2>1, <2>2
<1>7. ASSUME NEW u \in Contas, RevogarSessoes(u) PROVE UmUsuarioPorCliente'
    BY <1>b, <1>7 DEF RevogarSessoes
<1>8. ASSUME NEW p \in Pedidos,
             (\E k \in Fichas : LerRenovacao(p, k)) \/ (\E k \in Links : ConsumirLink(p, k))
      PROVE UmUsuarioPorCliente'
    BY <1>b, <1>8 DEF LerRenovacao, ConsumirLink
<1>9. CASE UNCHANGED varsAcesso
    BY <1>b, <1>9 DEF varsAcesso
<1> QED BY <1>3, <1>4, <1>5, <1>6, <1>7, <1>8, <1>9 DEF AcessoNext

\* The client an invitation names is bound to that user and to no other
\* (usuarios.js, convidar: AND user_id IS NULL).
THEOREM ClienteSempreDeUmUsuario == AcessoSpec => []UmUsuarioPorCliente
<1>1. AcessoInit => AcessoInv /\ UmUsuarioPorCliente
    BY AcessoInicial DEF AcessoInit, UmUsuarioPorCliente, ContaExiste, ContaNova
<1>2. AcessoInv /\ UmUsuarioPorCliente /\ [AcessoNext]_varsAcesso
        => AcessoInv' /\ UmUsuarioPorCliente'
    BY AcessoPasso, VinculoPasso
<1> QED BY <1>1, <1>2, PTL DEF AcessoSpec

----------------------------------------------------------------------------
(* Credentials used once. *)

\* An account keeps the mark of the invitation it accepted, and a link that
\* changed a password is spent and stays its owner's.
CredenciaisInv ==
    /\ \A u \in Contas : /\ aceites[u] <= 1
                         /\ aceites[u] = 1 => conta[u].aceito \/ conta[u].situacao = "removida"
    /\ \A k \in Links : /\ trocas[k] <= 1
                        /\ trocas[k] = 1 => ~link[k].vale /\ link[k].dona \in Contas

\* Outside aceitar-convite and cancelling, no route changes the mark.
LEMMA PassoDosAceites ==
    ASSUME AcessoInv, [AcessoNext]_varsAcesso, NEW u \in Contas
    PROVE  \/ /\ aceites'[u] = aceites[u]
              /\ conta'[u].aceito = conta[u].aceito \/ conta'[u].situacao = "removida"
           \/ /\ aceites'[u] = aceites[u] + 1 /\ conta'[u].aceito
              /\ ~conta[u].aceito /\ conta[u].situacao # "removida"
<1> DEFINE Tese == \/ /\ aceites'[u] = aceites[u]
                      /\ conta'[u].aceito = conta[u].aceito \/ conta'[u].situacao = "removida"
                   \/ /\ aceites'[u] = aceites[u] + 1 /\ conta'[u].aceito
                      /\ ~conta[u].aceito /\ conta[u].situacao # "removida"
<1> SUFFICES Tese
    OBVIOUS
<1>t. /\ conta \in [Contas -> Conta] /\ aceites \in [Contas -> Nat]
      /\ \A p \in Pedidos : pedido[p].etapa # "livre" => pedido[p].conta \in Contas
    BY DEF AcessoInv, ContasCertas, Valido
<1>a. ASSUME UNCHANGED aceites, conta'[u].aceito = conta[u].aceito PROVE Tese
    BY <1>a
<1>b. ASSUME UNCHANGED <<conta, aceites>> PROVE Tese
    BY <1>b
<1>c. ASSUME NEW v \in Contas, EncerrarJwts(v), UNCHANGED aceites PROVE Tese
    <2>1. conta'[u].aceito = conta[u].aceito
        BY <1>c, <1>t DEF EncerrarJwts, ComVersaoNova, Conta
    <2> QED BY <1>a, <1>c, <2>1
<1>1. ASSUME NEW p \in Pedidos, NEW v \in Contas, Inicio(p, v) PROVE Tese
    <2>1. CASE AceitarConvite(p, v)
        <3>1. CASE u = v
            BY <1>t, <2>1, <3>1 DEF AceitarConvite, Aceitavel, Ativa, Conta
        <3>2. CASE u # v
            BY <1>t, <2>1, <3>2 DEF AceitarConvite
        <3> QED BY <3>1, <3>2
    <2>2. CASE ForcarSaida(p, v)
        BY <1>c, <2>2 DEF ForcarSaida
    <2> QED
        BY <1>1, <1>b, <2>1, <2>2
        DEF Inicio, VerificarConvite, LerConvite, LerLogin, PedirLink, IniciarDesativacao
<1>2. ASSUME NEW p \in Pedidos, Continuacao(p) PROVE Tese
    <2>1. CASE Convidar(p) \/ ReenviarConvite(p) \/ Desativar(p)
        <3> DEFINE v == pedido[p].conta
                   comConvite(b) == [conta EXCEPT ![v].situacao = "ativa", ![v].convite = b,
                                                  ![v].cliente = pedido[p].alvo]
        <3>1. ASSUME ReenviarConvite(p) \/ Desativar(p) \/ UNCHANGED conta
              PROVE  conta'[u].aceito = conta[u].aceito
            BY <3>1, <1>t DEF ReenviarConvite, Desativar, Conta
        <3>2. ASSUME \E b \in BOOLEAN : conta' = comConvite(b)
              PROVE  conta'[u].aceito = conta[u].aceito
            <4>1. PICK b \in BOOLEAN : conta' = comConvite(b) BY <3>2
            <4> QED BY <1>t, <4>1 DEF Conta
        <3>3. conta'[u].aceito = conta[u].aceito
            BY <2>1, <3>1, <3>2 DEF Convidar
        <3> QED BY <1>a, <2>1, <3>3 DEF Convidar, ReenviarConvite, Desativar
    <2>2. CASE CancelarConvite(p)
        <3> DEFINE v == pedido[p].conta
                   nova == [ContaNova EXCEPT !.situacao = "removida"]
        <3>1. conta' = [conta EXCEPT ![v] = nova] /\ UNCHANGED aceites
            BY <2>2 DEF CancelarConvite
        <3>2. nova.situacao = "removida"
            BY DEF ContaNova
        <3> HIDE DEF v, nova
        <3>3. conta'[u] = conta[u] \/ conta'[u] = nova
            BY <1>t, <3>1
        <3> QED BY <3>1, <3>2, <3>3
    <2>3. CASE TrocarSenha(p)
        <3> DEFINE v == pedido[p].conta
        <3>1. v \in Contas /\ UNCHANGED aceites /\ (EncerrarJwts(v) \/ UNCHANGED conta)
            BY <1>t, <2>3 DEF TrocarSenha, Esta
        <3> HIDE DEF v
        <3> QED BY <1>b, <1>c, <3>1
    <2> QED
        BY <1>2, <1>b, <2>1, <2>2, <2>3
        DEF Continuacao, ApagarFichas, RevogarUsada, Emitir, InvalidarLinks, InserirLink,
            RevogarTudo
<1>3. ASSUME NEW v \in Contas, RevogarSessoes(v) \/ Reativar(v) PROVE Tese
    <2>1. conta'[u].aceito = conta[u].aceito
        BY <1>3, <1>t DEF RevogarSessoes, Reativar, Conta
    <2> QED BY <1>a, <1>3, <2>1 DEF RevogarSessoes, Reativar
<1>4. ASSUME NEW s \in {"ativa", "inativa"}, MudarUnidade(s) PROVE Tese
    <2>1. conta'[u] = IF ContaExiste(u) THEN [conta[u] EXCEPT !.situacao = s] ELSE conta[u]
        BY <1>4 DEF MudarUnidade
    <2>2. conta'[u].aceito = conta[u].aceito
        BY <1>t, <2>1 DEF Conta
    <2> QED BY <1>a, <1>4, <2>2 DEF MudarUnidade
<1>5. ASSUME NEW p \in Pedidos,
             (\E k \in Fichas : LerRenovacao(p, k)) \/ (\E k \in Links : ConsumirLink(p, k))
      PROVE Tese
    BY <1>b, <1>5 DEF LerRenovacao, ConsumirLink
<1>6. CASE UNCHANGED varsAcesso
    BY <1>b, <1>6 DEF varsAcesso
<1> QED BY <1>1, <1>2, <1>3, <1>4, <1>5, <1>6 DEF AcessoNext

\* A spent link stays spent: what a step may do to link k.
LEMMA PassoDosLinks ==
    ASSUME AcessoInv, [AcessoNext]_varsAcesso, NEW k \in Links
    PROVE  \/ /\ trocas'[k] = trocas[k]
              /\ link[k].dona \in Contas => /\ link'[k].vale => link[k].vale
                                            /\ link'[k].dona = link[k].dona
           \/ /\ trocas'[k] = trocas[k] + 1 /\ link[k].vale /\ ~link'[k].vale
              /\ link'[k].dona \in Contas
<1> DEFINE Tese == \/ /\ trocas'[k] = trocas[k]
                      /\ link[k].dona \in Contas => /\ link'[k].vale => link[k].vale
                                                    /\ link'[k].dona = link[k].dona
                   \/ /\ trocas'[k] = trocas[k] + 1 /\ link[k].vale /\ ~link'[k].vale
                      /\ link'[k].dona \in Contas
<1> SUFFICES Tese
    OBVIOUS
<1>t. /\ PapeisCertos /\ trocas \in [Links -> Nat]
      /\ \A p \in Pedidos : pedido[p].etapa # "livre" => pedido[p].conta \in Contas
    BY DEF AcessoInv, Valido
<1>a. ASSUME UNCHANGED <<link, trocas>> PROVE Tese
    BY <1>a
<1>b. ASSUME NEW u, UNCHANGED trocas,
             link' = [j \in Links |-> [link[j] EXCEPT !.vale = @ /\ link[j].dona # u]]
      PROVE Tese
    BY <1>b, <1>t DEF PapeisCertos, Papeis
<1>1. ASSUME NEW p \in Pedidos, NEW u \in Contas, Inicio(p, u) PROVE Tese
    BY <1>1, <1>a
    DEF Inicio, VerificarConvite, AceitarConvite, LerConvite, LerLogin, PedirLink, ForcarSaida,
        IniciarDesativacao
<1>2. ASSUME NEW p \in Pedidos, Continuacao(p) PROVE Tese
    <2>1. CASE CancelarConvite(p)
        BY <1>b, <2>1 DEF CancelarConvite
    <2>2. CASE InvalidarLinks(p)
        BY <1>b, <2>2 DEF InvalidarLinks
    <2>3. CASE InserirLink(p)
        <3>1. UNCHANGED trocas
            BY <2>3 DEF InserirLink
        <3>2. \/ link' = link
              \/ \E j \in Links : /\ link[j].dona = NaoHa
                                   /\ link' = [link EXCEPT ![j] = [dona |-> pedido[p].conta, vale |-> TRUE]]
            BY <2>3 DEF InserirLink
        <3>3. link[k].dona \in Contas => link'[k] = link[k]
            BY <1>t, <3>2, NaoHaNovo DEF PapeisCertos
        <3> QED BY <3>1, <3>3
    <2> QED
        BY <1>2, <1>a, <2>1, <2>2, <2>3
        DEF Continuacao, Convidar, ReenviarConvite, ApagarFichas, RevogarUsada, Emitir, TrocarSenha,
            RevogarTudo,
            Desativar
<1>3. ASSUME NEW p \in Pedidos, NEW j \in Links, ConsumirLink(p, j) PROVE Tese
    <2>1. /\ link[j].vale /\ link[j].dona \in Contas
          /\ link' = [link EXCEPT ![j].vale = FALSE] /\ trocas' = [trocas EXCEPT ![j] = @ + 1]
        BY <1>3, <1>t DEF ConsumirLink, PapeisCertos
    <2>2. CASE j = k
        <3>1. ~link'[k].vale /\ link'[k].dona = link[k].dona
            BY <2>1, <2>2, <1>t DEF PapeisCertos, Papeis
        <3> QED BY <2>1, <2>2, <3>1, <1>t
    <2>3. CASE j # k
        BY <2>1, <2>3, <1>t DEF PapeisCertos
    <2> QED BY <2>2, <2>3
<1>4. ASSUME NEW u \in Contas, RevogarSessoes(u) \/ Reativar(u) PROVE Tese
    BY <1>a, <1>4 DEF RevogarSessoes, Reativar
<1>5. ASSUME NEW s \in {"ativa", "inativa"}, MudarUnidade(s) PROVE Tese
    BY <1>a, <1>5 DEF MudarUnidade
<1>6. ASSUME NEW p \in Pedidos, NEW j \in Fichas, LerRenovacao(p, j) PROVE Tese
    BY <1>a, <1>6 DEF LerRenovacao
<1>7. CASE UNCHANGED varsAcesso
    BY <1>a, <1>7 DEF varsAcesso
<1> QED BY <1>1, <1>2, <1>3, <1>4, <1>5, <1>6, <1>7 DEF AcessoNext

LEMMA CredenciaisPasso ==
    ASSUME AcessoInv, CredenciaisInv, [AcessoNext]_varsAcesso
    PROVE  CredenciaisInv'
<1>t. aceites \in [Contas -> Nat] /\ trocas \in [Links -> Nat]
    BY DEF AcessoInv
<1>1. ASSUME NEW u \in Contas
      PROVE  /\ aceites'[u] <= 1
             /\ aceites'[u] = 1 => conta'[u].aceito \/ conta'[u].situacao = "removida"
    BY <1>t, PassoDosAceites, PassoDasContas DEF CredenciaisInv
<1>2. ASSUME NEW k \in Links
      PROVE  /\ trocas'[k] <= 1
             /\ trocas'[k] = 1 => ~link'[k].vale /\ link'[k].dona \in Contas
    BY <1>t, PassoDosLinks DEF CredenciaisInv
<1> QED BY <1>1, <1>2 DEF CredenciaisInv

\* An invitation is accepted once and a link changes a password once
\* (auth.js, the UPDATE ... RETURNING of aceitar-convite and redefinir-senha).
THEOREM CredencialSempreUmaVez == AcessoSpec => []CredencialUmaVez
<1>1. AcessoInit => AcessoInv /\ CredenciaisInv
    BY AcessoInicial DEF AcessoInit, CredenciaisInv
<1>2. AcessoInv /\ CredenciaisInv /\ [AcessoNext]_varsAcesso => AcessoInv' /\ CredenciaisInv'
    BY AcessoPasso, CredenciaisPasso
<1>3. CredenciaisInv => CredencialUmaVez
    BY DEF CredenciaisInv, CredencialUmaVez
<1> QED BY <1>1, <1>2, <1>3, PTL DEF AcessoSpec
=============================================================================
