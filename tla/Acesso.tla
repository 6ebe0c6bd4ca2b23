------------------------------- MODULE Acesso -------------------------------
(***************************************************************************)
(* Users and their sessions: invitations, sign-in, renewal, password       *)
(* links, forced sign-out, deactivation and removal, of a user or of all   *)
(* those of a unit.                                                        *)
(*                                                                         *)
(* Almost every route is several queries outside a transaction, so a       *)
(* request is a record of what it read, and other requests come between.   *)
(* Passwords are left out: who signs in knows his.  So is the expiry of    *)
(* invitations, links and tokens: an expired one is one nobody uses again. *)
(***************************************************************************)
EXTENDS Integers, FiniteSets

CONSTANTS
    Contas,       \* users, that is, e-mails of the tenant
    Parceiros,    \* clients a user of papel cliente_parceiro is bound to
    Fichas,       \* bound: refresh tokens at the same time
    Links,        \* password links
    Pedidos,      \* bound: requests in progress
    MaxVersao,    \* bound: token_version of each account
    LinksPorHora, \* links a user may ask for in an hour (3 in the code)
    NaoHa         \* no user, no client, no token

ASSUME LimitesDeAcesso == MaxVersao \in Nat \ {0} /\ LinksPorHora \in Nat
ASSUME NaoHaNovo == NaoHa \notin Contas \cup Parceiros \cup Fichas

VARIABLES
    conta,      \* rows of users
    vinculo,    \* clientes.user_id
    ficha,      \* rows of refresh_tokens
    jwt,        \* some access token signed so far: any of them
    link,       \* rows of password_reset_tokens of the last hour
    pedido,     \* requests between two of their queries
    geracao,    \* auxiliary: times the sessions of each account were ended
    aceites,    \* auxiliary: invitations accepted
    trocas      \* auxiliary: passwords changed with each link

varsAcesso == <<conta, vinculo, ficha, jwt, link, pedido, geracao, aceites, trocas>>

Versoes == 1..MaxVersao
Conta == [situacao: {"nao_ha", "ativa", "inativa", "removida"},
          aceito: BOOLEAN,                  \* primeiro_acesso
          convite: BOOLEAN,                 \* invite_token_hash
          cliente: Parceiros \cup {NaoHa},  \* auxiliary: that of the invitation
          versao: Versoes]                  \* token_version
Jwt == [conta: Contas \cup {NaoHa}, versao: Versoes, geracao: 0..MaxVersao]
Etapas == {"livre", "convidar", "emitir", "revogar_usada", "invalidar", "inserir",
           "trocar", "revogar", "desativar", "reenviar", "cancelar", "remover"}
Pedido == [etapa: Etapas, conta: Contas \cup {NaoHa}, versao: Versoes, geracao: 0..MaxVersao,
           alvo: Fichas \cup Parceiros \cup {NaoHa}]

ContaNova == [situacao |-> "nao_ha", aceito |-> FALSE, convite |-> FALSE,
              cliente |-> NaoHa, versao |-> 1]
SemJwt == [conta |-> NaoHa, versao |-> 1, geracao |-> 0]
PedidoLivre == [etapa |-> "livre", conta |-> NaoHa, versao |-> 1, geracao |-> 0, alvo |-> NaoHa]

AcessoInit ==
    /\ conta = [u \in Contas |-> ContaNova]
    /\ vinculo = [c \in Parceiros |-> NaoHa]
    /\ ficha = [k \in Fichas |-> [dona |-> NaoHa, vale |-> FALSE]]
    /\ jwt = SemJwt
    /\ link = [k \in Links |-> [dona |-> NaoHa, vale |-> FALSE]]
    /\ pedido = [p \in Pedidos |-> PedidoLivre]
    /\ geracao = [u \in Contas |-> 0]
    /\ aceites = [u \in Contas |-> 0]
    /\ trocas = [k \in Links |-> 0]

ContaExiste(u) == conta[u].situacao \in {"ativa", "inativa"}
Ativa(u) == conta[u].situacao = "ativa"

\* A request about account u begins and waits at etapa e; those that will
\* sign a JWT have read the version.
Abrir(p, e, u, x) ==
    /\ pedido[p] = PedidoLivre
    /\ pedido' = [pedido EXCEPT ![p] =
            [PedidoLivre EXCEPT !.etapa = e, !.conta = u, !.alvo = x]]
AbrirSessao(p, e, u, x) ==
    /\ pedido[p] = PedidoLivre
    /\ pedido' = [pedido EXCEPT ![p] =
            [etapa |-> e, conta |-> u, versao |-> conta[u].versao,
             geracao |-> geracao[u], alvo |-> x]]
Esta(p, e) == pedido[p].etapa = e
Seguir(p, e) == pedido' = [pedido EXCEPT ![p].etapa = e]
Fechar(p) == pedido' = [pedido EXCEPT ![p] = PedidoLivre]

\* UPDATE refresh_tokens SET revogado = true (or DELETE) WHERE user_id = u.
Revogadas(u) == [k \in Fichas |-> [ficha[k] EXCEPT !.vale = @ /\ ficha[k].dona # u]]

----------------------------------------------------------------------------
(* Invitations. *)

\* convidar: the e-mail is new and the client, if any, has no user.
VerificarConvite(p, u, c) ==
    /\ conta[u].situacao = "nao_ha"
    /\ c # NaoHa => vinculo[c] = NaoHa
    /\ Abrir(p, "convidar", u, c)
    /\ UNCHANGED <<conta, vinculo, ficha, jwt, link, geracao, aceites, trocas>>

\* Mutant of AindaSemUsuario: the UPDATE forgets AND user_id IS NULL.
AindaSemUsuarioSempre(c) == TRUE
AindaSemUsuario(c) == c = NaoHa \/ vinculo[c] = NaoHa

\* INSERT, UPDATE of the client if it still has no user, and COMMIT;
\* otherwise, or when the e-mail was taken meanwhile, ROLLBACK.  Without a
\* mailer, or with a password given, there is no token: the account is used
\* at once, and never counts as accepted.
Convidar(p) ==
    LET u == pedido[p].conta
        c == pedido[p].alvo
    IN  /\ Esta(p, "convidar")
        /\ IF conta[u].situacao = "nao_ha" /\ AindaSemUsuario(c)
             THEN /\ \E porEmail \in BOOLEAN :
                        conta' = [conta EXCEPT ![u].situacao = "ativa", ![u].convite = porEmail,
                                               ![u].cliente = c]
                  /\ vinculo' = IF c = NaoHa THEN vinculo ELSE [vinculo EXCEPT ![c] = u]
             ELSE UNCHANGED <<conta, vinculo>>
        /\ Fechar(p)
        /\ UNCHANGED <<ficha, jwt, link, geracao, aceites, trocas>>

\* Mutant of Aceitavel: primeiro_acesso is not looked at.
AceitavelDeNovo(u) == Ativa(u) /\ conta[u].convite
Aceitavel(u) == Ativa(u) /\ conta[u].convite /\ ~conta[u].aceito

\* aceitar-convite: one UPDATE ... RETURNING, then sign-in.
AceitarConvite(p, u) ==
    /\ Aceitavel(u)
    /\ conta' = [conta EXCEPT ![u].aceito = TRUE, ![u].convite = FALSE]
    /\ AbrirSessao(p, "emitir", u, NaoHa)
    /\ aceites' = [aceites EXCEPT ![u] = @ + 1]
    /\ UNCHANGED <<vinculo, ficha, jwt, link, geracao, trocas>>

\* reenviar-convite, reenviar-bulk and DELETE /convites: a user who has not
\* accepted.
LerConvite(p, u, e) ==
    /\ e \in {"reenviar", "cancelar"}
    /\ ContaExiste(u) /\ ~conta[u].aceito
    /\ Abrir(p, e, u, NaoHa)
    /\ UNCHANGED <<conta, vinculo, ficha, jwt, link, geracao, aceites, trocas>>

\* The UPDATE does not look at primeiro_acesso again.
ReenviarConvite(p) ==
    LET u == pedido[p].conta
    IN  /\ Esta(p, "reenviar")
        /\ conta' = IF ContaExiste(u) THEN [conta EXCEPT ![u].convite = TRUE] ELSE conta
        /\ Fechar(p)
        /\ UNCHANGED <<vinculo, ficha, jwt, link, geracao, aceites, trocas>>

\* Nor do the DELETE of the refresh tokens ...
ApagarFichas(p) ==
    /\ Esta(p, "cancelar")
    /\ ficha' = Revogadas(pedido[p].conta)
    /\ Seguir(p, "remover")
    /\ UNCHANGED <<conta, vinculo, jwt, link, geracao, aceites, trocas>>

\* ... and that of the user: the tokens made meanwhile and the links go with
\* it, and its client is free again.
CancelarConvite(p) ==
    LET u == pedido[p].conta
    IN  /\ Esta(p, "remover")
        /\ conta' = [conta EXCEPT ![u] = [ContaNova EXCEPT !.situacao = "removida"]]
        /\ vinculo' = [c \in Parceiros |-> IF vinculo[c] = u THEN NaoHa ELSE vinculo[c]]
        /\ ficha' = Revogadas(u)
        /\ link' = [k \in Links |-> [link[k] EXCEPT !.vale = @ /\ link[k].dona # u]]
        /\ Fechar(p)
        /\ UNCHANGED <<jwt, geracao, aceites, trocas>>

----------------------------------------------------------------------------
(* Sessions. *)

\* _verifyTokenVersion: a token passes when the query of the version fails, and
\* when its user has no row.
Aceito(j, falhou) ==
    falhou \/ ~ContaExiste(j.conta) \/ j.versao >= conta[j.conta].versao

LerLogin(p, u) ==
    /\ Ativa(u)
    /\ AbrirSessao(p, "emitir", u, NaoHa)
    /\ UNCHANGED <<conta, vinculo, ficha, jwt, link, geracao, aceites, trocas>>

\* refresh: the token and its user in one query, ...
LerRenovacao(p, k) ==
    /\ ficha[k].vale
    /\ Ativa(ficha[k].dona)
    /\ AbrirSessao(p, "revogar_usada", ficha[k].dona, k)
    /\ UNCHANGED <<conta, vinculo, ficha, jwt, link, geracao, aceites, trocas>>

\* ... its revocation in another, ...
RevogarUsada(p) ==
    /\ Esta(p, "revogar_usada")
    /\ ficha' = [ficha EXCEPT ![pedido[p].alvo].vale = FALSE]
    /\ Seguir(p, "emitir")
    /\ UNCHANGED <<conta, vinculo, jwt, link, geracao, aceites, trocas>>

\* A revoked token nobody is renewing counts as one not yet made.
FichaLivre(k) == ~ficha[k].vale /\ ~\E p \in Pedidos : Esta(p, "revogar_usada") /\ pedido[p].alvo = k

\* ... and, as in login and aceitar-convite, a JWT with the version read and
\* a refresh token; its INSERT fails when the user was removed.
Emitir(p) ==
    LET q == pedido[p]
    IN  /\ Esta(p, "emitir")
        /\ IF ContaExiste(q.conta)
             THEN /\ jwt' \in {jwt, [conta |-> q.conta, versao |-> q.versao,
                                     geracao |-> q.geracao]}
                  /\ \E k \in Fichas :
                        /\ FichaLivre(k)
                        /\ ficha' = [ficha EXCEPT ![k] = [dona |-> q.conta, vale |-> TRUE]]
             ELSE UNCHANGED <<jwt, ficha>>
        /\ Fechar(p)
        /\ UNCHANGED <<conta, vinculo, link, geracao, aceites, trocas>>

\* logout and senha of a user whose JWT is accepted, and reset-senha of
\* another: refresh tokens end, JWTs do not.
RevogarSessoes(u) ==
    /\ ContaExiste(u)
    /\ ficha' = Revogadas(u)
    /\ UNCHANGED <<conta, vinculo, jwt, link, pedido, geracao, aceites, trocas>>

----------------------------------------------------------------------------
(* Password links and forced sign-out. *)

DaUltimaHora(u) == {k \in Links : link[k].dona = u}

\* esqueci-senha: the limit by user, ...
PedirLink(p, u) ==
    /\ Ativa(u)
    /\ Cardinality(DaUltimaHora(u)) < LinksPorHora
    /\ Abrir(p, "invalidar", u, NaoHa)
    /\ UNCHANGED <<conta, vinculo, ficha, jwt, link, geracao, aceites, trocas>>

\* ... the end of the earlier links, ...
InvalidarLinks(p) ==
    /\ Esta(p, "invalidar")
    /\ link' = [k \in Links |-> [link[k] EXCEPT !.vale = @ /\ link[k].dona # pedido[p].conta]]
    /\ Seguir(p, "inserir")
    /\ UNCHANGED <<conta, vinculo, ficha, jwt, geracao, aceites, trocas>>

\* ... and a new one, unless the user was removed.
InserirLink(p) ==
    /\ Esta(p, "inserir")
    /\ IF ContaExiste(pedido[p].conta)
         THEN \E k \in Links :
                /\ link[k].dona = NaoHa
                /\ link' = [link EXCEPT ![k] = [dona |-> pedido[p].conta, vale |-> TRUE]]
         ELSE UNCHANGED link
    /\ Fechar(p)
    /\ UNCHANGED <<conta, vinculo, ficha, jwt, geracao, aceites, trocas>>

\* redefinir-senha: the link is used up in one UPDATE ... RETURNING, ...
ConsumirLink(p, k) ==
    /\ link[k].vale
    /\ link' = [link EXCEPT ![k].vale = FALSE]
    /\ trocas' = [trocas EXCEPT ![k] = @ + 1]
    /\ Abrir(p, "trocar", link[k].dona, NaoHa)
    /\ UNCHANGED <<conta, vinculo, ficha, jwt, geracao, aceites>>

\* Mutant of ComVersaoNova: the password changes, the version does not.
ComVersaoVelha(u) == conta
\* Another: it is reset.
ComVersaoZerada(u) == [conta EXCEPT ![u].versao = 0]
ComVersaoNova(u) == [conta EXCEPT ![u].versao = @ + 1]

EncerrarJwts(u) ==
    /\ conta[u].versao < MaxVersao
    /\ conta' = ComVersaoNova(u)
    /\ geracao' = [geracao EXCEPT ![u] = @ + 1]

\* ... then the password and the version of an active user, ...
TrocarSenha(p) ==
    /\ Esta(p, "trocar")
    /\ IF Ativa(pedido[p].conta) THEN EncerrarJwts(pedido[p].conta)
                                 ELSE UNCHANGED <<conta, geracao>>
    /\ Seguir(p, "revogar")
    /\ UNCHANGED <<vinculo, ficha, jwt, link, aceites, trocas>>

\* ... and the refresh tokens.
RevogarTudo(p) ==
    /\ Esta(p, "revogar")
    /\ ficha' = Revogadas(pedido[p].conta)
    /\ Fechar(p)
    /\ UNCHANGED <<conta, vinculo, jwt, link, geracao, aceites, trocas>>

\* force-logout; the refresh tokens follow.
ForcarSaida(p, u) ==
    /\ ContaExiste(u)
    /\ EncerrarJwts(u)
    /\ Abrir(p, "revogar", u, NaoHa)
    /\ UNCHANGED <<vinculo, ficha, jwt, link, aceites, trocas>>

\* PATCH with ativo = false and DELETE: the refresh tokens go first.
IniciarDesativacao(p, u) ==
    /\ ContaExiste(u)
    /\ ficha' = Revogadas(u)
    /\ Abrir(p, "desativar", u, NaoHa)
    /\ UNCHANGED <<conta, vinculo, jwt, link, geracao, aceites, trocas>>

Desativar(p) ==
    LET u == pedido[p].conta
    IN  /\ Esta(p, "desativar")
        /\ conta' = IF ContaExiste(u) THEN [conta EXCEPT ![u].situacao = "inativa"] ELSE conta
        /\ Fechar(p)
        /\ UNCHANGED <<vinculo, ficha, jwt, link, geracao, aceites, trocas>>

Reativar(u) ==
    /\ conta[u].situacao = "inativa"
    /\ conta' = [conta EXCEPT ![u].situacao = "ativa"]
    /\ UNCHANGED <<vinculo, ficha, jwt, link, pedido, geracao, aceites, trocas>>

\* PATCH of the tenant's status, one transaction: every user takes it, whatever
\* he was before, and the refresh tokens go when it is inactive.
MudarUnidade(situacao) ==
    LET quem == {u \in Contas : ContaExiste(u)}
    IN  /\ conta' = [u \in Contas |-> IF u \in quem THEN [conta[u] EXCEPT !.situacao = situacao]
                                                    ELSE conta[u]]
        /\ ficha' = IF situacao = "ativa" THEN ficha
                    ELSE [k \in Fichas |-> [ficha[k] EXCEPT !.vale = FALSE]]
        /\ UNCHANGED <<vinculo, jwt, link, pedido, geracao, aceites, trocas>>

----------------------------------------------------------------------------
Inicio(p, u) ==
    \/ \E c \in Parceiros \cup {NaoHa} : VerificarConvite(p, u, c)
    \/ AceitarConvite(p, u)
    \/ \E e \in {"reenviar", "cancelar"} : LerConvite(p, u, e)
    \/ LerLogin(p, u) \/ PedirLink(p, u) \/ ForcarSaida(p, u) \/ IniciarDesativacao(p, u)

Continuacao(p) ==
    \/ Convidar(p) \/ ReenviarConvite(p) \/ ApagarFichas(p) \/ CancelarConvite(p)
    \/ RevogarUsada(p) \/ Emitir(p)
    \/ InvalidarLinks(p) \/ InserirLink(p)
    \/ TrocarSenha(p) \/ RevogarTudo(p) \/ Desativar(p)

AcessoNext ==
    \/ \E p \in Pedidos :
        \/ \E u \in Contas : Inicio(p, u)
        \/ \E k \in Fichas : LerRenovacao(p, k)
        \/ \E k \in Links : ConsumirLink(p, k)
        \/ Continuacao(p)
    \/ \E u \in Contas : RevogarSessoes(u) \/ Reativar(u)
    \/ \E s \in {"ativa", "inativa"} : MudarUnidade(s)

AcessoSpec == AcessoInit /\ [][AcessoNext]_varsAcesso

----------------------------------------------------------------------------
AcessoTypeOK ==
    /\ conta \in [Contas -> Conta]
    /\ vinculo \in [Parceiros -> Contas \cup {NaoHa}]
    /\ ficha \in [Fichas -> [dona: Contas \cup {NaoHa}, vale: BOOLEAN]]
    /\ jwt \in Jwt
    /\ link \in [Links -> [dona: Contas \cup {NaoHa}, vale: BOOLEAN]]
    /\ pedido \in [Pedidos -> Pedido]
    /\ geracao \in [Contas -> 0..MaxVersao]
    /\ aceites \in [Contas -> Nat] /\ trocas \in [Links -> Nat]

\* What is for one use is used once: an invitation is accepted once, although a
\* resend that had looked at the user before may put a new one on an account
\* already in use, and two requests with the same link change the password
\* once.
CredencialUmaVez ==
    (\A u \in Contas : aceites[u] <= 1) /\ (\A k \in Links : trocas[k] <= 1)

\* Of two invitations for the same client one is undone: the client of a
\* user is bound to that user and to nobody else.
UmUsuarioPorCliente ==
    \A u \in Contas : ContaExiste(u) /\ conta[u].cliente # NaoHa
                          => vinculo[conta[u].cliente] = u

\* While its user exists and the version can be read, a JWT is accepted only
\* when no password link and no forced sign-out ended the sessions of the user
\* after the request that signed it read him: one signed late with an old
\* version is refused.  One signed after the last such end is always accepted:
\* nobody who signs in or renews then is turned away.
JwtDaGeracao ==
    jwt # SemJwt =>
        /\ ContaExiste(jwt.conta) /\ Aceito(jwt, FALSE) => jwt.geracao = geracao[jwt.conta]
        /\ jwt.geracao = geracao[jwt.conta] => \A falhou \in BOOLEAN : Aceito(jwt, falhou)
=============================================================================
