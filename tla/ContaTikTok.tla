---------------------------- MODULE ContaTikTok ----------------------------
(***************************************************************************)
(* The TikTok account of each unit: the OAuth login that stores a pair of  *)
(* tokens, the two routines that renew pairs (the daily cron and the       *)
(* poller, after a 401), and the webhook by which TikTok says that an      *)
(* account no longer authorises the application.                           *)
(*                                                                         *)
(* A pair of tokens is the account it was given for, how long it still     *)
(* holds, and how many times the stored text is encrypted: rows older than *)
(* the encryption hold plain text.  What the poller does with the answer   *)
(* of the live API is in module Estudio.                                   *)
(***************************************************************************)
EXTENDS Integers, FiniteSets

CONSTANTS
    Unidades,        \* rows of tenants
    UnidadesAtivas,  \* those with ativo = true, the only ones polled
    Perfis,          \* accounts at TikTok
    MaxLogins,       \* bound: logins begun
    MaxFalhasTT,     \* bound: calls that fail and restarts of the process
    SemPerfil

ASSUME ContasDasUnidades ==
    /\ UnidadesAtivas \subseteq Unidades /\ SemPerfil \notin Perfis
    /\ MaxLogins \in Nat /\ MaxFalhasTT \in Nat

VARIABLES
    par,         \* tenants: access and refresh tokens, token_expires_at
    usuarioTT,   \* tenants.tiktok_user_id
    autorizada,  \* at TikTok: the account authorises the application
    login,       \* an OAuth login of each unit
    aviso,       \* authorization.removed of each account
    rotina,      \* the two routines that renew
    logins, falhasTT

varsContaTikTok == <<par, usuarioTT, autorizada, login, aviso, rotina, logins, falhasTT>>

Rotinas == {"diario", "poller"}
Prazos == {"longe", "perto", "vencido"}   \* over 7 days, under 7 days, past
Par == [de: Perfis \cup {SemPerfil}, camadas: 0..1, prazo: Prazos]
SemPar == [de |-> SemPerfil, camadas |-> 0, prazo |-> "longe"]
ParLido == [unidade: Unidades, par: Par]
Rotina == [pc: {"parada", "percorrendo", "gravando"}, fila: SUBSET ParLido,
           unidade: Unidades \cup {SemPerfil}, de: Perfis \cup {SemPerfil}]
RotinaParada == [pc |-> "parada", fila |-> {}, unidade |-> SemPerfil, de |-> SemPerfil]
Login == [etapa: {"nenhum", "estado", "gravando"}, perfil: Perfis \cup {SemPerfil}]
SemLogin == [etapa |-> "nenhum", perfil |-> SemPerfil]

TemPar(t) == par[t].de # SemPerfil

\* Some units were connected before tokens were encrypted.
ContaTikTokInit ==
    /\ par \in [Unidades -> {SemPar} \cup
                    [de: Perfis, camadas: {0}, prazo: {"longe"}]]
    /\ usuarioTT = [t \in Unidades |-> par[t].de]
    /\ autorizada = [a \in Perfis |-> \E t \in Unidades : par[t].de = a]
    /\ login = [t \in Unidades |-> SemLogin]
    /\ aviso = [a \in Perfis |-> "nenhum"]
    /\ rotina = [r \in Rotinas |-> RotinaParada]
    /\ logins = 0 /\ falhasTT = 0

Falhar == falhasTT < MaxFalhasTT /\ falhasTT' = falhasTT + 1

----------------------------------------------------------------------------
(* Encryption at rest. *)

\* Mutant of Cifrar: the pair is encrypted where it is renewed and where it is
\* written.
CifrarDuasVezes(n) == n + 2
Cifrar(n) == n + 1

\* What was not encrypted by us is returned as it is.
Decifrar(n) == IF n > 0 THEN n - 1 ELSE 0

\* A pair as TikTok issues it, encrypted and stored.
Novo(a) == [de: {a}, camadas: {Cifrar(0)}, prazo: {"longe", "perto"}]

----------------------------------------------------------------------------
(* Login. *)

\* connect: a signed state, good for ten minutes.
Conectar(t) ==
    /\ login[t].etapa = "nenhum"
    /\ logins < MaxLogins
    /\ logins' = logins + 1
    /\ login' = [login EXCEPT ![t].etapa = "estado"]
    /\ UNCHANGED <<par, usuarioTT, autorizada, aviso, rotina, falhasTT>>

\* callback without a valid state, or with the user's refusal.
RecusarCallback(t) ==
    /\ login[t].etapa = "estado"
    /\ login' = [login EXCEPT ![t] = SemLogin]
    /\ UNCHANGED <<par, usuarioTT, autorizada, aviso, rotina, logins, falhasTT>>

\* callback: the user authorised the application as some account, and TikTok
\* exchanges the code for a pair, ...
TrocarCodigo(t) ==
    /\ login[t].etapa = "estado"
    /\ \E a \in Perfis :
        /\ autorizada' = [autorizada EXCEPT ![a] = TRUE]
        /\ login' = [login EXCEPT ![t] = [etapa |-> "gravando", perfil |-> a]]
    /\ UNCHANGED <<par, usuarioTT, aviso, rotina, logins, falhasTT>>

\* ... which is written with the account.
GravarLogin(t) ==
    /\ login[t].etapa = "gravando"
    /\ \E p \in Novo(login[t].perfil) : par' = [par EXCEPT ![t] = p]
    /\ usuarioTT' = [usuarioTT EXCEPT ![t] = login[t].perfil]
    /\ login' = [login EXCEPT ![t] = SemLogin]
    /\ UNCHANGED <<autorizada, aviso, rotina, logins, falhasTT>>

----------------------------------------------------------------------------
(* The webhook. *)

\* The user withdraws the authorisation at TikTok, which tells the server.
RetirarAutorizacao(a) ==
    /\ autorizada[a]
    /\ aviso[a] = "nenhum"
    /\ autorizada' = [autorizada EXCEPT ![a] = FALSE]
    /\ aviso' = [aviso EXCEPT ![a] = "enviado"]
    /\ UNCHANGED <<par, usuarioTT, login, rotina, logins, falhasTT>>

\* The unit is looked up by account (LIMIT 1), then its tokens are erased.
\* An error in between is logged and answered 200: TikTok does not repeat.
ReceberAvisoTT(a) ==
    /\ aviso[a] = "enviado"
    /\ aviso' = [aviso EXCEPT ![a] = "recebido"]
    /\ UNCHANGED <<par, usuarioTT, autorizada, login, rotina, logins, falhasTT>>

ApagarTokens(a) ==
    LET donas == {t \in Unidades : usuarioTT[t] = a}
    IN  /\ aviso[a] = "recebido"
        /\ aviso' = [aviso EXCEPT ![a] = "nenhum"]
        /\ \/ donas = {} /\ UNCHANGED <<par, falhasTT>>
           \/ \E t \in donas : par' = [par EXCEPT ![t] = SemPar] /\ UNCHANGED falhasTT
           \/ Falhar /\ UNCHANGED par
        /\ UNCHANGED <<usuarioTT, autorizada, login, rotina, logins>>

----------------------------------------------------------------------------
(* Renewal. *)

\* Mutant of AVencer: tokens already past are left out.
AVencerAinda(t) == TemPar(t) /\ par[t].prazo = "perto"

\* tiktok_token_expires_at < NOW() + INTERVAL '7 days'.
AVencer(t) == TemPar(t) /\ par[t].prazo \in {"perto", "vencido"}

Lidas(S) == {[unidade |-> t, par |-> par[t]] : t \in S}

\* refreshAllExpiringTokens, at 02:00, and pollAllTenants, every minute and
\* never twice at a time: all the rows are read first.
IniciarRotina(r) ==
    LET S == IF r = "diario" THEN {t \in Unidades : AVencer(t)}
                             ELSE {t \in UnidadesAtivas : TemPar(t)}
    IN  /\ rotina[r].pc = "parada"
        /\ rotina' = [rotina EXCEPT ![r].pc = "percorrendo", ![r].fila = Lidas(S)]
        /\ UNCHANGED <<par, usuarioTT, autorizada, login, aviso, logins, falhasTT>>

\* TikTok takes the plain text of a token of an account that authorises us.
TikTokAceita(a, camadas) == autorizada[a] /\ camadas = 0

\* The poller decrypts both tokens and asks for the live of the unit: only a
\* 401 makes it renew.
SemLiveParaLer(x) ==
    x.par.prazo = "vencido" \/ ~TikTokAceita(x.par.de, Decifrar(x.par.camadas))

\* refreshToken decrypts what it is given: for the poller, once more.
CamadasEnviadas(r, x) ==
    IF r = "diario" THEN Decifrar(x.par.camadas) ELSE Decifrar(Decifrar(x.par.camadas))

\* The next unit of the list: the pair read is renewed, refused, or needs
\* nothing.
RenovarSeguinte(r) ==
    \E x \in rotina[r].fila :
        /\ rotina[r].pc = "percorrendo"
        /\ IF (r = "poller" => SemLiveParaLer(x))
              /\ TikTokAceita(x.par.de, CamadasEnviadas(r, x))
             THEN \/ rotina' = [rotina EXCEPT ![r] =
                        [pc |-> "gravando", fila |-> @.fila \ {x},
                         unidade |-> x.unidade, de |-> x.par.de]] /\ UNCHANGED falhasTT
                  \/ rotina' = [rotina EXCEPT ![r].fila = @ \ {x}] /\ Falhar
             ELSE rotina' = [rotina EXCEPT ![r].fila = @ \ {x}] /\ UNCHANGED falhasTT
        /\ UNCHANGED <<par, usuarioTT, autorizada, login, aviso, logins>>

\* The new pair is written by unit, whatever the row holds by now.
GravarRenovacao(r) ==
    /\ rotina[r].pc = "gravando"
    /\ \E p \in Novo(rotina[r].de) : par' = [par EXCEPT ![rotina[r].unidade] = p]
    /\ rotina' = [rotina EXCEPT ![r].pc = "percorrendo", ![r].unidade = SemPerfil,
                                ![r].de = SemPerfil]
    /\ UNCHANGED <<usuarioTT, autorizada, login, aviso, logins, falhasTT>>

TerminarRotina(r) ==
    /\ rotina[r].pc = "percorrendo" /\ rotina[r].fila = {}
    /\ rotina' = [rotina EXCEPT ![r] = RotinaParada]
    /\ UNCHANGED <<par, usuarioTT, autorizada, login, aviso, logins, falhasTT>>

\* Time passes for a pair.
Envelhecer(t) ==
    /\ TemPar(t)
    /\ par[t].prazo # "vencido"
    /\ par' = [par EXCEPT ![t].prazo = IF @ = "longe" THEN "perto" ELSE "vencido"]
    /\ UNCHANGED <<usuarioTT, autorizada, login, aviso, rotina, logins, falhasTT>>

\* The process stops: routines and callbacks in progress are lost.
CairServidor ==
    /\ Falhar
    /\ rotina' = [r \in Rotinas |-> RotinaParada]
    /\ login' = [t \in Unidades |-> IF login[t].etapa = "gravando" THEN SemLogin ELSE login[t]]
    /\ aviso' = [a \in Perfis |-> IF aviso[a] = "recebido" THEN "nenhum" ELSE aviso[a]]
    /\ UNCHANGED <<par, usuarioTT, autorizada, logins>>

PassoDaRotina(r) == RenovarSeguinte(r) \/ GravarRenovacao(r) \/ TerminarRotina(r)

----------------------------------------------------------------------------
ContaTikTokNext ==
    \/ \E t \in Unidades : \/ Conectar(t) \/ RecusarCallback(t) \/ TrocarCodigo(t)
                           \/ GravarLogin(t) \/ Envelhecer(t)
    \/ \E a \in Perfis : RetirarAutorizacao(a) \/ ReceberAvisoTT(a) \/ ApagarTokens(a)
    \/ \E r \in Rotinas : IniciarRotina(r) \/ PassoDaRotina(r)
    \/ CairServidor

ContaTikTokSpec == ContaTikTokInit /\ [][ContaTikTokNext]_varsContaTikTok

\* Both crons fire for ever and their calls end.
RenovacaoDiaria ==
    \A r \in Rotinas : /\ WF_varsContaTikTok(IniciarRotina(r))
                       /\ WF_varsContaTikTok(PassoDaRotina(r))

----------------------------------------------------------------------------
ContaTikTokTypeOK ==
    /\ par \in [Unidades -> Par]
    /\ usuarioTT \in [Unidades -> Perfis \cup {SemPerfil}]
    /\ autorizada \in [Perfis -> BOOLEAN]
    /\ login \in [Unidades -> Login]
    /\ aviso \in [Perfis -> {"nenhum", "enviado", "recebido"}]
    /\ rotina \in [Rotinas -> Rotina]
    /\ logins \in 0..MaxLogins /\ falhasTT \in 0..MaxFalhasTT

\* /tiktok/status and /master/tiktok-apps.
SituacaoDoApp(t) == CASE ~TemPar(t) -> "disconnected"
                      [] TemPar(t) /\ par[t].prazo = "vencido" -> "expired"
                      [] OTHER -> "connected"

\* A unit does not stay expired while its account authorises the application:
\* whether or not it is active, its tokens legacy or encrypted, and whatever
\* failed once or wrote its row meanwhile.
ExpiradaSeRenova ==
    \A t \in Unidades :
        SituacaoDoApp(t) = "expired"
            ~> (SituacaoDoApp(t) # "expired" \/ ~autorizada[par[t].de])
=============================================================================
