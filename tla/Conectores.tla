----------------------------- MODULE Conectores -----------------------------
(***************************************************************************)
(* The TikTok connector manager: one socket per live on air, kept in a map *)
(* of the Node process (_liveMap).  Reconciliations (syncLives) run from   *)
(* the cron and after every start of a live; a socket may also be stopped  *)
(* by the end of its live and by TikTok's own streamEnd.  Each of them     *)
(* sleeps at several awaits between looking at the map and writing it.     *)
(*                                                                         *)
(* The map is lost when the process restarts; live_snapshots is not.       *)
(* Of its counters the model keeps whether they changed since they were    *)
(* last written to live_snapshots (dirty).                                 *)
(***************************************************************************)
EXTENDS Integers, FiniteSets

CONSTANTS
    Lives,
    Conexoes,       \* bound: sockets held at once, integers
    MaxConectores,  \* TIKTOK_MAX_CONNECTORS
    Cron,           \* the reconciliation of the cron, never two at a time
    Fim,            \* bound: one streamEnd being handled at a time
    Rota,           \* bound: one stop started by encerrar at a time
    Nenhum

Sincs == {Cron} \cup Lives           \* sync l: the one started by POST /lives for l
Paradores == Sincs \cup {Fim, Rota}  \* who may be inside stopConnector
OuNenhum(S) == S \cup {Nenhum}

ASSUME ConexoesInteiras == Conexoes \subseteq Int
ASSUME LimiteNatural == MaxConectores \in Nat
ASSUME ProcessosDistintos ==
    /\ Cardinality({Cron, Fim, Rota, Nenhum}) = 4
    /\ {Cron, Fim, Rota, Nenhum} \cap Lives = {}
    /\ Nenhum \notin Conexoes

VARIABLES
    biblioteca, \* what import('tiktok-live-connector') gives this process
    live,    \* what the query of syncLives sees of each live
    mapa,    \* _liveMap
    con,     \* sockets with the state their handlers close over
    sinc,    \* reconciliations in progress
    parada   \* calls of stopConnector in progress

vars == <<biblioteca, live, mapa, con, sinc, parada>>

----------------------------------------------------------------------------
(* "ativa": on air, linked by its booth, with a TikTok @.  "solta": on air *)
(* but not returned by the query (liberar removed the link).               *)
FaseDaLive == {"nova", "ativa", "solta", "encerrada"}

\* The package is not a dependency of package.json: it may be there, be missing
\* (getWebcastPushConnection gives null) or fail to load (it throws).
Biblioteca == {"instalada", "ausente", "quebrada"}

\* "parada": listeners removed, or connect() failed.
Conexao == [live: OuNenhum(Lives),
            estado: {"conectando", "no_ar", "caida", "parada"},
            pendente: BOOLEAN,     \* the promise of connect() is open
            suja: BOOLEAN,         \* state.dirty
            gravando: BOOLEAN,     \* state.flushing
            periodico: BOOLEAN]    \* an INSERT of the timer is on its way
Sinc == [pc: {"ocioso", "pedido", "parando", "iniciando", "criando"},
         lista: SUBSET Lives, alvo: OuNenhum(Lives)]
Parada == [pc: {"ociosa", "despejando", "gravando", "desligando"},
           live: OuNenhum(Lives), con: OuNenhum(Conexoes)]

SemConexao == [live |-> Nenhum, estado |-> "parada", pendente |-> FALSE,
               suja |-> FALSE, gravando |-> FALSE, periodico |-> FALSE]
SincOcioso == [pc |-> "ocioso", lista |-> {}, alvo |-> Nenhum]
SemParada == [pc |-> "ociosa", live |-> Nenhum, con |-> Nenhum]

NoMapa == {l \in Lives : mapa[l] # Nenhum}
Ociosa(p) == parada[p].pc = "ociosa"

NaEntrada(i) == \E l \in Lives : mapa[l] = i
SendoParada(i) == \E p \in Paradores : parada[p].con = i

\* A socket record no code can reach again.
Livre(i) == /\ con[i].estado \in {"caida", "parada"}
            /\ ~con[i].pendente /\ ~con[i].gravando
            /\ ~NaEntrada(i) /\ ~SendoParada(i)

Init == /\ biblioteca \in Biblioteca
        /\ live = [l \in Lives |-> "nova"]
        /\ mapa = [l \in Lives |-> Nenhum]
        /\ con = [i \in Conexoes |-> SemConexao]
        /\ sinc = [s \in Sincs |-> SincOcioso]
        /\ parada = [p \in Paradores |-> SemParada]

----------------------------------------------------------------------------
(* stopConnector, between its awaits. *)

\* Mutant of Suja: the flag that a flush is in progress is ignored.
SujaSemTrava(i) == con[i].suja

\* if (!state.dirty || state.flushing) return
Suja(i) == con[i].suja /\ ~con[i].gravando

\* clearInterval, then the final flush: an INSERT is sent when there is
\* something to write and no periodic one is on its way.
Parar(p, l) ==
    LET i == mapa[l]
    IN  /\ Ociosa(p)
        /\ i # Nenhum
        /\ con' = [con EXCEPT ![i].gravando = @ \/ Suja(i)]
        /\ parada' = [parada EXCEPT ![p] =
                        [pc |-> IF Suja(i) THEN "despejando" ELSE "gravando",
                         live |-> l, con |-> i]]

\* The INSERT of the final flush ends, or fails and is only logged.
FimDoDespejo(p) ==
    LET i == parada[p].con
    IN  /\ parada[p].pc = "despejando"
        /\ \/ con' = [con EXCEPT ![i].suja = FALSE, ![i].gravando = FALSE]
           \/ con' = [con EXCEPT ![i].gravando = FALSE]
        /\ parada' = [parada EXCEPT ![p].pc = "gravando"]
        /\ UNCHANGED <<biblioteca, live, mapa, sinc>>

\* UPDATE lives SET final_*, whatever its outcome, then removeAllListeners.
GravarFinais(p) ==
    /\ parada[p].pc = "gravando"
    /\ con' = [con EXCEPT ![parada[p].con].estado = "parada"]
    /\ parada' = [parada EXCEPT ![p].pc = "desligando"]
    /\ UNCHANGED <<biblioteca, live, mapa, sinc>>

\* Mutant of Desligar: the entry stays in the map.
DesligarSemApagar(p) ==
    /\ parada[p].pc = "desligando"
    /\ parada' = [parada EXCEPT ![p] = SemParada]
    /\ UNCHANGED <<biblioteca, live, mapa, con, sinc>>

\* disconnect() answered: the entry of the live is deleted, even if another
\* socket has taken it meanwhile.
Desligar(p) ==
    /\ parada[p].pc = "desligando"
    /\ mapa' = [mapa EXCEPT ![parada[p].live] = Nenhum]
    /\ parada' = [parada EXCEPT ![p] = SemParada]
    /\ UNCHANGED <<biblioteca, live, con, sinc>>

PassoDaParada(p) == FimDoDespejo(p) \/ GravarFinais(p) \/ Desligar(p)

----------------------------------------------------------------------------
(* syncLives and startConnector. *)

\* Mutant of Consultar: an outer join also returns booths without a live.
ConsultarComNulos(s) ==
    /\ sinc[s].pc = IF s = Cron THEN "ocioso" ELSE "pedido"
    /\ sinc' = [sinc EXCEPT ![s] =
                  [pc |-> "parando", alvo |-> Nenhum,
                   lista |-> {Nenhum} \cup {l \in Lives : live[l] = "ativa"}]]
    /\ UNCHANGED <<biblioteca, live, mapa, con, parada>>

\* The query of the lives on air.
Consultar(s) ==
    /\ sinc[s].pc = IF s = Cron THEN "ocioso" ELSE "pedido"
    /\ sinc' = [sinc EXCEPT ![s] =
                  [pc |-> "parando", alvo |-> Nenhum,
                   lista |-> {l \in Lives : live[l] = "ativa"}]]
    /\ UNCHANGED <<biblioteca, live, mapa, con, parada>>

\* Mutant of Sobras: stale entries are never stopped.
SobrasNenhuma(s) == {l \in NoMapa : l \in sinc[s].lista /\ live[l] = "nova"}

\* Entries of the map that the query did not return.
Sobras(s) == NoMapa \ sinc[s].lista

\* await stopConnector(liveId) for one of them.
PararSobra(s) ==
    /\ sinc[s].pc = "parando"
    /\ \E l \in Sobras(s) : Parar(s, l)
    /\ UNCHANGED <<biblioteca, live, mapa, sinc>>

\* Every stale entry was stopped: on to the lives without a socket.
PassarAIniciar(s) ==
    /\ sinc[s].pc = "parando"
    /\ Ociosa(s)
    /\ Sobras(s) = {}
    /\ sinc' = [sinc EXCEPT ![s].pc = "iniciando"]
    /\ UNCHANGED <<biblioteca, live, mapa, con, parada>>

\* Mutant of PrecisaConectar: the limit counts the entry about to be made.
PrecisaConectarMenosUm(l) == mapa[l] = Nenhum /\ Cardinality(NoMapa) + 1 < MaxConectores

\* No entry yet, and startConnector finds the map below its limit.
PrecisaConectar(l) == mapa[l] = Nenhum /\ Cardinality(NoMapa) < MaxConectores

\* The next live of the list; startConnector then loads the package and its
\* products.
ProximaLive(s) ==
    /\ sinc[s].pc = "iniciando"
    /\ \E l \in sinc[s].lista :
        sinc' = [sinc EXCEPT ![s] =
                    [pc |-> IF PrecisaConectar(l) THEN "criando" ELSE "iniciando",
                     lista |-> sinc[s].lista \ {l},
                     alvo |-> IF PrecisaConectar(l) THEN l ELSE Nenhum]]
    /\ UNCHANGED <<biblioteca, live, mapa, con, parada>>

\* Without the package: a missing one only ends this startConnector, a broken one
\* makes the whole reconciliation reject, which its callers log.
DesistirDaConexao(s) ==
    /\ sinc[s].pc = "criando"
    /\ \/ /\ biblioteca = "ausente"
          /\ sinc' = [sinc EXCEPT ![s].pc = "iniciando", ![s].alvo = Nenhum]
       \/ /\ biblioteca = "quebrada"
          /\ sinc' = [sinc EXCEPT ![s] = SincOcioso]
    /\ UNCHANGED <<biblioteca, live, mapa, con, parada>>

\* The package and the products arrived: socket, timer and entry are made without
\* looking at the map again, and connect() starts.
CriarConexao(s) ==
    LET l == sinc[s].alvo
    IN  /\ sinc[s].pc = "criando"
        /\ biblioteca = "instalada"
        /\ \E i \in Conexoes :
            /\ Livre(i)
            /\ \A j \in Conexoes : j < i => ~Livre(j)
            /\ con' = [con EXCEPT ![i] =
                        [SemConexao EXCEPT !.live = l, !.estado = "conectando",
                                           !.pendente = TRUE]]
            /\ mapa' = [mapa EXCEPT ![l] = i]
        /\ sinc' = [sinc EXCEPT ![s].pc = "iniciando", ![s].alvo = Nenhum]
        /\ UNCHANGED <<biblioteca, live, parada>>

TerminarSinc(s) ==
    /\ sinc[s].pc = "iniciando"
    /\ sinc[s].lista = {}
    /\ sinc' = [sinc EXCEPT ![s] = SincOcioso]
    /\ UNCHANGED <<biblioteca, live, mapa, con, parada>>

PassoDaSinc(s) == \/ Consultar(s) \/ PararSobra(s) \/ PassarAIniciar(s)
                  \/ ProximaLive(s) \/ DesistirDaConexao(s) \/ CriarConexao(s)
                  \/ TerminarSinc(s)

----------------------------------------------------------------------------
(* A socket: what TikTok sends, and its periodic flush. *)

ConexaoAceita(i) ==
    /\ con[i].pendente
    /\ con' = [con EXCEPT ![i].pendente = FALSE,
                          ![i].estado = IF @ = "conectando" THEN "no_ar" ELSE @]
    /\ UNCHANGED <<biblioteca, live, mapa, sinc, parada>>

\* connect() rejected: the timer stops and the entry of the live is deleted.
ConexaoFalha(i) ==
    /\ con[i].pendente
    /\ con' = [con EXCEPT ![i].pendente = FALSE, ![i].estado = "parada"]
    /\ mapa' = [mapa EXCEPT ![con[i].live] = Nenhum]
    /\ UNCHANGED <<biblioteca, live, sinc, parada>>

\* roomUser, like, social, chat, gift, share, where a flush may still see it.
Mensagem(i) ==
    /\ con[i].estado = "no_ar"
    /\ NaEntrada(i) \/ SendoParada(i)
    /\ con' = [con EXCEPT ![i].suja = TRUE]
    /\ UNCHANGED <<biblioteca, live, mapa, sinc, parada>>

\* 'disconnected': sets entry.reconnecting, which nothing reads.
Cair(i) ==
    /\ con[i].estado = "no_ar"
    /\ con' = [con EXCEPT ![i].estado = "caida"]
    /\ UNCHANGED <<biblioteca, live, mapa, sinc, parada>>

\* 'streamEnd': stopConnector of the live, whatever socket its entry holds.
FimDaTransmissao(i) ==
    /\ con[i].estado = "no_ar"
    /\ Parar(Fim, con[i].live)
    /\ UNCHANGED <<biblioteca, live, mapa, sinc>>

\* The timer fires, unless a stop cleared it: only that of the current entry
\* flushes.
Despejar(i) ==
    /\ NaEntrada(i) /\ ~SendoParada(i)
    /\ Suja(i)
    /\ con' = [con EXCEPT ![i].gravando = TRUE, ![i].periodico = TRUE]
    /\ UNCHANGED <<biblioteca, live, mapa, sinc, parada>>

\* Its INSERT ends, or fails: then the state stays dirty.
FimDoPeriodico(i) ==
    /\ con[i].periodico
    /\ \/ con' = [con EXCEPT ![i].periodico = FALSE, ![i].suja = FALSE, ![i].gravando = FALSE]
       \/ con' = [con EXCEPT ![i].periodico = FALSE, ![i].gravando = FALSE]
    /\ UNCHANGED <<biblioteca, live, mapa, sinc, parada>>

PassoDaConexao(i) ==
    \/ ConexaoAceita(i) \/ ConexaoFalha(i) \/ Mensagem(i) \/ Cair(i)
    \/ FimDaTransmissao(i) \/ Despejar(i) \/ FimDoPeriodico(i)

----------------------------------------------------------------------------
(* The lives, as the manager sees them (module Estudio has the routes). *)

\* POST /lives commits and starts a reconciliation of its own.
Iniciar(l) ==
    /\ live[l] = "nova"
    /\ live' = [live EXCEPT ![l] = "ativa"]
    /\ sinc' = [sinc EXCEPT ![l].pc = "pedido"]
    /\ UNCHANGED <<biblioteca, mapa, con, parada>>

\* The booth loses its link to the live, or gets it back from live-atual.
MudarVinculo(l) ==
    /\ live[l] \in {"ativa", "solta"}
    /\ live' = [live EXCEPT ![l] = IF @ = "ativa" THEN "solta" ELSE "ativa"]
    /\ UNCHANGED <<biblioteca, mapa, con, sinc, parada>>

\* encerrar stops the connector of the live if the map has one.
Encerrar(l) ==
    /\ live[l] \in {"ativa", "solta"}
    /\ live' = [live EXCEPT ![l] = "encerrada"]
    /\ IF mapa[l] = Nenhum THEN UNCHANGED <<con, parada>> ELSE Parar(Rota, l)
    /\ UNCHANGED <<biblioteca, mapa, sinc>>

\* The poller ends it: nobody tells the manager.
EncerrarPeloPoller(l) ==
    /\ live[l] \in {"ativa", "solta"}
    /\ live' = [live EXCEPT ![l] = "encerrada"]
    /\ UNCHANGED <<biblioteca, mapa, con, sinc, parada>>

\* The process stops and starts again, perhaps deployed with other packages:
\* everything in memory is gone.
Reiniciar ==
    /\ biblioteca' \in Biblioteca
    /\ mapa' = [l \in Lives |-> Nenhum]
    /\ con' = [i \in Conexoes |-> SemConexao]
    /\ sinc' = [s \in Sincs |-> SincOcioso]
    /\ parada' = [p \in Paradores |-> SemParada]
    /\ UNCHANGED live

NextLives == \E l \in Lives :
    Iniciar(l) \/ MudarVinculo(l) \/ Encerrar(l) \/ EncerrarPeloPoller(l)

\* Every step but a restart.
Andamento == \/ NextLives
             \/ \E s \in Sincs : PassoDaSinc(s)
             \/ \E p \in Paradores : PassoDaParada(p)
             \/ \E i \in Conexoes : PassoDaConexao(i)

Next == Andamento \/ Reiniciar

Spec == Init /\ [][Next]_vars

----------------------------------------------------------------------------
TipoDoMapa == /\ live \in [Lives -> FaseDaLive]
              /\ mapa \in [Lives -> OuNenhum(Conexoes)]
              /\ con \in [Conexoes -> Conexao]
              /\ sinc \in [Sincs -> Sinc]
              /\ parada \in [Paradores -> Parada]

TypeOK == biblioteca \in Biblioteca /\ TipoDoMapa

\* An entry whose socket was silenced is about to be deleted: it never stays
\* in the map, where it would make every reconciliation skip the live.
EntradaMorta ==
    \A l \in Lives :
        mapa[l] # Nenhum /\ con[mapa[l]].estado = "parada"
            => \E p \in Paradores : parada[p].pc = "desligando" /\ parada[p].live = l

\* The flushing flag is set exactly while one INSERT of the socket is on its
\* way: it is never left set (no later flush), and two INSERTs are never sent
\* together, so the rows of live_snapshots cannot be written out of order.
TravaDoDespejo ==
    \A i \in Conexoes :
        LET voos == {p \in Paradores : parada[p].pc = "despejando" /\ parada[p].con = i}
        IN  Cardinality(voos) + (IF con[i].periodico THEN 1 ELSE 0)
              = IF con[i].gravando THEN 1 ELSE 0

----------------------------------------------------------------------------
(* GET /lives/:liveId/tiktok-status of a live whose client has a TikTok @.  *)
(* A dropped socket that kept its entry is shown as connected.  Left out:   *)
(* 'error', which the circuit breaker sets and nothing sets back.           *)
SituacaoMostrada(l) ==
    IF live[l] \in {"nova", "encerrada"} THEN "disconnected"
    ELSE IF mapa[l] # Nenhum THEN "connected" ELSE "connecting"

----------------------------------------------------------------------------
(* Liveness: the cron reconciles every minute, queries and calls answer,   *)
(* the process does not restart for ever, and no socket outlives its       *)
(* broadcast (so the sockets the bound Conexoes allows come back).         *)
(* Nothing is assumed of users; TikTok may refuse every connection.        *)
CronRoda ==
    /\ \A s \in Sincs : WF_vars(PassoDaSinc(s) \/ PassoDaParada(s))
    /\ \A p \in {Fim, Rota} : WF_vars(PassoDaParada(p))
    /\ \A i \in Conexoes : WF_vars(ConexaoAceita(i) \/ ConexaoFalha(i))
                        /\ WF_vars(FimDoPeriodico(i)) /\ WF_vars(Cair(i))
    /\ <>[][Andamento]_vars

SpecJusta == Spec /\ CronRoda

\* As many other lives on air, linked, as there is room for.
LimiteTomado(l) == Cardinality({k \in Lives \ {l} : live[k] = "ativa"}) >= MaxConectores

\* Live l shown as 'connecting' does not stay so ("cron vai reconciliar em ate
\* 60s"), as long as its booth links it, the process has the package, and the
\* limit is not taken by lives on air: entries of lives that ended, or that their
\* booths let go, have to make room.
GanhaConector(l) ==
    live[l] = "ativa" /\ SituacaoMostrada(l) = "connecting"
        ~> \/ live[l] # "ativa" \/ SituacaoMostrada(l) # "connecting"
           \/ LimiteTomado(l) \/ biblioteca # "instalada"

\* The entry of a live that ended leaves the map, even when nobody told the
\* manager and a late reconciliation put it there after the end.
SaiDoMapa(l) == live[l] = "encerrada" ~> [](mapa[l] = Nenhum)

----------------------------------------------------------------------------
(* Claims of the repository that the code does not keep. *)

\* 'connector desconectado -- cron reconectara': a live that stays on air does
\* not keep a dropped socket as its entry.
CaidaReconecta ==
    \A l \in Lives : live[l] = "ativa" /\ mapa[l] # Nenhum /\ con[mapa[l]].estado = "caida"
        ~> live[l] # "ativa" \/ mapa[l] = Nenhum \/ con[mapa[l]].estado # "caida"
=============================================================================
