---------------------------- MODULE Transmissao ----------------------------
(***************************************************************************)
(* What a dashboard sees of a live on air: the counters a connector keeps, *)
(* their periodic INSERT into live_snapshots, and the two SSE channels:    *)
(* /stream (the last row, then every row written) and /events (chat,       *)
(* gifts and shares as they come).                                         *)
(*                                                                         *)
(* One live.  Each connector it gets counts from zero: that is a life.     *)
(* Its totals, which only grow, are one number n.  A frame is a life and   *)
(* a number.  The map of connectors itself is in module Conectores.        *)
(***************************************************************************)
EXTENDS Integers

CONSTANTS
    Espectadores,
    MaxVidas,       \* bound: connectors of the live in one process
    MaxContagem,    \* bound: events counted by each
    MaxFlushFalho   \* bound: INSERTs that fail in one process

ASSUME LimitesDaTransmissao ==
    /\ MaxVidas \in Nat \ {0} /\ MaxContagem \in Nat /\ MaxFlushFalho \in Nat

VARIABLES
    noAr,       \* lives.status = em_andamento
    vivo,       \* the connector in the map, or 0
    parando,    \* it is inside stopConnector: "nao", "despejo" or "livre"
    total,      \* state of each life
    suja,       \* state.dirty
    voo,        \* the value an INSERT in progress carries, or -1
    foto,       \* the last row of live_snapshots
    espectador, \* requests to the channels
    visto,      \* auxiliary: the last frame of each life each one received
    vidas, flushFalho

varsTransmissao == <<noAr, vivo, parando, total, suja, voo, foto, espectador,
                     visto, vidas, flushFalho>>
varsConector == <<vivo, parando, total, suja, voo, foto, vidas, flushFalho>>

Vidas == 1..MaxVidas
Quadro == [vida: 0..MaxVidas, n: 0..MaxContagem]
SemFoto == [vida |-> 0, n |-> 0]
SemVoo == -1
Fora == [pc |-> "fora", canal |-> "stream", foto |-> SemFoto, foi |-> FALSE]
NadaVisto == [d \in 0..MaxVidas |-> 0]

TransmissaoInit ==
    /\ noAr = TRUE
    /\ vivo = 0 /\ parando = "nao" /\ vidas = 0 /\ flushFalho = 0
    /\ total = [d \in Vidas |-> 0] /\ suja = [d \in Vidas |-> FALSE]
    /\ voo = [d \in Vidas |-> SemVoo]
    /\ foto = SemFoto
    /\ espectador = [v \in Espectadores |-> Fora]
    /\ visto = [v \in Espectadores |-> NadaVisto]

\* captured_at is the start of the INSERT.
MaisNova(q, r) == IF q.vida > r.vida \/ (q.vida = r.vida /\ q.n > r.n) THEN q ELSE r

\* Mutant of Ouvindo: the listener is there before the initial frame is sent.
OuvindoAntes(v, c) == espectador[v].pc \in {"abrindo", "aberto"} /\ espectador[v].canal = c
Ouvindo(v, c) == espectador[v].pc = "aberto" /\ espectador[v].canal = c

\* emit: those listening to the channel receive the frame at once.
Emitir(c, d, n) ==
    visto' = [v \in Espectadores |-> IF Ouvindo(v, c) THEN [visto[v] EXCEPT ![d] = n]
                                                      ELSE visto[v]]

----------------------------------------------------------------------------
(* The connector. *)

IniciarConector ==
    /\ noAr /\ vivo = 0 /\ vidas < MaxVidas
    /\ vivo' = vidas + 1 /\ vidas' = vidas + 1
    /\ UNCHANGED <<noAr, parando, total, suja, voo, foto, espectador, visto, flushFalho>>

\* chat, gift and share count and are emitted one by one; viewers and likes
\* only count.
Contar ==
    /\ vivo # 0
    /\ total[vivo] < MaxContagem
    /\ total' = [total EXCEPT ![vivo] = @ + 1]
    /\ suja' = [suja EXCEPT ![vivo] = TRUE]
    /\ Emitir("eventos", vivo, total'[vivo]) \/ UNCHANGED visto
    /\ UNCHANGED <<noAr, vivo, parando, voo, foto, espectador, vidas, flushFalho>>

\* if (!state.dirty || state.flushing) return
Despeja(d) == suja[d] /\ voo[d] = SemVoo
Despejado(d) == [voo EXCEPT ![d] = total[d]]

IniciarDespejo ==
    /\ vivo # 0 /\ parando = "nao"
    /\ Despeja(vivo)
    /\ voo' = Despejado(vivo)
    /\ UNCHANGED <<noAr, vivo, parando, total, suja, foto, espectador, visto, vidas, flushFalho>>

\* The row is there, and the counters of now are emitted, not those written.
TerminarDespejo(d) ==
    /\ voo[d] # SemVoo
    /\ foto' = MaisNova([vida |-> d, n |-> voo[d]], foto)
    /\ suja' = [suja EXCEPT ![d] = FALSE]
    /\ voo' = [voo EXCEPT ![d] = SemVoo]
    /\ Emitir("stream", d, total[d])
    /\ UNCHANGED <<noAr, vivo, parando, total, espectador, vidas, flushFalho>>

FalharDespejo(d) ==
    /\ voo[d] # SemVoo
    /\ flushFalho < MaxFlushFalho
    /\ flushFalho' = flushFalho + 1
    /\ voo' = [voo EXCEPT ![d] = SemVoo]
    /\ UNCHANGED <<noAr, vivo, parando, total, suja, foto, espectador, visto, vidas>>

\* stopConnector waits for its own last INSERT, not for one of the timer;
\* events are counted until the listeners are removed.
PararConector ==
    /\ vivo # 0 /\ parando = "nao"
    /\ IF Despeja(vivo) THEN parando' = "despejo" /\ voo' = Despejado(vivo)
                        ELSE parando' = "livre" /\ UNCHANGED voo
    /\ UNCHANGED <<noAr, vivo, total, suja, foto, espectador, visto, vidas, flushFalho>>

DesligarConector ==
    /\ parando = "livre" \/ (parando = "despejo" /\ voo[vivo] = SemVoo)
    /\ vivo' = 0 /\ parando' = "nao"
    /\ UNCHANGED <<noAr, total, suja, voo, foto, espectador, visto, vidas, flushFalho>>

EncerrarTransmissao ==
    /\ noAr
    /\ noAr' = FALSE
    /\ UNCHANGED <<varsConector, espectador, visto>>

----------------------------------------------------------------------------
(* The channels. *)

\* The live must be on air; /stream reads the last row next.
Pedir(v, c) ==
    /\ espectador[v].pc = "fora"
    /\ noAr
    /\ espectador' = [espectador EXCEPT ![v].pc = IF c = "stream" THEN "lendo" ELSE "abrindo",
                                        ![v].canal = c]
    /\ UNCHANGED <<varsConector, noAr, visto>>

LerFoto(v) ==
    /\ espectador[v].pc = "lendo"
    /\ espectador' = [espectador EXCEPT ![v].pc = "abrindo", ![v].foto = foto]
    /\ UNCHANGED <<varsConector, noAr, visto>>

\* The initial frame, if there is a row, and the listener, in one run of the
\* event loop.  The close of a client that left before was not listened to:
\* its listener and its heartbeat stay.
AbrirCanal(v) ==
    LET q == espectador[v].foto
    IN  /\ espectador[v].pc = "abrindo"
        /\ espectador' = [espectador EXCEPT
                ![v].pc = IF espectador[v].foi THEN "presa" ELSE "aberto", ![v].foto = SemFoto]
        /\ visto' = IF q = SemFoto \/ espectador[v].foi THEN visto
                                                        ELSE [visto EXCEPT ![v][q.vida] = q.n]
        /\ UNCHANGED <<varsConector, noAr>>

Sair(v) ==
    /\ \/ /\ espectador[v].pc \in {"lendo", "abrindo"} /\ ~espectador[v].foi
          /\ espectador' = [espectador EXCEPT ![v].foi = TRUE]
          /\ UNCHANGED visto
       \/ /\ espectador[v].pc = "aberto"
          /\ espectador' = [espectador EXCEPT ![v] = Fora]
          /\ visto' = [visto EXCEPT ![v] = NadaVisto]
    /\ UNCHANGED <<varsConector, noAr>>

\* The process restarts: the map and the channels go, the rows stay, with one
\* that was on its way or without it.
ReiniciarTransmissao ==
    /\ \E d \in {0} \cup {e \in Vidas : voo[e] # SemVoo} :
        foto' = [vida |-> 0, n |-> IF d = 0 THEN foto.n ELSE voo[d]]
    /\ vivo' = 0 /\ parando' = "nao" /\ vidas' = 0 /\ flushFalho' = 0
    /\ UNCHANGED noAr
    /\ total' = [d \in Vidas |-> 0] /\ suja' = [d \in Vidas |-> FALSE]
    /\ voo' = [d \in Vidas |-> SemVoo]
    /\ espectador' = [v \in Espectadores |-> Fora]
    /\ visto' = [v \in Espectadores |-> NadaVisto]

----------------------------------------------------------------------------
TransmissaoNext ==
    \/ IniciarConector \/ Contar \/ IniciarDespejo \/ PararConector \/ DesligarConector
    \/ \E d \in Vidas : TerminarDespejo(d) \/ FalharDespejo(d)
    \/ EncerrarTransmissao \/ ReiniciarTransmissao
    \/ \E v \in Espectadores :
        \/ \E c \in {"stream", "eventos"} : Pedir(v, c)
        \/ LerFoto(v) \/ AbrirCanal(v) \/ Sair(v)

TransmissaoSpec == TransmissaoInit /\ [][TransmissaoNext]_varsTransmissao

----------------------------------------------------------------------------
TransmissaoTypeOK ==
    /\ noAr \in BOOLEAN
    /\ vivo \in 0..MaxVidas /\ vidas \in 0..MaxVidas
    /\ parando \in {"nao", "despejo", "livre"}
    /\ total \in [Vidas -> 0..MaxContagem] /\ suja \in [Vidas -> BOOLEAN]
    /\ voo \in [Vidas -> -1..MaxContagem]
    /\ foto \in Quadro
    /\ espectador \in [Espectadores ->
            [pc: {"fora", "lendo", "abrindo", "aberto", "presa"},
             canal: {"stream", "eventos"}, foto: Quadro, foi: BOOLEAN]]
    /\ visto \in [Espectadores -> [0..MaxVidas -> 0..MaxContagem]]
    /\ flushFalho \in 0..MaxFlushFalho

\* On one channel the counters of one connector never go back, although the
\* initial frame is read some time before it is sent, an INSERT of a stopped
\* connector may end while the next one already counts, and what is emitted
\* is not what was written.
QuadrosNaoVoltam ==
    [][\A v \in Espectadores, d \in 0..MaxVidas :
            visto[v][d] <= visto'[v][d] \/ espectador'[v].pc = "fora"]_varsTransmissao
=============================================================================
