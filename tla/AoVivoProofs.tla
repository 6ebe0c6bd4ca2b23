---------------------------- MODULE AoVivoProofs ----------------------------
(***************************************************************************)
(* The connector manager and the channels of a live on air, for any number *)
(* of lives, sockets, connectors and viewers: no dead socket stays in the  *)
(* map (EntradaSempreViva), one INSERT of a socket at a time               *)
(* (DespejoSempreUnico), counters that never go back for a viewer          *)
(* (QuadrosNuncaVoltam), and the types of both components.                 *)
(***************************************************************************)
EXTENDS MCConectores, FiniteSetTheorems, TLAPS

----------------------------------------------------------------------------
(* The inductive invariant of the connector manager. *)

\* A socket in use belongs to a live; an entry of the map, and whoever is
\* inside stopConnector, point at a socket of their own live.
DonosCertos ==
    /\ \A i \in Conexoes : con[i].pendente \/ con[i].estado # "parada" => con[i].live \in Lives
    /\ \A l \in Lives : mapa[l] # Nenhum => con[mapa[l]].live = l
    /\ \A s \in Sincs : sinc[s].pc = "criando" => sinc[s].alvo \in Lives
    /\ \A p \in Paradores :
        IF parada[p].pc = "ociosa" THEN parada[p].con = Nenhum
        ELSE /\ parada[p].con \in Conexoes /\ parada[p].live \in Lives
             /\ con[parada[p].con].live = parada[p].live

\* Final flushes of socket i whose INSERT is on its way.
Voos(i) == {p \in Paradores : parada[p].pc = "despejando" /\ parada[p].con = i}

\* The flag is down and nothing flies, or one INSERT does.
UmVoo(i) ==
    \/ con[i].gravando = FALSE /\ con[i].periodico = FALSE /\ Voos(i) = {}
    \/ con[i].gravando = TRUE /\ con[i].periodico = TRUE /\ Voos(i) = {}
    \/ con[i].gravando = TRUE /\ con[i].periodico = FALSE /\ \E p \in Paradores : Voos(i) = {p}

ConectoresInv == TipoDoMapa /\ DonosCertos /\ EntradaMorta /\ \A i \in Conexoes : UmVoo(i)

USE DEF OuNenhum

LEMMA ConectoresInicial == Init => ConectoresInv
<1> SUFFICES ASSUME Init PROVE ConectoresInv
    OBVIOUS
<1> USE ProcessosDistintos DEF Init, SemConexao, SincOcioso, SemParada
<1>1. TipoDoMapa
    BY DEF TipoDoMapa, FaseDaLive, Conexao, Sinc, Parada
<1>2. DonosCertos /\ EntradaMorta
    BY DEF DonosCertos, EntradaMorta
<1>3. \A i \in Conexoes : UmVoo(i)
    BY DEF UmVoo, Voos
<1> QED BY <1>1, <1>2, <1>3 DEF ConectoresInv

\* A step that leaves map, sockets and stops alone, and starts no socket for
\* anything but a live.
LEMMA SoSinc ==
    ASSUME ConectoresInv, UNCHANGED <<mapa, con, parada>>,
           live' \in [Lives -> FaseDaLive], sinc' \in [Sincs -> Sinc],
           \A s \in Sincs : sinc'[s].pc = "criando" => sinc'[s].alvo \in Lives
    PROVE  ConectoresInv'
<1>1. TipoDoMapa' BY DEF ConectoresInv, TipoDoMapa
<1>2. DonosCertos' BY DEF ConectoresInv, DonosCertos
<1>3. EntradaMorta' BY DEF ConectoresInv, EntradaMorta
<1>4. (\A i \in Conexoes : UmVoo(i))' BY DEF ConectoresInv, UmVoo, Voos
<1> QED BY <1>1, <1>2, <1>3, <1>4 DEF ConectoresInv

\* A step of socket i that keeps its owner and its place, and gives the map,
\* when it silences the socket, nothing of it to keep.
LEMMA SoConexao ==
    ASSUME ConectoresInv, NEW i \in Conexoes, UNCHANGED <<live, sinc, parada>>,
           con' \in [Conexoes -> Conexao],
           \A j \in Conexoes \ {i} : con'[j] = con[j],
           con'[i].live = con[i].live,
           con'[i].pendente \/ con'[i].estado # "parada" =>
                con[i].pendente \/ con[i].estado # "parada",
           mapa' \in [Lives -> OuNenhum(Conexoes)],
           \A l \in Lives : mapa'[l] \in {mapa[l], Nenhum},
           con'[i].estado = "parada" =>
                con[i].estado = "parada" \/ \A l \in Lives : mapa'[l] # i,
           UmVoo(i)'
    PROVE  ConectoresInv'
<1> USE DEF ConectoresInv
<1>1. TipoDoMapa' BY DEF TipoDoMapa
<1>2. DonosCertos'
    <2>1. \A j \in Conexoes : con'[j].live = con[j].live
        OBVIOUS
    <2> QED BY <2>1 DEF DonosCertos, TipoDoMapa
<1>3. EntradaMorta'
    <2> SUFFICES ASSUME NEW l \in Lives, mapa'[l] # Nenhum, con'[mapa'[l]].estado = "parada"
                 PROVE  \E p \in Paradores : parada'[p].pc = "desligando" /\ parada'[p].live = l
        BY DEF EntradaMorta
    <2>1. mapa[l] = mapa'[l] /\ mapa[l] \in Conexoes
        BY DEF TipoDoMapa
    <2>2. con[mapa[l]].estado = "parada"
        BY <2>1
    <2> QED BY <2>1, <2>2 DEF EntradaMorta
<1>4. (\A j \in Conexoes : UmVoo(j))'
    <2> SUFFICES ASSUME NEW j \in Conexoes \ {i} PROVE UmVoo(j)'
        OBVIOUS
    <2>1. UmVoo(j) /\ con'[j] = con[j] /\ Voos(j)' = Voos(j)
        BY DEF Voos
    <2> QED BY <2>1 DEF UmVoo
<1> QED BY <1>1, <1>2, <1>3, <1>4

\* A call of stopConnector begins.
LEMMA PassoParar ==
    ASSUME ConectoresInv, NEW p \in Paradores, NEW l \in Lives, Parar(p, l),
           UNCHANGED <<mapa, sinc>>, live' \in [Lives -> FaseDaLive]
    PROVE  ConectoresInv'
<1> DEFINE i == mapa[l]
<1> USE DEF ConectoresInv
<1>1. i \in Conexoes /\ con[i].live = l /\ Ociosa(p)
    BY DEF Parar, TipoDoMapa, DonosCertos
<1>2. /\ con' = [con EXCEPT ![i] = [con[i] EXCEPT !.gravando = (con[i].gravando \/ Suja(i))]]
      /\ parada' = [parada EXCEPT ![p] = [pc |-> IF Suja(i) THEN "despejando" ELSE "gravando",
                                          live |-> l, con |-> i]]
    BY <1>1 DEF Parar, TipoDoMapa
<1> HIDE DEF i
<1>3. UmVoo(i) /\ con[i] \in Conexao /\ Suja(i) \in BOOLEAN
    BY <1>1 DEF TipoDoMapa, Suja, Conexao
<1>4. /\ con' \in [Conexoes -> Conexao]
      /\ \A j \in Conexoes \ {i} : con'[j] = con[j]
      /\ con'[i].live = l /\ con'[i].estado = con[i].estado
      /\ con'[i].pendente = con[i].pendente /\ con'[i].periodico = con[i].periodico
      /\ con'[i].gravando = (con[i].gravando \/ Suja(i))
    <2> DEFINE g == con[i].gravando \/ Suja(i)
    <2>1. g \in BOOLEAN /\ con[i] \in Conexao BY <1>3 DEF Conexao
    <2>2. con' = [con EXCEPT ![i] = [con[i] EXCEPT !.gravando = g]] BY <1>2
    <2> HIDE DEF g
    <2>3. /\ con' \in [Conexoes -> Conexao]
          /\ \A j \in Conexoes \ {i} : con'[j] = con[j]
          /\ con'[i].live = l /\ con'[i].estado = con[i].estado
          /\ con'[i].pendente = con[i].pendente /\ con'[i].periodico = con[i].periodico
          /\ con'[i].gravando = g
        BY <1>1, <2>1, <2>2 DEF TipoDoMapa, Conexao
    <2> QED BY <2>3 DEF g
<1>5. /\ parada' \in [Paradores -> Parada]
      /\ \A q \in Paradores \ {p} : parada'[q] = parada[q]
      /\ parada'[p].live = l /\ parada'[p].con = i
      /\ parada'[p].pc = IF Suja(i) THEN "despejando" ELSE "gravando"
    BY <1>1, <1>2 DEF TipoDoMapa, Parada
<1>6. TipoDoMapa' BY <1>4, <1>5 DEF TipoDoMapa
<1>7. DonosCertos'
    <2>1. \A j \in Conexoes : /\ con'[j].live = con[j].live
                              /\ con'[j].estado = con[j].estado
                              /\ con'[j].pendente = con[j].pendente
        BY <1>1, <1>4
    <2> QED BY <1>1, <1>5, <2>1 DEF DonosCertos, TipoDoMapa
<1>8. EntradaMorta'
    <2> SUFFICES ASSUME NEW m \in Lives, mapa'[m] # Nenhum, con'[mapa'[m]].estado = "parada"
                 PROVE  \E q \in Paradores : parada'[q].pc = "desligando" /\ parada'[q].live = m
        BY DEF EntradaMorta
    <2>1. con[mapa[m]].estado = "parada"
        BY <1>1, <1>4 DEF TipoDoMapa
    <2>2. PICK q \in Paradores : parada[q].pc = "desligando" /\ parada[q].live = m
        BY <2>1 DEF EntradaMorta
    <2> QED BY <1>1, <1>5, <2>2 DEF Ociosa
<1>9. ASSUME NEW j \in Conexoes PROVE UmVoo(j)'
    <2>1. CASE j # i
        <3>1. Voos(j)' = Voos(j)
            BY <1>1, <1>5, <2>1 DEF Voos, Ociosa
        <3> QED BY <1>4, <2>1, <3>1 DEF UmVoo
    <2>2. CASE j = i /\ Suja(i)
        <3>1. Voos(i) = {} /\ con[i].gravando = FALSE /\ con[i].periodico = FALSE
            BY <1>3, <2>2 DEF UmVoo, Suja
        <3>2. Voos(j)' = {p}
            BY <1>5, <2>2, <3>1 DEF Voos
        <3> QED BY <1>3, <1>4, <2>2, <3>1, <3>2 DEF UmVoo
    <2>3. CASE j = i /\ ~Suja(i)
        <3>1. Voos(j)' = Voos(i)
            BY <1>1, <1>5, <2>3 DEF Voos, Ociosa
        <3>2. con'[i].gravando = con[i].gravando
            BY <1>3, <1>4, <2>3 DEF Conexao
        <3> QED BY <1>3, <1>4, <2>3, <3>1, <3>2 DEF UmVoo
    <2> QED BY <2>1, <2>2, <2>3
<1> QED BY <1>6, <1>7, <1>8, <1>9

LEMMA PassoDespejo ==
    ASSUME ConectoresInv, NEW p \in Paradores, FimDoDespejo(p)
    PROVE  ConectoresInv'
<1> DEFINE i == parada[p].con
<1> USE DEF ConectoresInv
<1>1. /\ i \in Conexoes /\ parada[p].pc = "despejando" /\ p \in Voos(i)
      /\ UNCHANGED <<live, mapa, sinc>>
    BY DEF FimDoDespejo, DonosCertos, Voos
<1>2. Voos(i) = {p} /\ con[i].periodico = FALSE
    BY <1>1 DEF UmVoo
<1>3. PICK s \in BOOLEAN : con' = [con EXCEPT ![i].suja = s, ![i].gravando = FALSE]
    <2>1. CASE con' = [con EXCEPT ![i].suja = FALSE, ![i].gravando = FALSE]
        BY <2>1
    <2>2. CASE con' = [con EXCEPT ![i].gravando = FALSE]
        <3>1. con[i].suja \in BOOLEAN BY <1>1 DEF TipoDoMapa, Conexao
        <3>2. con' = [con EXCEPT ![i].suja = con[i].suja, ![i].gravando = FALSE]
            BY <1>1, <2>2 DEF TipoDoMapa, Conexao
        <3> QED BY <3>1, <3>2
    <2> QED BY <2>1, <2>2 DEF FimDoDespejo
<1>4. parada' = [parada EXCEPT ![p].pc = "gravando"]
    BY DEF FimDoDespejo
<1> HIDE DEF i
<1>5. /\ con' \in [Conexoes -> Conexao]
      /\ \A j \in Conexoes \ {i} : con'[j] = con[j]
      /\ con'[i].live = con[i].live /\ con'[i].estado = con[i].estado
      /\ con'[i].pendente = con[i].pendente /\ con'[i].periodico = con[i].periodico
      /\ con'[i].gravando = FALSE
    BY <1>1, <1>3 DEF TipoDoMapa, Conexao
<1>6. /\ parada' \in [Paradores -> Parada]
      /\ \A q \in Paradores \ {p} : parada'[q] = parada[q]
      /\ parada'[p].live = parada[p].live /\ parada'[p].con = i /\ parada'[p].pc = "gravando"
    BY <1>4 DEF TipoDoMapa, Parada, i
<1>7. TipoDoMapa' BY <1>1, <1>5, <1>6 DEF TipoDoMapa
<1>8. DonosCertos'
    BY <1>1, <1>5, <1>6 DEF DonosCertos, TipoDoMapa, i
<1>9. EntradaMorta'
    BY <1>1, <1>5, <1>6 DEF EntradaMorta, TipoDoMapa
<1>10. ASSUME NEW j \in Conexoes PROVE UmVoo(j)'
    <2>1. CASE j # i
        <3>1. Voos(j)' = Voos(j)
            BY <1>1, <1>6, <2>1 DEF Voos, i
        <3> QED BY <1>5, <2>1, <3>1 DEF UmVoo
    <2>2. CASE j = i
        <3>1. Voos(j)' = {}
            BY <1>2, <1>6, <2>2 DEF Voos
        <3> QED BY <1>2, <1>5, <2>2, <3>1 DEF UmVoo
    <2> QED BY <2>1, <2>2
<1> QED BY <1>7, <1>8, <1>9, <1>10

LEMMA PassoFinais ==
    ASSUME ConectoresInv, NEW p \in Paradores, GravarFinais(p) \/ Desligar(p)
    PROVE  ConectoresInv'
<1> USE DEF ConectoresInv
<1>1. CASE GravarFinais(p)
    <2> DEFINE i == parada[p].con
    <2>1. /\ i \in Conexoes /\ parada[p].pc = "gravando" /\ parada[p].live = con[i].live
          /\ UNCHANGED <<live, mapa, sinc>>
        BY <1>1 DEF GravarFinais, DonosCertos
    <2>2. /\ con' = [con EXCEPT ![i].estado = "parada"]
          /\ parada' = [parada EXCEPT ![p].pc = "desligando"]
        BY <1>1 DEF GravarFinais
    <2> HIDE DEF i
    <2>3. /\ con' \in [Conexoes -> Conexao]
          /\ \A j \in Conexoes \ {i} : con'[j] = con[j]
          /\ \A j \in Conexoes : /\ con'[j].live = con[j].live
                                 /\ con'[j].pendente = con[j].pendente
                                 /\ con'[j].periodico = con[j].periodico
                                 /\ con'[j].gravando = con[j].gravando
        BY <2>1, <2>2 DEF TipoDoMapa, Conexao
    <2>4. /\ parada' \in [Paradores -> Parada]
          /\ \A q \in Paradores \ {p} : parada'[q] = parada[q]
          /\ parada'[p].live = parada[p].live /\ parada'[p].con = i
          /\ parada'[p].pc = "desligando"
        BY <2>2 DEF TipoDoMapa, Parada, i
    <2>5. TipoDoMapa' BY <2>1, <2>3, <2>4 DEF TipoDoMapa
    <2>6. DonosCertos'
        <3>1. con'[i].estado = "parada" /\ con'[i].pendente = con[i].pendente
            BY <2>1, <2>2 DEF TipoDoMapa, Conexao
        <3> QED BY <2>1, <2>3, <2>4, <3>1 DEF DonosCertos, TipoDoMapa, i
    <2>7. EntradaMorta'
        \* If the entry holds the socket just silenced, it is its own live's.
        BY <2>1, <2>3, <2>4 DEF EntradaMorta, DonosCertos, TipoDoMapa
    <2>8. ASSUME NEW j \in Conexoes PROVE UmVoo(j)'
        <3>1. Voos(j)' = Voos(j)
            BY <2>1, <2>4 DEF Voos
        <3> QED BY <2>3, <3>1 DEF UmVoo
    <2> QED BY <2>5, <2>6, <2>7, <2>8
<1>2. CASE Desligar(p)
    <2>1. /\ parada[p].pc = "desligando" /\ parada[p].live \in Lives
          /\ mapa' = [mapa EXCEPT ![parada[p].live] = Nenhum]
          /\ parada' = [parada EXCEPT ![p] = SemParada]
          /\ UNCHANGED <<live, con, sinc>>
        BY <1>2 DEF Desligar, DonosCertos
    <2>2. /\ parada' \in [Paradores -> Parada]
          /\ \A q \in Paradores \ {p} : parada'[q] = parada[q]
          /\ parada'[p].con = Nenhum /\ parada'[p].pc = "ociosa"
        BY <2>1 DEF TipoDoMapa, Parada, SemParada
    <2>3. /\ mapa' \in [Lives -> OuNenhum(Conexoes)]
          /\ mapa'[parada[p].live] = Nenhum
          /\ \A l \in Lives : l # parada[p].live => mapa'[l] = mapa[l]
        BY <2>1 DEF TipoDoMapa
    <2>4. TipoDoMapa' BY <2>1, <2>2, <2>3 DEF TipoDoMapa
    <2>5. DonosCertos' BY <2>1, <2>2, <2>3 DEF DonosCertos
    <2>6. EntradaMorta' BY <2>1, <2>2, <2>3 DEF EntradaMorta
    <2>7. ASSUME NEW j \in Conexoes PROVE UmVoo(j)'
        <3>1. Voos(j)' = Voos(j)
            BY <2>1, <2>2 DEF Voos
        <3> QED BY <2>1, <3>1 DEF UmVoo
    <2> QED BY <2>4, <2>5, <2>6, <2>7
<1> QED BY <1>1, <1>2

\* A socket record nobody can reach is used again, for the live of a
\* reconciliation.
LEMMA PassoCriar ==
    ASSUME ConectoresInv, NEW s \in Sincs, CriarConexao(s)
    PROVE  ConectoresInv'
<1> USE DEF ConectoresInv
<1> DEFINE l == sinc[s].alvo
           nova == [SemConexao EXCEPT !.live = l, !.estado = "conectando", !.pendente = TRUE]
<1>1. l \in Lives /\ UNCHANGED <<live, parada>>
    BY DEF CriarConexao, DonosCertos
<1>2. PICK i \in Conexoes :
        Livre(i) /\ con' = [con EXCEPT ![i] = nova] /\ mapa' = [mapa EXCEPT ![l] = i]
    BY DEF CriarConexao
<1>3. sinc' = [sinc EXCEPT ![s].pc = "iniciando", ![s].alvo = Nenhum]
    BY DEF CriarConexao
<1>4. /\ nova \in Conexao /\ nova.live = l /\ nova.estado = "conectando"
      /\ nova.gravando = FALSE /\ nova.periodico = FALSE
    BY <1>1 DEF Conexao, SemConexao
<1> HIDE DEF nova
<1>5. /\ con' \in [Conexoes -> Conexao] /\ con'[i] = nova
      /\ \A j \in Conexoes \ {i} : con'[j] = con[j]
    BY <1>2, <1>4 DEF TipoDoMapa
<1>6. /\ sinc' \in [Sincs -> Sinc]
      /\ \A t \in Sincs : sinc'[t].pc = "criando" => sinc'[t] = sinc[t]
    BY <1>3 DEF TipoDoMapa, Sinc
<1>7. /\ mapa' \in [Lives -> OuNenhum(Conexoes)] /\ mapa'[l] = i
      /\ \A m \in Lives : m # l => mapa'[m] = mapa[m] /\ mapa[m] # i
      /\ \A p \in Paradores : parada[p].con # i
    BY <1>1, <1>2 DEF TipoDoMapa, Livre, NaEntrada, SendoParada
<1> HIDE DEF l
<1>8. TipoDoMapa' BY <1>1, <1>5, <1>6, <1>7 DEF TipoDoMapa
<1>9. DonosCertos'
    <2>1. \A j \in Conexoes : con'[j].pendente \/ con'[j].estado # "parada" => con'[j].live \in Lives
        BY <1>1, <1>4, <1>5 DEF DonosCertos
    <2>2. \A m \in Lives : mapa'[m] # Nenhum => con'[mapa'[m]].live = m
        BY <1>4, <1>5, <1>7 DEF DonosCertos, TipoDoMapa
    <2>3. \A t \in Sincs : sinc'[t].pc = "criando" => sinc'[t].alvo \in Lives
        BY <1>6 DEF DonosCertos
    <2>4. \A p \in Paradores : parada[p].pc # "ociosa" => con'[parada[p].con] = con[parada[p].con]
        BY <1>5, <1>7 DEF DonosCertos
    <2> QED BY <1>1, <2>1, <2>2, <2>3, <2>4 DEF DonosCertos
<1>10. EntradaMorta'
    BY <1>1, <1>4, <1>5, <1>7 DEF EntradaMorta, TipoDoMapa
<1>11. ASSUME NEW j \in Conexoes PROVE UmVoo(j)'
    <2>1. Voos(j)' = Voos(j) /\ Voos(i) = {}
        BY <1>1, <1>7 DEF Voos
    <2> QED BY <1>4, <1>5, <2>1 DEF UmVoo
<1> QED BY <1>8, <1>9, <1>10, <1>11

LEMMA ConectoresPasso == ConectoresInv /\ [Next]_vars => ConectoresInv'
<1> SUFFICES ASSUME ConectoresInv, [Next]_vars PROVE ConectoresInv'
    OBVIOUS
<1>t. TipoDoMapa /\ DonosCertos /\ \A i \in Conexoes : UmVoo(i)
    BY DEF ConectoresInv
<1>1. CASE UNCHANGED vars
    BY <1>1, <1>t, SoSinc DEF vars, TipoDoMapa, DonosCertos
<1>2. ASSUME NEW l \in Lives, Iniciar(l) \/ MudarVinculo(l) \/ EncerrarPeloPoller(l)
      PROVE  ConectoresInv'
    <2>1. /\ UNCHANGED <<mapa, con, parada>>
          /\ live' \in [Lives -> FaseDaLive] /\ sinc' \in [Sincs -> Sinc]
          /\ \A s \in Sincs : sinc'[s].pc = "criando" => sinc'[s] = sinc[s]
        BY <1>2, <1>t DEF Iniciar, MudarVinculo, EncerrarPeloPoller, TipoDoMapa, FaseDaLive, Sinc, Sincs
    <2> QED BY <1>t, <2>1, SoSinc DEF DonosCertos
<1>3. ASSUME NEW l \in Lives, Encerrar(l) PROVE ConectoresInv'
    <2>1. live' \in [Lives -> FaseDaLive] /\ UNCHANGED <<mapa, sinc>>
        BY <1>3, <1>t DEF Encerrar, TipoDoMapa, FaseDaLive
    <2>2. CASE UNCHANGED <<con, parada>>
        BY <1>t, <2>1, <2>2, SoSinc DEF DonosCertos, TipoDoMapa
    <2>3. CASE Parar(Rota, l)
        BY <2>1, <2>3, PassoParar DEF Paradores
    <2> QED BY <1>3, <2>2, <2>3 DEF Encerrar
<1>4. ASSUME NEW s \in Sincs, Consultar(s) \/ PassarAIniciar(s) \/ ProximaLive(s)
             \/ DesistirDaConexao(s) \/ TerminarSinc(s)
      PROVE  ConectoresInv'
    <2>1. UNCHANGED <<live, mapa, con, parada>>
        BY <1>4 DEF Consultar, PassarAIniciar, ProximaLive, DesistirDaConexao, TerminarSinc
    <2>2. /\ sinc' \in [Sincs -> Sinc]
          /\ \A t \in Sincs : sinc'[t].pc = "criando" => sinc'[t] = sinc[t] \/ sinc'[t].alvo \in Lives
        <3>1. CASE Consultar(s)
            BY <3>1, <1>t DEF Consultar, TipoDoMapa, Sinc
        <3>2. CASE PassarAIniciar(s) \/ TerminarSinc(s)
            BY <3>2, <1>t DEF PassarAIniciar, TerminarSinc, SincOcioso, TipoDoMapa, Sinc
        <3>3. CASE ProximaLive(s)
            <4>1. PICK l \in sinc[s].lista :
                    sinc' = [sinc EXCEPT ![s] =
                        [pc |-> IF PrecisaConectar(l) THEN "criando" ELSE "iniciando",
                         lista |-> sinc[s].lista \ {l},
                         alvo |-> IF PrecisaConectar(l) THEN l ELSE Nenhum]]
                BY <3>3 DEF ProximaLive
            <4>2. l \in Lives BY <1>t DEF TipoDoMapa, Sinc
            <4> QED BY <1>t, <4>1, <4>2 DEF TipoDoMapa, Sinc
        <3>4. CASE DesistirDaConexao(s)
            BY <3>4, <1>t DEF DesistirDaConexao, SincOcioso, TipoDoMapa, Sinc
        <3> QED BY <1>4, <3>1, <3>2, <3>3, <3>4
    <2> QED BY <1>t, <2>1, <2>2, SoSinc DEF DonosCertos, TipoDoMapa
<1>5. ASSUME NEW s \in Sincs, PararSobra(s) PROVE ConectoresInv'
    BY <1>5, <1>t, PassoParar DEF PararSobra, Sobras, NoMapa, Paradores, TipoDoMapa
<1>6. ASSUME NEW s \in Sincs, CriarConexao(s) PROVE ConectoresInv'
    BY <1>6, PassoCriar
<1>7. ASSUME NEW p \in Paradores, PassoDaParada(p) PROVE ConectoresInv'
    BY <1>7, PassoDespejo, PassoFinais DEF PassoDaParada
<1>8. ASSUME NEW i \in Conexoes, ConexaoAceita(i) \/ Mensagem(i) \/ Cair(i) PROVE ConectoresInv'
    <2>1. /\ con[i].pendente \/ con[i].estado # "parada"
          /\ con' \in [Conexoes -> Conexao] /\ UNCHANGED <<live, mapa, sinc, parada>>
          /\ \A j \in Conexoes \ {i} : con'[j] = con[j]
          /\ con'[i].live = con[i].live
          /\ con'[i].estado = "parada" => con[i].estado = "parada"
          /\ con'[i].gravando = con[i].gravando /\ con'[i].periodico = con[i].periodico
        <3>1. con[i].estado \in {"conectando", "no_ar", "caida", "parada"} /\ con[i] \in Conexao
            BY <1>t DEF TipoDoMapa, Conexao
        <3>2. CASE ConexaoAceita(i)
            <4> DEFINE e == IF con[i].estado = "conectando" THEN "no_ar" ELSE con[i].estado
            <4>1. con' = [con EXCEPT ![i].pendente = FALSE, ![i].estado = e]
                BY <3>2, <1>t DEF ConexaoAceita, TipoDoMapa
            <4>2. /\ e \in {"conectando", "no_ar", "caida", "parada"}
                  /\ e = "parada" => con[i].estado = "parada"
                BY <3>1
            <4> HIDE DEF e
            <4>3. con[i].pendente /\ UNCHANGED <<live, mapa, sinc, parada>>
                BY <3>2 DEF ConexaoAceita
            <4> QED BY <1>t, <4>1, <4>2, <4>3 DEF TipoDoMapa, Conexao
        <3>3. CASE Mensagem(i)
            BY <3>3, <1>t DEF Mensagem, TipoDoMapa, Conexao
        <3>4. CASE Cair(i)
            BY <3>4, <1>t DEF Cair, TipoDoMapa, Conexao
        <3> QED BY <1>8, <3>2, <3>3, <3>4
    <2>2. UmVoo(i)'
        <3>1. Voos(i)' = Voos(i) BY <2>1 DEF Voos
        <3> QED BY <1>t, <2>1, <3>1 DEF UmVoo
    <2> QED BY <1>t, <2>1, <2>2, SoConexao DEF TipoDoMapa
<1>9. ASSUME NEW i \in Conexoes, ConexaoFalha(i) PROVE ConectoresInv'
    <2>1. /\ con[i].pendente /\ con[i].live \in Lives
          /\ con' \in [Conexoes -> Conexao] /\ UNCHANGED <<live, sinc, parada>>
          /\ \A j \in Conexoes \ {i} : con'[j] = con[j]
          /\ con'[i].live = con[i].live
          /\ con'[i].gravando = con[i].gravando /\ con'[i].periodico = con[i].periodico
        <3>1. con[i].pendente /\ UNCHANGED <<live, sinc, parada>>
              /\ con' = [con EXCEPT ![i].pendente = FALSE, ![i].estado = "parada"]
            BY <1>9 DEF ConexaoFalha
        <3>2. con[i].live \in Lives BY <1>t, <3>1 DEF DonosCertos
        <3> QED BY <1>t, <3>1, <3>2 DEF TipoDoMapa, Conexao
    <2>2. mapa' = [mapa EXCEPT ![con[i].live] = Nenhum]
        BY <1>9 DEF ConexaoFalha
    <2>3. /\ mapa' \in [Lives -> OuNenhum(Conexoes)]
          /\ \A l \in Lives : mapa'[l] \in {mapa[l], Nenhum} /\ mapa'[l] # i
        BY <1>t, <2>1, <2>2, ProcessosDistintos DEF TipoDoMapa, DonosCertos
    <2>4. UmVoo(i)'
        <3>1. Voos(i)' = Voos(i) BY <2>1 DEF Voos
        <3> QED BY <1>t, <2>1, <3>1 DEF UmVoo
    <2> QED BY <2>1, <2>3, <2>4, SoConexao
<1>10. ASSUME NEW i \in Conexoes, FimDaTransmissao(i) PROVE ConectoresInv'
    <2>1. con[i].live \in Lives /\ Parar(Fim, con[i].live) /\ UNCHANGED <<live, mapa, sinc>>
        BY <1>10, <1>t DEF FimDaTransmissao, DonosCertos
    <2> QED BY <1>t, <2>1, PassoParar DEF Paradores, TipoDoMapa
<1>11. ASSUME NEW i \in Conexoes, Despejar(i) PROVE ConectoresInv'
    <2>1. con[i].gravando = FALSE /\ con' = [con EXCEPT ![i].gravando = TRUE, ![i].periodico = TRUE]
        BY <1>11, <1>t DEF Despejar, Suja, TipoDoMapa, Conexao
    <2>2. UNCHANGED <<live, mapa, sinc, parada>>
        BY <1>11 DEF Despejar
    <2>3. /\ con' \in [Conexoes -> Conexao]
          /\ \A j \in Conexoes \ {i} : con'[j] = con[j]
          /\ con'[i].live = con[i].live /\ con'[i].estado = con[i].estado
          /\ con'[i].pendente = con[i].pendente
          /\ con'[i].gravando = TRUE /\ con'[i].periodico = TRUE
        BY <1>t, <2>1 DEF TipoDoMapa, Conexao
    <2>4. UmVoo(i)'
        <3>1. Voos(i)' = Voos(i) BY <2>2 DEF Voos
        <3> QED BY <1>t, <2>1, <2>3, <3>1 DEF UmVoo
    <2> QED BY <1>t, <2>2, <2>3, <2>4, SoConexao DEF TipoDoMapa
<1>12. ASSUME NEW i \in Conexoes, FimDoPeriodico(i) PROVE ConectoresInv'
    <2>1. con[i].periodico = TRUE /\ UNCHANGED <<live, mapa, sinc, parada>>
        BY <1>12, <1>t DEF FimDoPeriodico, TipoDoMapa, Conexao
    <2>2. /\ con' \in [Conexoes -> Conexao]
          /\ \A j \in Conexoes \ {i} : con'[j] = con[j]
          /\ con'[i].live = con[i].live /\ con'[i].estado = con[i].estado
          /\ con'[i].pendente = con[i].pendente
          /\ con'[i].gravando = FALSE /\ con'[i].periodico = FALSE
        <3>1. CASE con' = [con EXCEPT ![i].periodico = FALSE, ![i].suja = FALSE, ![i].gravando = FALSE]
            BY <1>t, <3>1 DEF TipoDoMapa, Conexao
        <3>2. CASE con' = [con EXCEPT ![i].periodico = FALSE, ![i].gravando = FALSE]
            BY <1>t, <3>2 DEF TipoDoMapa, Conexao
        <3> QED BY <1>12, <3>1, <3>2 DEF FimDoPeriodico
    <2>3. UmVoo(i)'
        <3>1. Voos(i)' = Voos(i) BY <2>1 DEF Voos
        <3> QED BY <1>t, <2>1, <2>2, <3>1 DEF UmVoo
    <2> QED BY <1>t, <2>1, <2>2, <2>3, SoConexao DEF TipoDoMapa
<1>13. CASE Reiniciar
    <2> USE <1>13 DEF Reiniciar, SemConexao, SincOcioso, SemParada
    <2>1. TipoDoMapa' BY <1>t DEF TipoDoMapa, Conexao, Sinc, Parada
    <2>2. DonosCertos' BY <1>t DEF DonosCertos
    <2>3. EntradaMorta' BY DEF EntradaMorta
    <2>4. (\A i \in Conexoes : UmVoo(i))' BY DEF UmVoo, Voos
    <2> QED BY <2>1, <2>2, <2>3, <2>4 DEF ConectoresInv
<1> QED
    BY <1>1, <1>2, <1>3, <1>4, <1>5, <1>6, <1>7, <1>8, <1>9, <1>10, <1>11, <1>12, <1>13
    DEF Next, Andamento, NextLives, PassoDaSinc, PassoDaConexao

LEMMA ConectoresSempre == Spec => []ConectoresInv
BY ConectoresInicial, ConectoresPasso, PTL DEF Spec

\* Only a restart chooses the packages of the process.
LEMMA BibliotecaSempre == Spec => [](biblioteca \in Biblioteca)
<1>1. Init => biblioteca \in Biblioteca BY DEF Init
<1>2. biblioteca \in Biblioteca /\ [Next]_vars => (biblioteca \in Biblioteca)'
    <2>1. NextLives => biblioteca' = biblioteca
        BY DEF NextLives, Iniciar, MudarVinculo, Encerrar, EncerrarPeloPoller
    <2>2. ASSUME NEW s \in Sincs, PassoDaSinc(s) PROVE biblioteca' = biblioteca
        BY <2>2 DEF PassoDaSinc, Consultar, PararSobra, PassarAIniciar, ProximaLive,
           DesistirDaConexao, CriarConexao, TerminarSinc
    <2>3. ASSUME NEW p \in Paradores, PassoDaParada(p) PROVE biblioteca' = biblioteca
        BY <2>3 DEF PassoDaParada, FimDoDespejo, GravarFinais, Desligar
    <2>4. ASSUME NEW i \in Conexoes, PassoDaConexao(i) PROVE biblioteca' = biblioteca
        BY <2>4 DEF PassoDaConexao, ConexaoAceita, ConexaoFalha, Mensagem, Cair,
           FimDaTransmissao, Despejar, FimDoPeriodico
    <2> QED BY <2>1, <2>2, <2>3, <2>4 DEF Next, Andamento, Reiniciar, vars
<1> QED BY <1>1, <1>2, PTL DEF Spec

\* The variables of the connector manager stay in their types.
THEOREM ConectoresTipo == Spec => []TypeOK
<1>1. ConectoresInv => TipoDoMapa BY DEF ConectoresInv
<1>2. TypeOK <=> TipoDoMapa /\ biblioteca \in Biblioteca BY DEF TypeOK
<1> QED BY <1>1, <1>2, ConectoresSempre, BibliotecaSempre, PTL

\* An entry whose socket was silenced is about to be deleted: no interleaving
\* of reconciliations, ends of lives and refused connections leaves it in the
\* map, where syncLives would skip the live for ever.
THEOREM EntradaSempreViva == Spec => []EntradaMorta
<1>1. ConectoresInv => EntradaMorta BY DEF ConectoresInv
<1> QED BY <1>1, ConectoresSempre, PTL

\* state.flushing is up exactly while one INSERT of the socket is on its way.
THEOREM DespejoSempreUnico == Spec => []TravaDoDespejo
<1>1. ConectoresInv => TravaDoDespejo
    <2> SUFFICES ASSUME ConectoresInv, NEW i \in Conexoes
                 PROVE  Cardinality(Voos(i)) + (IF con[i].periodico THEN 1 ELSE 0)
                            = IF con[i].gravando THEN 1 ELSE 0
        BY DEF TravaDoDespejo, Voos
    <2>1. UmVoo(i) BY DEF ConectoresInv
    <2>2. Cardinality({}) = 0 /\ \A p : Cardinality({p}) = 1
        BY FS_EmptySet, FS_Singleton
    <2>3. CASE con[i].gravando = FALSE /\ con[i].periodico = FALSE /\ Voos(i) = {}
        BY <2>2, <2>3
    <2>4. CASE con[i].gravando = TRUE /\ con[i].periodico = TRUE /\ Voos(i) = {}
        BY <2>2, <2>4
    <2>5. CASE con[i].gravando = TRUE /\ con[i].periodico = FALSE /\ \E p \in Paradores : Voos(i) = {p}
        <3>1. Cardinality(Voos(i)) = 1 BY <2>2, <2>5
        <3> QED BY <2>5, <3>1
    <2> QED BY <2>1, <2>3, <2>4, <2>5 DEF UmVoo
<1> QED BY <1>1, ConectoresSempre, PTL
----------------------------------------------------------------------------
(* The channels of a live on air. *)

Tela == [pc: {"fora", "lendo", "abrindo", "aberto", "presa"},
         canal: {"stream", "eventos"}, foto: Quadro, foi: BOOLEAN]
Contagens == [0..MaxVidas -> 0..MaxContagem]

\* What a frame shows of a life is not ahead of the counters of that life.
Atras(q) == q.vida # 0 => q.n <= total[q.vida]

\* Neither is what an INSERT carries, what is stored, what a viewer is about to
\* receive nor what one received; a channel that is not open has shown nothing.
NadaAdiante ==
    /\ \A d \in Vidas : voo[d] <= total[d]
    /\ Atras(foto)
    /\ \A v \in Espectadores :
        /\ Atras(espectador[v].foto)
        /\ \A d \in Vidas : visto[v][d] <= total[d]
        /\ espectador[v].pc # "aberto" => visto[v] = NadaVisto

TransmissaoInv == TransmissaoTypeOK /\ NadaAdiante

\* Counters of a viewer do not go back, unless the channel was closed.
NaoVoltam == \A v \in Espectadores, d \in 0..MaxVidas :
                visto[v][d] <= visto'[v][d] \/ espectador'[v].pc = "fora"

LEMMA ValoresIniciais ==
    /\ SemFoto \in Quadro /\ SemFoto.vida = 0
    /\ Fora \in Tela /\ Fora.foto = SemFoto /\ Fora.pc = "fora"
    /\ NadaVisto \in Contagens /\ \A d \in 0..MaxVidas : NadaVisto[d] = 0
    /\ \A d \in Vidas : d \in 0..MaxVidas /\ d # 0
<1> USE LimitesDaTransmissao
<1>1. SemFoto \in Quadro /\ SemFoto.vida = 0 BY DEF SemFoto, Quadro
<1>2. Fora \in Tela /\ Fora.foto = SemFoto /\ Fora.pc = "fora" BY <1>1 DEF Fora, Tela
<1>3. NadaVisto \in Contagens /\ \A d \in 0..MaxVidas : NadaVisto[d] = 0
    BY DEF NadaVisto, Contagens
<1>4. \A d \in Vidas : d \in 0..MaxVidas /\ d # 0 BY DEF Vidas
<1> QED BY <1>1, <1>2, <1>3, <1>4

\* The parts of the type one by one.
LEMMA Partes ==
    ASSUME TransmissaoTypeOK
    PROVE  /\ foto \in Quadro /\ foto.vida \in 0..MaxVidas /\ foto.n \in 0..MaxContagem
           /\ \A d \in Vidas : total[d] \in 0..MaxContagem /\ voo[d] \in -1..MaxContagem
           /\ espectador \in [Espectadores -> Tela] /\ visto \in [Espectadores -> Contagens]
           /\ \A v \in Espectadores :
                /\ espectador[v].foto \in Quadro
                /\ espectador[v].foto.vida \in 0..MaxVidas
                /\ espectador[v].foto.n \in 0..MaxContagem
                /\ \A d \in 0..MaxVidas : visto[v][d] \in 0..MaxContagem
BY DEF TransmissaoTypeOK, Tela, Contagens, Quadro

LEMMA TransmissaoInicial == TransmissaoInit => TransmissaoInv
<1> SUFFICES ASSUME TransmissaoInit PROVE TransmissaoInv
    OBVIOUS
<1>0. /\ foto = SemFoto /\ visto = [v \in Espectadores |-> NadaVisto]
      /\ espectador = [v \in Espectadores |-> Fora]
      /\ total = [d \in Vidas |-> 0] /\ voo = [d \in Vidas |-> SemVoo]
    BY DEF TransmissaoInit
<1>1. espectador \in [Espectadores -> Tela] /\ visto \in [Espectadores -> Contagens]
    BY <1>0, ValoresIniciais
<1>2. TransmissaoTypeOK
    BY <1>0, <1>1, ValoresIniciais, LimitesDaTransmissao
    DEF TransmissaoInit, TransmissaoTypeOK, SemVoo, Tela, Contagens
<1>3. NadaAdiante
    BY <1>0, ValoresIniciais, LimitesDaTransmissao DEF NadaAdiante, Atras, SemVoo
<1> QED BY <1>2, <1>3 DEF TransmissaoInv

\* Only those listening to the channel receive the frame.
LEMMA QuemRecebe ==
    ASSUME visto \in [Espectadores -> Contagens],
           NEW c, NEW d \in 0..MaxVidas, NEW n \in 0..MaxContagem, Emitir(c, d, n)
    PROVE  /\ visto' \in [Espectadores -> Contagens]
           /\ \A v \in Espectadores :
                /\ \A e \in 0..MaxVidas : visto'[v][e] = visto[v][e]
                                          \/ (e = d /\ visto'[v][e] = n)
                /\ espectador[v].pc # "aberto" => visto'[v] = visto[v]
<1>1. \A v \in Espectadores :
        LET f == [visto[v] EXCEPT ![d] = n]
        IN  f \in Contagens /\ f[d] = n /\ \A e \in 0..MaxVidas \ {d} : f[e] = visto[v][e]
    BY DEF Contagens
<1>2. \A v \in Espectadores : visto'[v] = IF Ouvindo(v, c) THEN [visto[v] EXCEPT ![d] = n]
                                                           ELSE visto[v]
    BY DEF Emitir
<1>3. visto' \in [Espectadores -> Contagens]
    BY <1>1 DEF Emitir
<1>4. ASSUME NEW v \in Espectadores
      PROVE  /\ \A e \in 0..MaxVidas : visto'[v][e] = visto[v][e] \/ (e = d /\ visto'[v][e] = n)
             /\ espectador[v].pc # "aberto" => visto'[v] = visto[v]
    <2>1. CASE Ouvindo(v, c)
        <3> DEFINE f == [visto[v] EXCEPT ![d] = n]
        <3>1. visto'[v] = f BY <1>2, <2>1
        <3>2. f[d] = n /\ \A e \in 0..MaxVidas \ {d} : f[e] = visto[v][e] BY <1>1
        <3> HIDE DEF f
        <3>3. espectador[v].pc = "aberto" BY <2>1 DEF Ouvindo
        <3> QED BY <3>1, <3>2, <3>3
    <2>2. CASE ~Ouvindo(v, c) BY <1>2, <2>2
    <2> QED BY <2>1, <2>2
<1> QED BY <1>3, <1>4

\* A step that only raises counters, or leaves the viewers where they are.
LEMMA SoContadores ==
    ASSUME TransmissaoTypeOK, NadaAdiante, TransmissaoTypeOK', UNCHANGED <<espectador, visto>>,
           \A d \in Vidas : total[d] <= total'[d] /\ voo'[d] <= total'[d],
           Atras(foto)'
    PROVE  NadaAdiante' /\ NaoVoltam
<1>1. \A v \in Espectadores, d \in Vidas : visto[v][d] <= total'[d]
    <2> SUFFICES ASSUME NEW v \in Espectadores, NEW d \in Vidas PROVE visto[v][d] <= total'[d]
        OBVIOUS
    <2>1. visto[v][d] <= total[d] /\ total[d] <= total'[d] BY DEF NadaAdiante
    <2>2. visto[v][d] \in Int /\ total[d] \in Int BY Partes, ValoresIniciais
    <2>3. total'[d] \in Int BY DEF TransmissaoTypeOK, Vidas
    <2> QED BY <2>1, <2>2, <2>3
<1>2. ASSUME NEW v \in Espectadores PROVE Atras(espectador[v].foto)'
    <2>1. CASE espectador[v].foto.vida = 0 BY <2>1 DEF Atras
    <2>2. CASE espectador[v].foto.vida # 0
        <3>1. espectador[v].foto.vida \in Vidas BY <2>2, Partes, LimitesDaTransmissao DEF Vidas
        <3>2. /\ espectador[v].foto.n <= total[espectador[v].foto.vida]
              /\ total[espectador[v].foto.vida] <= total'[espectador[v].foto.vida]
            BY <2>2, <3>1 DEF NadaAdiante, Atras
        <3>3. espectador[v].foto.n \in Int /\ total[espectador[v].foto.vida] \in Int
            BY <3>1, Partes
        <3>4. total'[espectador[v].foto.vida] \in Int
            BY <3>1 DEF TransmissaoTypeOK, Vidas
        <3> QED BY <3>2, <3>3, <3>4 DEF Atras
    <2> QED BY <2>1, <2>2
<1>3. NadaAdiante' BY <1>1, <1>2 DEF NadaAdiante
<1>4. NaoVoltam BY Partes DEF NaoVoltam
<1> QED BY <1>3, <1>4

LEMMA PassoDoConector ==
    ASSUME TransmissaoTypeOK, NadaAdiante,
           \/ IniciarConector \/ IniciarDespejo \/ PararConector \/ DesligarConector
           \/ EncerrarTransmissao \/ \E d \in Vidas : FalharDespejo(d)
    PROVE  TransmissaoTypeOK' /\ NadaAdiante' /\ NaoVoltam
<1> USE LimitesDaTransmissao
<1>0. \A d \in Vidas : total[d] <= total[d] /\ voo[d] <= total[d]
    BY Partes DEF NadaAdiante
<1>a. ASSUME TransmissaoTypeOK', UNCHANGED <<espectador, visto, total, foto>>,
             \A d \in Vidas : voo'[d] <= total[d]
      PROVE  TransmissaoTypeOK' /\ NadaAdiante' /\ NaoVoltam
    <2>1. \A d \in Vidas : total[d] <= total'[d] /\ voo'[d] <= total'[d]
        BY <1>a, <1>0
    <2>2. Atras(foto)' BY <1>a DEF NadaAdiante, Atras
    <2> QED BY <1>a, <2>1, <2>2, SoContadores
<1>b. ASSUME NEW d \in Vidas, TransmissaoTypeOK
      PROVE  /\ Despejado(d) \in [Vidas -> -1..MaxContagem]
             /\ \A e \in Vidas : Despejado(d)[e] <= total[e]
    BY <1>0, <1>b, Partes DEF Despejado, TransmissaoTypeOK
<1>1. CASE IniciarConector
    <2>1. TransmissaoTypeOK' BY <1>1 DEF IniciarConector, TransmissaoTypeOK
    <2> QED BY <1>1, <1>0, <1>a, <2>1 DEF IniciarConector
<1>2. CASE DesligarConector
    <2>1. TransmissaoTypeOK' BY <1>2 DEF DesligarConector, TransmissaoTypeOK
    <2> QED BY <1>2, <1>0, <1>a, <2>1 DEF DesligarConector
<1>3. CASE EncerrarTransmissao
    <2>1. TransmissaoTypeOK' BY <1>3 DEF EncerrarTransmissao, varsConector, TransmissaoTypeOK
    <2> QED BY <1>3, <1>0, <1>a, <2>1 DEF EncerrarTransmissao, varsConector
<1>4. CASE IniciarDespejo
    <2>0. vivo \in Vidas BY <1>4 DEF IniciarDespejo, TransmissaoTypeOK, Vidas
    <2>1. TransmissaoTypeOK' BY <1>4, <1>b, <2>0 DEF IniciarDespejo, TransmissaoTypeOK
    <2> QED BY <1>4, <1>b, <1>a, <2>0, <2>1 DEF IniciarDespejo
<1>5. CASE PararConector
    <2>0. vivo \in Vidas BY <1>5 DEF PararConector, TransmissaoTypeOK, Vidas
    <2>1. TransmissaoTypeOK'
        BY <1>5, <1>b, <2>0 DEF PararConector, TransmissaoTypeOK
    <2>2. \A d \in Vidas : voo'[d] <= total[d] BY <1>0, <1>5, <1>b, <2>0 DEF PararConector
    <2> QED BY <1>5, <1>a, <2>1, <2>2 DEF PararConector
<1>6. ASSUME NEW d \in Vidas, FalharDespejo(d)
      PROVE  TransmissaoTypeOK' /\ NadaAdiante' /\ NaoVoltam
    <2>1. TransmissaoTypeOK' BY <1>6 DEF FalharDespejo, TransmissaoTypeOK, SemVoo
    <2>2. \A e \in Vidas : voo'[e] <= total[e]
        BY <1>0, <1>6, Partes DEF FalharDespejo, SemVoo, TransmissaoTypeOK
    <2> QED BY <1>6, <1>a, <2>1, <2>2 DEF FalharDespejo
<1> QED BY <1>1, <1>2, <1>3, <1>4, <1>5, <1>6

\* A step that shows viewers the counters of one life, not behind what they saw.
LEMMA SoMostra ==
    ASSUME TransmissaoTypeOK, NadaAdiante, NEW c, NEW d \in Vidas, NEW n \in 0..MaxContagem,
           Emitir(c, d, n), UNCHANGED espectador,
           \A e \in Vidas : total'[e] \in Int /\ total[e] <= total'[e],
           total[d] <= n, n <= total'[d]
    PROVE  /\ visto' \in [Espectadores -> Contagens]
           /\ NaoVoltam
           /\ \A v \in Espectadores :
                /\ \A e \in Vidas : visto'[v][e] <= total'[e]
                /\ Atras(espectador[v].foto)'
                /\ espectador'[v].pc # "aberto" => visto'[v] = NadaVisto
<1>0. d \in 0..MaxVidas /\ visto \in [Espectadores -> Contagens]
    BY ValoresIniciais, Partes
<1>1. /\ visto' \in [Espectadores -> Contagens]
      /\ \A v \in Espectadores :
            /\ \A e \in 0..MaxVidas : visto'[v][e] = visto[v][e]
                                      \/ (e = d /\ visto'[v][e] = n)
            /\ espectador[v].pc # "aberto" => visto'[v] = visto[v]
    BY <1>0, QuemRecebe
<1>2. \A e \in Vidas : total[e] \in Int BY Partes
<1>3. ASSUME NEW v \in Espectadores, NEW e \in Vidas PROVE visto'[v][e] <= total'[e]
    <2>1. visto[v][e] \in Int /\ e \in 0..MaxVidas BY Partes, ValoresIniciais
    <2>2. visto[v][e] <= total[e] BY DEF NadaAdiante
    <2> QED BY <1>1, <1>2, <2>1, <2>2
<1>4. ASSUME NEW v \in Espectadores PROVE Atras(espectador[v].foto)'
    <2>1. CASE espectador[v].foto.vida = 0 BY <2>1 DEF Atras
    <2>2. CASE espectador[v].foto.vida # 0
        <3>1. espectador[v].foto.vida \in Vidas /\ espectador[v].foto.n \in Int
            BY <2>2, Partes, LimitesDaTransmissao DEF Vidas
        <3>2. espectador[v].foto.n <= total[espectador[v].foto.vida]
            BY <2>2 DEF NadaAdiante, Atras
        <3> QED BY <1>2, <3>1, <3>2 DEF Atras
    <2> QED BY <2>1, <2>2
<1>5. NaoVoltam
    <2> SUFFICES ASSUME NEW v \in Espectadores, NEW e \in 0..MaxVidas
                 PROVE  visto[v][e] <= visto'[v][e]
        BY DEF NaoVoltam
    <2>1. visto[v][e] \in Int BY Partes
    <2>2. visto[v][d] <= total[d] /\ visto[v][d] \in Int /\ total[d] \in Int
        BY <1>0, Partes DEF NadaAdiante
    <2> QED BY <1>1, <2>1, <2>2
<1> QED BY <1>1, <1>3, <1>4, <1>5 DEF NadaAdiante

LEMMA PassoDosQuadros ==
    ASSUME TransmissaoTypeOK, NadaAdiante,
           Contar \/ \E d \in Vidas : TerminarDespejo(d)
    PROVE  TransmissaoTypeOK' /\ NadaAdiante' /\ NaoVoltam
<1> USE LimitesDaTransmissao
<1>1. CASE Contar
    <2>1. /\ vivo \in Vidas /\ total' = [total EXCEPT ![vivo] = @ + 1]
          /\ UNCHANGED <<voo, foto, espectador>>
        BY <1>1 DEF Contar, TransmissaoTypeOK, Vidas
    <2>2. /\ total' \in [Vidas -> 0..MaxContagem] /\ total'[vivo] = total[vivo] + 1
          /\ \A d \in Vidas \ {vivo} : total'[d] = total[d]
        BY <1>1, <2>1 DEF Contar, TransmissaoTypeOK
    <2>3. \A d \in Vidas : total'[d] \in Int /\ total[d] <= total'[d] /\ voo[d] <= total'[d]
        BY <2>1, <2>2, Partes DEF NadaAdiante
    <2>4. Atras(foto)'
        <3>1. CASE foto.vida = 0 BY <2>1, <3>1 DEF Atras
        <3>2. CASE foto.vida # 0
            <4>1. foto.vida \in Vidas /\ foto.n \in Int /\ total[foto.vida] \in Int
                BY <3>2, Partes DEF Vidas
            <4>2. foto.n <= total[foto.vida] BY <3>2 DEF NadaAdiante, Atras
            <4> QED BY <2>1, <2>3, <4>1, <4>2 DEF Atras
        <3> QED BY <3>1, <3>2
    <2>5. ASSUME visto' \in [Espectadores -> Contagens] PROVE TransmissaoTypeOK'
        BY <1>1, <2>1, <2>2, <2>5 DEF Contar, TransmissaoTypeOK, Contagens
    <2>6. CASE UNCHANGED visto
        <3>1. TransmissaoTypeOK' BY <2>5, <2>6, Partes
        <3> QED BY <2>1, <2>3, <2>4, <2>6, <3>1, SoContadores
    <2>7. CASE Emitir("eventos", vivo, total'[vivo])
        <3>0. total'[vivo] \in 0..MaxContagem /\ total[vivo] <= total'[vivo]
            BY <2>1, <2>2, <2>3
        <3>1. /\ visto' \in [Espectadores -> Contagens]
              /\ NaoVoltam
              /\ \A v \in Espectadores :
                    /\ \A e \in Vidas : visto'[v][e] <= total'[e]
                    /\ Atras(espectador[v].foto)'
                    /\ espectador'[v].pc # "aberto" => visto'[v] = NadaVisto
            <4>1. PICK d \in Vidas, n \in 0..MaxContagem : d = vivo /\ n = total'[vivo]
                BY <2>1, <3>0
            <4>2. Emitir("eventos", d, n) BY <2>7, <4>1 DEF Emitir
            <4>3. total[d] <= n /\ n <= total'[d] BY <3>0, <4>1
            <4> QED BY <2>1, <2>3, <4>2, <4>3, SoMostra
        <3>2. NadaAdiante' BY <2>1, <2>3, <2>4, <3>1 DEF NadaAdiante
        <3> QED BY <2>5, <3>1, <3>2
    <2> QED BY <1>1, <2>6, <2>7 DEF Contar
<1>2. ASSUME NEW d \in Vidas, TerminarDespejo(d)
      PROVE  TransmissaoTypeOK' /\ NadaAdiante' /\ NaoVoltam
    <2>1. /\ voo[d] \in 0..MaxContagem /\ voo[d] <= total[d]
          /\ suja' = [suja EXCEPT ![d] = FALSE] /\ voo' = [voo EXCEPT ![d] = SemVoo]
          /\ UNCHANGED <<noAr, vivo, parando, total, espectador, vidas, flushFalho>>
        BY <1>2, Partes DEF TerminarDespejo, SemVoo, NadaAdiante
    <2>2. \A e \in Vidas : total'[e] \in Int /\ total[e] <= total'[e] /\ voo'[e] <= total'[e]
        BY <2>1, Partes DEF NadaAdiante, SemVoo, TransmissaoTypeOK
    <2>3. foto' \in Quadro /\ Atras(foto)'
        <3>1. /\ [vida |-> d, n |-> voo[d]] \in Quadro
              /\ foto' = [vida |-> d, n |-> voo[d]] \/ foto' = foto
            BY <1>2, <2>1, ValoresIniciais DEF TerminarDespejo, MaisNova, Quadro
        <3>2. CASE foto' = [vida |-> d, n |-> voo[d]] BY <2>1, <3>1, <3>2 DEF Atras
        <3>3. CASE foto' = foto BY <2>1, <3>3, Partes DEF Atras, NadaAdiante
        <3> QED BY <3>1, <3>2, <3>3
    <2>4. total[d] \in 0..MaxContagem /\ total[d] <= total[d] /\ total[d] <= total'[d]
        BY <2>1, Partes
    <2>5. /\ visto' \in [Espectadores -> Contagens]
          /\ NaoVoltam
          /\ \A v \in Espectadores :
                /\ \A e \in Vidas : visto'[v][e] <= total'[e]
                /\ Atras(espectador[v].foto)'
                /\ espectador'[v].pc # "aberto" => visto'[v] = NadaVisto
        <3>1. Emitir("stream", d, total[d]) BY <1>2 DEF TerminarDespejo
        <3> QED BY <2>1, <2>2, <2>4, <3>1, SoMostra
    <2>6. TransmissaoTypeOK'
        BY <2>1, <2>3, <2>5 DEF TransmissaoTypeOK, SemVoo, Contagens
    <2>7. NadaAdiante' BY <2>2, <2>3, <2>5 DEF NadaAdiante
    <2> QED BY <2>5, <2>6, <2>7
<1> QED BY <1>1, <1>2

\* A step of the viewers' own.
LEMMA PassoDoEspectador ==
    ASSUME TransmissaoTypeOK, NadaAdiante, NEW v \in Espectadores,
           \/ \E c \in {"stream", "eventos"} : Pedir(v, c)
           \/ LerFoto(v) \/ AbrirCanal(v) \/ Sair(v)
    PROVE  TransmissaoTypeOK' /\ NadaAdiante' /\ NaoVoltam
<1> USE LimitesDaTransmissao
\* Only v moves, and what it is sent is not behind what it had.
<1>a. ASSUME UNCHANGED <<varsConector, noAr>>,
             NEW e \in Tela, NEW f \in Contagens,
             espectador' = [espectador EXCEPT ![v] = e], visto' = [visto EXCEPT ![v] = f],
             Atras(e.foto), \A d \in Vidas : f[d] <= total[d],
             e.pc # "aberto" => f = NadaVisto,
             e.pc = "fora" \/ \A d \in 0..MaxVidas : visto[v][d] <= f[d]
      PROVE  TransmissaoTypeOK' /\ NadaAdiante' /\ NaoVoltam
    <2>1. /\ espectador \in [Espectadores -> Tela] /\ visto \in [Espectadores -> Contagens]
          /\ UNCHANGED <<vivo, parando, total, suja, voo, foto, vidas, flushFalho, noAr>>
        BY <1>a, Partes DEF varsConector
    <2>2. /\ espectador' \in [Espectadores -> Tela] /\ visto' \in [Espectadores -> Contagens]
          /\ espectador'[v] = e /\ visto'[v] = f
          /\ \A w \in Espectadores \ {v} : espectador'[w] = espectador[w] /\ visto'[w] = visto[w]
        BY <1>a, <2>1
    <2>3. TransmissaoTypeOK'
        BY <2>1, <2>2 DEF TransmissaoTypeOK, Tela, Contagens
    <2>4. ASSUME NEW w \in Espectadores
          PROVE  /\ Atras(espectador[w].foto)'
                 /\ \A d \in Vidas : visto'[w][d] <= total'[d]
                 /\ espectador'[w].pc # "aberto" => visto'[w] = NadaVisto
        <3>1. CASE w = v BY <1>a, <2>1, <2>2, <3>1 DEF Atras
        <3>2. CASE w # v BY <2>1, <2>2, <3>2 DEF Atras, NadaAdiante
        <3> QED BY <3>1, <3>2
    <2>5. (\A d \in Vidas : voo[d] <= total[d])' /\ Atras(foto)'
        BY <2>1 DEF Atras, NadaAdiante
    <2>6. NadaAdiante' BY <2>4, <2>5 DEF NadaAdiante
    <2>7. NaoVoltam
        <3>1. \A w \in Espectadores \ {v}, d \in 0..MaxVidas : visto[w][d] <= visto'[w][d]
            BY <2>2, Partes
        <3> QED BY <1>a, <2>2, <3>1 DEF NaoVoltam
    <2> QED BY <2>3, <2>6, <2>7
<1>b. /\ espectador \in [Espectadores -> Tela] /\ espectador[v] \in Tela
      /\ visto \in [Espectadores -> Contagens] /\ visto[v] \in Contagens
      /\ visto = [visto EXCEPT ![v] = visto[v]]
      /\ \A d \in 0..MaxVidas : visto[v][d] <= visto[v][d]
      /\ \A d \in Vidas : visto[v][d] <= total[d]
      /\ Atras(espectador[v].foto) /\ Atras(foto)
      /\ espectador[v].pc # "aberto" => visto[v] = NadaVisto
    BY Partes DEF NadaAdiante
<1>1. ASSUME NEW c \in {"stream", "eventos"}, Pedir(v, c)
      PROVE  TransmissaoTypeOK' /\ NadaAdiante' /\ NaoVoltam
    <2> DEFINE e == [espectador[v] EXCEPT !.pc = IF c = "stream" THEN "lendo" ELSE "abrindo",
                                          !.canal = c]
    <2>1. espectador' = [espectador EXCEPT ![v] = e] /\ espectador[v].pc = "fora"
          /\ UNCHANGED <<varsConector, noAr, visto>>
        BY <1>1, <1>b DEF Pedir, Tela
    <2>2. e \in Tela /\ e.foto = espectador[v].foto /\ e.pc # "aberto"
        BY <1>b DEF Tela
    <2> HIDE DEF e
    <2> QED BY <1>a, <1>b, <2>1, <2>2
<1>2. CASE LerFoto(v)
    <2> DEFINE e == [espectador[v] EXCEPT !.pc = "abrindo", !.foto = foto]
    <2>1. espectador' = [espectador EXCEPT ![v] = e] /\ espectador[v].pc = "lendo"
          /\ UNCHANGED <<varsConector, noAr, visto>>
        BY <1>2, <1>b DEF LerFoto, Tela
    <2>2. e \in Tela /\ e.foto = foto /\ e.pc # "aberto"
        BY <1>b, Partes DEF Tela
    <2> HIDE DEF e
    <2> QED BY <1>a, <1>b, <2>1, <2>2
<1>3. CASE AbrirCanal(v)
    <2> DEFINE q == espectador[v].foto
               p == IF espectador[v].foi THEN "presa" ELSE "aberto"
               e == [espectador[v] EXCEPT !.pc = p, !.foto = SemFoto]
               f == [visto[v] EXCEPT ![q.vida] = q.n]
    <2>1. /\ espectador[v].pc = "abrindo" /\ visto[v] = NadaVisto
          /\ UNCHANGED <<varsConector, noAr>>
        BY <1>3, <1>b DEF AbrirCanal
    <2>2. espectador' = [espectador EXCEPT ![v] = e]
        BY <1>3, <1>b DEF AbrirCanal, Tela
    <2>3. e \in Tela /\ e.foto = SemFoto /\ e.pc = p
        BY <1>b, ValoresIniciais DEF Tela
    <2>4. visto' = visto \/ (~espectador[v].foi /\ visto' = [visto EXCEPT ![v] = f])
        BY <1>3, <1>b DEF AbrirCanal
    <2>5. /\ f \in Contagens /\ \A d \in 0..MaxVidas : visto[v][d] <= f[d]
          /\ \A d \in Vidas : f[d] <= total[d]
        <3>1. q.vida \in 0..MaxVidas /\ q.n \in 0..MaxContagem BY Partes
        <3>2. f \in Contagens /\ f[q.vida] = q.n
              /\ \A d \in 0..MaxVidas \ {q.vida} : f[d] = visto[v][d]
            BY <1>b, <3>1 DEF Contagens
        <3>3. \A d \in 0..MaxVidas : visto[v][d] = 0 BY <2>1, ValoresIniciais
        <3>4. \A d \in Vidas : total[d] \in Nat /\ d \in 0..MaxVidas /\ d # 0
            BY Partes, ValoresIniciais
        <3>5. q.vida # 0 => q.n <= total[q.vida] BY <1>b DEF Atras
        <3> HIDE DEF f, q
        <3> QED BY <3>1, <3>2, <3>3, <3>4, <3>5
    <2>6. Atras(e.foto) BY <2>3, ValoresIniciais DEF Atras
    <2>7. espectador[v].foi => e.pc # "aberto" BY <2>3
    <2>8. e.pc # "aberto" => espectador[v].foi BY <2>3
    <2> HIDE DEF q, p, e, f
    <2>9. CASE visto' = visto
        BY <1>a, <1>b, <2>1, <2>2, <2>3, <2>6, <2>9
    <2>10. CASE ~espectador[v].foi /\ visto' = [visto EXCEPT ![v] = f]
        BY <1>a, <1>b, <2>1, <2>2, <2>3, <2>5, <2>6, <2>8, <2>10
    <2> QED BY <2>4, <2>9, <2>10
<1>4. CASE Sair(v)
    <2>0. UNCHANGED <<varsConector, noAr>> BY <1>4 DEF Sair
    <2>1. CASE /\ espectador[v].pc \in {"lendo", "abrindo"} /\ UNCHANGED visto
               /\ espectador' = [espectador EXCEPT ![v].foi = TRUE]
        <3> DEFINE e == [espectador[v] EXCEPT !.foi = TRUE]
        <3>1. espectador' = [espectador EXCEPT ![v] = e] BY <1>b, <2>1
        <3>2. e \in Tela /\ e.foto = espectador[v].foto /\ e.pc = espectador[v].pc
            BY <1>b DEF Tela
        <3> HIDE DEF e
        <3> QED BY <1>a, <1>b, <2>0, <2>1, <3>1, <3>2
    <2>2. CASE /\ espectador' = [espectador EXCEPT ![v] = Fora]
               /\ visto' = [visto EXCEPT ![v] = NadaVisto]
        <3>1. /\ Fora \in Tela /\ NadaVisto \in Contagens /\ Fora.pc = "fora" /\ Atras(Fora.foto)
              /\ \A d \in Vidas : NadaVisto[d] <= total[d]
            BY ValoresIniciais, Partes DEF Atras
        <3> QED BY <1>a, <2>0, <2>2, <3>1
    <2> QED BY <1>4, <2>1, <2>2 DEF Sair
<1> QED BY <1>1, <1>2, <1>3, <1>4

LEMMA TransmissaoReinicio ==
    ASSUME TransmissaoTypeOK, NadaAdiante, ReiniciarTransmissao
    PROVE  TransmissaoTypeOK' /\ NadaAdiante' /\ NaoVoltam
<1> USE LimitesDaTransmissao
<1>1. /\ total' = [d \in Vidas |-> 0] /\ voo' = [d \in Vidas |-> SemVoo]
      /\ espectador' = [v \in Espectadores |-> Fora]
      /\ visto' = [v \in Espectadores |-> NadaVisto]
    BY DEF ReiniciarTransmissao
<1>2. foto' \in Quadro /\ foto'.vida = 0
    <2>1. PICK d \in {0} \cup {e \in Vidas : voo[e] # SemVoo} :
            foto' = [vida |-> 0, n |-> IF d = 0 THEN foto.n ELSE voo[d]]
        BY DEF ReiniciarTransmissao
    <2>2. (IF d = 0 THEN foto.n ELSE voo[d]) \in 0..MaxContagem
        BY Partes DEF SemVoo
    <2> QED BY <2>1, <2>2 DEF Quadro
<1>3. espectador' \in [Espectadores -> Tela] /\ visto' \in [Espectadores -> Contagens]
    BY <1>1, ValoresIniciais
<1>4. TransmissaoTypeOK'
    BY <1>1, <1>2, <1>3 DEF ReiniciarTransmissao, TransmissaoTypeOK, SemVoo, Tela, Contagens
<1>5. NadaAdiante'
    BY <1>1, <1>2, ValoresIniciais DEF NadaAdiante, Atras, SemVoo
<1>6. NaoVoltam BY <1>1, ValoresIniciais DEF NaoVoltam
<1> QED BY <1>4, <1>5, <1>6

LEMMA TransmissaoPasso ==
    ASSUME TransmissaoInv, [TransmissaoNext]_varsTransmissao
    PROVE  TransmissaoInv' /\ NaoVoltam
<1>0. TransmissaoTypeOK /\ NadaAdiante BY DEF TransmissaoInv
<1>1. CASE UNCHANGED varsTransmissao
    <2>1. UNCHANGED <<noAr, vivo, parando, total, suja, voo, foto, espectador, visto, vidas,
                      flushFalho>>
        BY <1>1 DEF varsTransmissao
    <2>2. TransmissaoTypeOK' BY <1>0, <2>1 DEF TransmissaoTypeOK
    <2>3. NadaAdiante' BY <1>0, <2>1 DEF NadaAdiante, Atras
    <2>4. NaoVoltam BY <1>0, <2>1, Partes DEF NaoVoltam
    <2> QED BY <2>2, <2>3, <2>4 DEF TransmissaoInv
<1>2. CASE TransmissaoNext
    <2>1. TransmissaoTypeOK' /\ NadaAdiante' /\ NaoVoltam
        BY <1>0, <1>2, PassoDoConector, PassoDosQuadros, PassoDoEspectador, TransmissaoReinicio
        DEF TransmissaoNext
    <2> QED BY <2>1 DEF TransmissaoInv
<1> QED BY <1>1, <1>2

LEMMA TransmissaoSempre == TransmissaoSpec => []TransmissaoInv
<1> QED BY TransmissaoInicial, TransmissaoPasso, PTL DEF TransmissaoSpec

\* The variables of the connector and of the channels stay in their types.
THEOREM TransmissaoTipo == TransmissaoSpec => []TransmissaoTypeOK
<1>1. TransmissaoInv => TransmissaoTypeOK BY DEF TransmissaoInv
<1> QED BY <1>1, TransmissaoSempre, PTL

\* The counters of one connector never go back on a channel.
THEOREM QuadrosNuncaVoltam == TransmissaoSpec => QuadrosNaoVoltam
<1>1. TransmissaoInv /\ [TransmissaoNext]_varsTransmissao => [NaoVoltam]_varsTransmissao
    BY TransmissaoPasso
<1>2. TransmissaoSpec => [][NaoVoltam]_varsTransmissao
    BY <1>1, TransmissaoSempre, PTL DEF TransmissaoSpec
<1> QED BY <1>2 DEF QuadrosNaoVoltam, NaoVoltam

----------------------------------------------------------------------------
(* The two scenes of the instance. *)

\* A behaviour of the instance is one of each component.
LEMMA AoVivoImplementa == AoVivoSpec => Spec /\ TransmissaoSpec
<1>1. AoVivoInit => Init /\ TransmissaoInit BY DEF AoVivoInit
<1>2. [AoVivoNext]_<<cena, vars, varsTransmissao>>
        => [Next]_vars /\ [TransmissaoNext]_varsTransmissao
    BY DEF AoVivoNext
<1> QED BY <1>1, <1>2, PTL DEF AoVivoSpec, Spec, TransmissaoSpec

\* The variables of both components stay in their types, whichever moves.
THEOREM AoVivoTipo == AoVivoSpec => []AoVivoTypeOK
<1>1. TypeOK /\ TransmissaoTypeOK => AoVivoTypeOK BY DEF AoVivoTypeOK
<1> QED BY <1>1, AoVivoImplementa, ConectoresTipo, TransmissaoTipo, PTL
=============================================================================
