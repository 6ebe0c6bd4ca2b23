---------------------------- MODULE MCConectores ----------------------------
(***************************************************************************)
(* Small instances of Conectores and Transmissao for TLC.  The two share   *)
(* no state: a behaviour is of one of them, in a scene, and the other      *)
(* stays in its initial state.                                             *)
(***************************************************************************)
EXTENDS Conectores, Transmissao

CONSTANTS l1, l2, v1

VARIABLE cena

\* One live with everything that may happen to it; or two lives and room for one,
\* in reconciliations one at a time, whose counters do not move, whose booths
\* keep them and whose broadcasts only drop.
NaCena ==
    IF cena = "conectores" THEN \A l \in Lives \ {l1} : live[l] = "nova"
    ELSE /\ biblioteca = "instalada"
         /\ \A l \in Lives : live[l] # "solta"
         /\ \A i \in Conexoes : ~con[i].suja
         /\ Ociosa(Fim)
         /\ \A r, s \in Sincs : {sinc[r].pc, sinc[s].pc} \cap {"ocioso", "pedido"} = {} => r = s

\* A restart brings other packages only while nothing is in progress.
TrocaDePacotes ==
    biblioteca' # biblioteca => NoMapa = {} /\ \A s \in Sincs : sinc[s] = SincOcioso

AoVivoInit ==
    /\ Init /\ TransmissaoInit
    /\ cena \in {"conectores", "limite", "transmissao"}
    /\ cena # "conectores" => biblioteca = "instalada"

AoVivoNext ==
    \/ /\ cena \in {"conectores", "limite"}
       /\ Next /\ UNCHANGED <<cena, varsTransmissao>>
       /\ NaCena' /\ TrocaDePacotes
    \/ cena = "transmissao" /\ TransmissaoNext /\ UNCHANGED <<cena, vars>>

AoVivoSpec == AoVivoInit /\ [][AoVivoNext]_<<cena, vars, varsTransmissao>>

AoVivoSpecJusta == AoVivoSpec /\ CronRoda

\* The variables of both components stay in their types.
AoVivoTypeOK == TypeOK /\ TransmissaoTypeOK

\* The lives are interchangeable, so what is asked of l1 is asked of each.

\* A live shown as 'connecting' gets its connector, however the entries of others
\* come and go, unless lives on air take the limit or the package is not there.
AtivaGanhaConector == GanhaConector(l1)

\* The entry of a live that ended leaves the map for good.
EncerradaSaiDoMapa == SaiDoMapa(l1)
=============================================================================
