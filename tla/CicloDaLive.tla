---------------------------- MODULE CicloDaLive ----------------------------
(***************************************************************************)
(* What the studio promises of each live, without booths, agenda or        *)
(* poller: it goes on air once, ends once, may then be deleted, and its    *)
(* hours are deducted from at most one contract, at the moment it ends.    *)
(***************************************************************************)
CONSTANTS Lives, Contratos

VARIABLES
    fase,      \* where each live is in its life
    cobradas   \* pairs <<contract, live>> whose hours were deducted

CicloInit == /\ fase = [l \in Lives |-> "nova"]
             /\ cobradas = {}

Comecar(l) == /\ fase[l] = "nova"
              /\ fase' = [fase EXCEPT ![l] = "em_andamento"]
              /\ UNCHANGED cobradas

\* Ended by its presenter, with or without a contract to charge, or by the poller.
Terminar(l) == /\ fase[l] = "em_andamento"
               /\ fase' = [fase EXCEPT ![l] = "encerrada"]
               /\ \/ UNCHANGED cobradas
                  \/ \E ct \in Contratos : cobradas' = cobradas \cup {<<ct, l>>}

\* Entered by hand after the fact: never charged.
Lancar(l) == /\ fase[l] = "nova"
             /\ fase' = [fase EXCEPT ![l] = "encerrada"]
             /\ UNCHANGED cobradas

Remover(l) == /\ fase[l] = "encerrada"
              /\ fase' = [fase EXCEPT ![l] = "excluida"]
              /\ UNCHANGED cobradas

CicloNext == \E l \in Lives : Comecar(l) \/ Terminar(l) \/ Lancar(l) \/ Remover(l)

CicloSpec == CicloInit /\ [][CicloNext]_<<fase, cobradas>>
=============================================================================
