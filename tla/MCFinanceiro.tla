---------------------------- MODULE MCFinanceiro ----------------------------
(***************************************************************************)
(* Small instances of Cobranca and Contratos for TLC.  The two share no    *)
(* state: a behaviour is of one of them, its scene, and the other stays in *)
(* its initial state, where no action its fairness speaks of is enabled.   *)
(***************************************************************************)
EXTENDS Cobranca, Contratos

CONSTANTS l1, ana, i1, i2, ct1, ct2

VARIABLE cena

MCClienteDe == [l \in Lives |-> ana]
MCTitularDe == [c \in Ids |-> ana]

FinanceiroInit ==
    /\ CobrancaInit /\ ContratosInit
    /\ cena \in {"cobranca", "contratos"}

FinanceiroNext ==
    \/ cena = "cobranca" /\ CobrancaNext /\ UNCHANGED <<cena, varsContratos>>
    \/ cena = "contratos" /\ ContratosNext /\ UNCHANGED <<cena, varsCobranca>>

FinanceiroSpec ==
    FinanceiroInit /\ [][FinanceiroNext]_<<cena, varsCobranca, varsContratos>>

FinanceiroSpecJusta == FinanceiroSpec /\ AvisosChegam /\ VarreduraDiaria

\* The variables of both components stay in their types.
FinanceiroTypeOK == CobrancaTypeOK /\ ContratosTypeOK
=============================================================================
