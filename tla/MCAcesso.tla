------------------------------ MODULE MCAcesso ------------------------------
(* Small instances of Acesso for TLC. *)
EXTENDS Acesso, TLC

CONSTANTS u1, u2, cl1, f1, k1, q1, q2

\* Accounts are interchangeable, and so are requests.
Simetria == Permutations(Contas) \cup Permutations(Pedidos)
=============================================================================
