SPECIFICATION AcessoSpec
CONSTANTS
    u1 = u1 u2 = u2 cl1 = cl1 f1 = f1 k1 = k1 q1 = q1 q2 = q2 NaoHa = NaoHa
    Contas = {u1, u2}
    Parceiros = {cl1}
    Fichas = {f1}
    Links = {k1}
    Pedidos = {q1, q2}
    MaxVersao = 2
    LinksPorHora = 1
SYMMETRY Simetria
INVARIANTS
    AcessoTypeOK CredencialUmaVez UmUsuarioPorCliente JwtDaGeracao
\* Bounded instances end.
CHECK_DEADLOCK FALSE
