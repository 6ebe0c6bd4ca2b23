SPECIFICATION GestaoSpec
CONSTANTS
    l1 = l1 l2 = l2 ana = ana i1 = i1 i2 = i2 ap1 = ap1 c1 = c1 c2 = c2
    d1 = d1 d2 = d2 g1 = g1 g2 = g2 s1 = s1 s2 = s2
    e1 = e1 e2 = e2 ela = ela usr = usr
    Ninguem = Ninguem SemAp = SemAp NinguemLead = NinguemLead
    Lives = {l1}
    Clientes = {ana}
    ClienteDe <- MCClienteDe
    Fixo = {}
    Instancias = {i1, i2}
    MaxPeriodo = 3
    MaxQuedas = 1
    Protecao = FALSE
    Transmissoes = {l1, l2}
    Apresentadoras = {ap1}
    PrincipalDe <- MCPrincipalDe
    Gmv = {1, 2}
    Corte = 3
    Calculos = {c1, c2}
    MaxEdicoes = 1
    UltimoMes = 2
    IdsDeLead = {d1, d2}
    Gestores = {g1, g2}
    Submissoes = {s1, s2}
    MaxEntregas = 2
    MaxReaberturas = 1
    UltimaHora = 3
    DiaDaData = 1
    RecuoDaSessao = 1
    GradesPossiveis <- MCGrades
    Janelas <- MCJanelas
    DuracaoPadrao = 2
    Editores = {e1, e2}
    IdDela = ela
    UsuarioDela = usr
INVARIANTS
    PedidoAprovadoConta
\* Bounded instances end.
CHECK_DEADLOCK FALSE
