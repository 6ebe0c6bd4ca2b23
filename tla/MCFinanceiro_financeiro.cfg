SPECIFICATION FinanceiroSpecJusta
CONSTANTS
    l1 = l1 ana = ana i1 = i1 i2 = i2 ct1 = ct1 ct2 = ct2
    Ninguem = Ninguem
    Lives = {l1}
    Clientes = {ana}
    ClienteDe <- MCClienteDe
    Fixo = {}
    Instancias = {i1}
    MaxPeriodo = 3
    MaxQuedas = 1
    Protecao = FALSE
    Ids = {ct1, ct2}
    Titulares = {ana}
    TitularDe <- MCTitularDe
    Prazo = 1
    Bloqueio = 2
INVARIANTS
    FinanceiroTypeOK FaturadoComBoleto EventoDoStatus
PROPERTIES
    PagamentoRegistrado ReprovadoSeResolve
\* The billed half-months are bounded: the instance ends.
CHECK_DEADLOCK FALSE
