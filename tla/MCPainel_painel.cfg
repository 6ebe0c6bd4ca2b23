SPECIFICATION PainelSpecJusta
CONSTANTS
    b1 = b1 ana = ana r1 = r1 Nenhum = Nenhum
    m1 = m1 m2 = m2 ca = ca cb = cb t1 = t1 t2 = t2 a1 = a1 SemPerfil = SemPerfil
    Cabines = {b1}
    MaxLives = 2
    Clientes = {ana}
    Devedores = {ana}
    ComMarca = {}
    Contratos = {}
    ClienteDe <- MCClienteDe
    Pedidos = {}
    PedidoDe <- MCPedidoDe
    Sobrepoe = {}
    Eventos = {}
    EventoDe <- MCEventoDe
    ComToken = TRUE
    Leitores = {r1}
    LivesMedidas = {m1, m2}
    ClientesMedidos = {ca, cb}
    UltimoMes = 3
    GmvMedido = {1}
    MaxCorrecoes = 1
    MaxFalhasDoJob = 1
    Unidades = {t1, t2}
    UnidadesAtivas = {t1}
    Perfis = {a1}
    MaxLogins = 1
    MaxFalhasTT = 1
INVARIANTS
    PainelTypeOK
PROPERTIES
    CabinePresaSeSolta OrfaSeLiga HistoricoAlcanca ExpiradaSeRenova
