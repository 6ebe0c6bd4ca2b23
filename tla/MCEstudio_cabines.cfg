SPECIFICATION Spec
CONSTANTS
    b1 = b1 b2 = b2 ana = ana bia = bia ctA = ctA ctB = ctB p1 = p1 p2 = p2
    e1 = e1 r1 = r1 Nenhum = Nenhum
    Cabines = {b1, b2}
    MaxLives = 2
    Clientes = {ana}
    Devedores = {}
    ComMarca = {}
    Contratos = {ctA}
    ClienteDe <- MCClienteDe
    Pedidos = {}
    PedidoDe <- MCPedidoDe
    Sobrepoe = {}
    Eventos = {}
    EventoDe <- MCEventoDe
    ComToken = TRUE
    Leitores = {r1}
INVARIANTS
    TypeOK VinculoAoVivo VinculoDeOrigem HorasUmaVez ReservaComContratoAtivo
PROPERTIES
    CicloRespeitado
SYMMETRY SimetriaDasCabines
