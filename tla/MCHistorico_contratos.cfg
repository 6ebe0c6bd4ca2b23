SPECIFICATION HistSpec
CONSTANTS
    b1 = b1 b2 = b2 ana = ana bia = bia ctA = ctA ctB = ctB p1 = p1 p2 = p2
    e1 = e1 r1 = r1 Nenhum = Nenhum
    Cabines = {b1}
    MaxLives = 2
    Clientes = {ana, bia}
    Devedores = {}
    ComMarca = {}
    Contratos = {ctA, ctB}
    ClienteDe <- MCClienteDe
    Pedidos = {p2}
    PedidoDe <- MCPedidoDe
    Sobrepoe = {}
    Eventos = {}
    EventoDe <- MCEventoDe
    ComToken = FALSE
    Leitores = {r1}
INVARIANTS
    HorasDaPartida
