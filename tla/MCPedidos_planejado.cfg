SPECIFICATION Spec
CONSTANTS
    b1 = b1 b2 = b2 ana = ana bia = bia caio = caio ctA = ctA ctB = ctB p1 = p1 p2 = p2
    e1 = e1 r1 = r1 Nenhum = Nenhum
    Cabines = {b1}
    MaxLives = 2
    Clientes = {ana, bia, caio}
    Devedores = {ana}
    ComMarca = {caio}
    Contratos = {ctA, ctB}
    ClienteDe <- MCClienteDe
    Pedidos = {p1, p2}
    PedidoDe <- MCPedidoDe
    Sobrepoe <- MCSobrepoe
    Eventos = {e1}
    EventoDe <- MCEventoDoCaio
    ComToken = FALSE
    Leitores = {}
ACTION_CONSTRAINT
    UmAssunto
INVARIANTS
    UmEventoPorLive
PROPERTIES
    ReservaDoMesmoCliente
