SPECIFICATION AoVivoSpecJusta
CONSTANTS
    l1 = l1 l2 = l2 v1 = v1 Cron = Cron Fim = Fim Rota = Rota Nenhum = Nenhum
    Lives = {l1, l2}
    Conexoes = {1, 2}
    MaxConectores = 1
    Espectadores = {v1}
    MaxVidas = 2
    MaxContagem = 2
    MaxFlushFalho = 1
INVARIANTS
    AoVivoTypeOK EntradaMorta TravaDoDespejo
PROPERTIES
    AtivaGanhaConector EncerradaSaiDoMapa QuadrosNaoVoltam
