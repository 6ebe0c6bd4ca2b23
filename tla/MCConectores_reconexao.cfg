SPECIFICATION AoVivoSpecJusta
CONSTANTS
    l1 = l1 l2 = l2 v1 = v1 Cron = Cron Fim = Fim Rota = Rota Nenhum = Nenhum
    Lives = {l1}
    Conexoes = {1, 2}
    MaxConectores = 1
    Espectadores = {v1}
    MaxVidas = 1
    MaxContagem = 1
    MaxFlushFalho = 0
PROPERTIES
    CaidaReconecta
