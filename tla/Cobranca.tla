------------------------------ MODULE Cobranca ------------------------------
(***************************************************************************)
(* Half-monthly billing and the payment of its bank slips.                 *)
(*                                                                         *)
(* Several instances of the server run the same cron.  The one that gets   *)
(* the advisory lock bills the half-month that ended: in one transaction   *)
(* it reads the lives not yet billed, inserts one slip per client, marks   *)
(* the lives and asks the gateway for each charge.  The charges are made   *)
(* before COMMIT and survive a rollback.  The gateway then reports each    *)
(* payment until it is answered 2xx; other crons mark slips overdue and    *)
(* write to the debtors, once per slip by notification_log.                *)
(*                                                                         *)
(* A slip is identified by its idempotency key, client and half-month.     *)
(* One tenant; amounts are "positive" or "zero".                           *)
(***************************************************************************)
EXTENDS Integers, FiniteSets

CONSTANTS
    Lives, Clientes,
    ClienteDe,    \* the client of each live
    Fixo,         \* clients whose active contract has a monthly fee
    Instancias,   \* processes running the crons
    MaxPeriodo,   \* bound: half-months
    MaxQuedas,    \* bound: crashes, and failures around a notice
    Protecao,     \* WEBHOOK_REPLAY_PROTECTION
    Ninguem

ASSUME ClientesDasLives == ClienteDe \in [Lives -> Clientes] /\ Fixo \subseteq Clientes
ASSUME PeriodosNaturais == MaxPeriodo \in Nat \ {0} /\ MaxQuedas \in Nat
ASSUME NinguemFora == Ninguem \notin Instancias \cup Clientes \cup (Clientes \X Nat)
ASSUME InstanciasFinitas == IsFiniteSet(Instancias)

Periodos == 1..MaxPeriodo
Boletos == Clientes \X Periodos     \* idempotency_key

VARIABLES
    hoje,         \* the current half-month
    lives,        \* rows of lives
    boletos,      \* committed rows of boletos
    cobrancas,    \* charges the gateway holds, per key
    motor,        \* the billing transaction of each instance
    trava,        \* who holds the advisory lock
    rodou,        \* half-month of the last billing cron of each instance
    pagamento,    \* the gateway's report of each payment
    nonces,       \* webhook_replay_log
    carta,        \* the notice job of each instance
    registro,     \* successful rows of notification_log, tipo boleto_vencido
    enviadas,     \* notices that reached the client
    quedas        \* crashes, and failures around a notice, so far

varsDoMotor == <<lives, boletos, cobrancas, motor, trava, rodou>>
varsDasCartas == <<carta, registro, enviadas>>
varsDoPagamento == <<pagamento, nonces>>
varsCobranca == <<hoje, varsDoMotor, varsDasCartas, varsDoPagamento, quedas>>

----------------------------------------------------------------------------
LiveCobravel == [fase: {"aberta", "encerrada"},
                 periodo: 0..MaxPeriodo,         \* of encerrado_em
                 comissao: BOOLEAN,              \* comissao_calculada > 0
                 boleto: Boletos \cup {Ninguem}]
Boleto == [status: {"nao_ha", "pendente", "vencido", "pago"},
           gateway: {"nenhum", "erro", "cobrado"}]
Motor == [pc: {"parado", "esperando", "faturando", "cobrando"},
          lista: SUBSET Lives,        \* what the SELECT of the lives returned
          fila: SUBSET Clientes,      \* clients still to bill
          atual: Clientes \cup {Ninguem},
          novos: SUBSET Boletos,      \* inserted, not committed
          cobrados: SUBSET Boletos]   \* of those, charged with success
Carta == [pc: {"parada", "conferindo", "enviando", "registrando"},
          lista: SUBSET Boletos, alvo: Boletos \cup {Ninguem}]

SemBoleto == [status |-> "nao_ha", gateway |-> "nenhum"]
MotorParado == [pc |-> "parado", lista |-> {}, fila |-> {}, atual |-> Ninguem,
                novos |-> {}, cobrados |-> {}]
CartaParada == [pc |-> "parada", lista |-> {}, alvo |-> Ninguem]

CobrancaInit ==
    /\ hoje = 1
    /\ lives = [l \in Lives |-> [fase |-> "aberta", periodo |-> 0,
                                 comissao |-> FALSE, boleto |-> Ninguem]]
    /\ boletos = [k \in Boletos |-> SemBoleto]
    /\ cobrancas = [k \in Boletos |-> 0]
    /\ motor = [i \in Instancias |-> MotorParado]
    /\ trava = Ninguem
    /\ rodou = [i \in Instancias |-> 1]
    /\ pagamento = [k \in Boletos |-> "nenhum"]
    /\ nonces = {}
    /\ carta = [i \in Instancias |-> CartaParada]
    /\ registro = {}
    /\ enviadas = [k \in Boletos |-> 0]
    /\ quedas = 0

EmTransacao(i) == motor[i].pc \in {"faturando", "cobrando"}
BoletosDe(p) == Clientes \X {p}
LivesDe(i, c) == {l \in motor[i].lista : ClienteDe[l] = c}
\* Rows of lives locked by the UPDATE of a billing transaction.
Presa(l) == \E i \in Instancias, k \in Boletos :
                k \in motor[i].novos /\ l \in LivesDe(i, k[1])

----------------------------------------------------------------------------
(* The lives. *)

\* encerrar: the live ends now, with a commission that may be zero.
EncerrarCobravel(l) ==
    /\ lives[l].fase = "aberta"
    /\ \E v \in BOOLEAN :
        lives' = [lives EXCEPT ![l].fase = "encerrada", ![l].periodo = hoje,
                               ![l].comissao = v]
    /\ UNCHANGED <<hoje, boletos, cobrancas, motor, trava, rodou, varsDasCartas,
                   varsDoPagamento, quedas>>

\* PATCH of an ended live, billed or not: its date and its revenue change.
EditarCobravel(l) ==
    /\ lives[l].fase = "encerrada"
    /\ ~Presa(l)
    /\ \E v \in BOOLEAN, p \in 1..hoje :
        lives' = [lives EXCEPT ![l].periodo = p, ![l].comissao = v]
    /\ UNCHANGED <<hoje, boletos, cobrancas, motor, trava, rodou, varsDasCartas,
                   varsDoPagamento, quedas>>

\* The half-month ends.  No billing run and no notice job lasts that long.
VirarQuinzena ==
    /\ hoje < MaxPeriodo
    /\ \A i \in Instancias : motor[i] = MotorParado /\ carta[i] = CartaParada
    /\ hoje' = hoje + 1
    /\ UNCHANGED <<varsDoMotor, varsDasCartas, varsDoPagamento, quedas>>

----------------------------------------------------------------------------
(* The billing engine. *)

\* The cron of 02:00 fires, once per instance on the billing day, and tries
\* the advisory lock: another holder makes it give up.
Disparar(i) ==
    /\ rodou[i] < hoje
    /\ motor[i].pc = "parado"
    /\ rodou' = [rodou EXCEPT ![i] = hoje]
    /\ IF trava = Ninguem
         THEN trava' = i /\ motor' = [motor EXCEPT ![i].pc = "esperando"]
         ELSE UNCHANGED <<trava, motor>>
    /\ UNCHANGED <<hoje, lives, boletos, cobrancas, varsDasCartas, varsDoPagamento, quedas>>

\* Mutant of ACobrar: lives already billed are read again.
ACobrarDeNovo(p) == {l \in Lives : lives[l].fase = "encerrada" /\ lives[l].periodo = p}

\* Ended in the half-month, faturado_em IS NULL.
ACobrar(p) == {l \in Lives : /\ lives[l].fase = "encerrada"
                             /\ lives[l].periodo = p
                             /\ lives[l].boleto = Ninguem}

\* The monthly fee goes with the second half of a month.
ComFixo(p) == IF p % 2 = 0 THEN Fixo ELSE {}

\* BEGIN, the lives of the half-month that ended and the active contracts.
\* Clients whose total is zero are skipped, and their lives are not marked.
AbrirFatura(i) ==
    LET p == hoje - 1
        lista == ACobrar(p)
        devedores == {ClienteDe[l] : l \in {m \in lista : lives[m].comissao}}
    IN  /\ motor[i].pc = "esperando"
        /\ motor' = [motor EXCEPT ![i] = [MotorParado EXCEPT
                        !.pc = "faturando", !.lista = lista,
                        !.fila = devedores \cup ComFixo(p)]]
        /\ UNCHANGED <<hoje, lives, boletos, cobrancas, trava, rodou, varsDasCartas,
                       varsDoPagamento, quedas>>

\* Mutant of FaturarCliente: the lives are marked outside the transaction.
FaturarClienteJa(i) ==
    \E c \in motor[i].fila :
        /\ motor[i].pc = "faturando"
        /\ motor' = [motor EXCEPT ![i].fila = @ \ {c}, ![i].pc = "cobrando", ![i].atual = c,
                                  ![i].novos = @ \cup {<<c, hoje - 1>>}]
        /\ lives' = [l \in Lives |-> IF l \in LivesDe(i, c)
                        THEN [lives[l] EXCEPT !.boleto = <<c, hoje - 1>>] ELSE lives[l]]
        /\ UNCHANGED <<hoje, boletos, cobrancas, trava, rodou, varsDasCartas,
                       varsDoPagamento, quedas>>

\* INSERT ... ON CONFLICT DO NOTHING, then UPDATE of the lives of the client.
\* A client whose slip already exists is left alone.
FaturarCliente(i) ==
    \E c \in motor[i].fila :
        LET k == <<c, hoje - 1>>
            novo == boletos[k].status = "nao_ha"
        IN  /\ motor[i].pc = "faturando"
            /\ motor' = [motor EXCEPT
                    ![i].fila = @ \ {c},
                    ![i].pc = IF novo THEN "cobrando" ELSE "faturando",
                    ![i].atual = IF novo THEN c ELSE Ninguem,
                    ![i].novos = IF novo THEN @ \cup {k} ELSE @]
            /\ UNCHANGED <<hoje, lives, boletos, cobrancas, trava, rodou, varsDasCartas,
                           varsDoPagamento, quedas>>

\* Order and payment at the gateway: charged and answered; charged, but the
\* answer was an error or never came; refused.  The key is not sent along.
RespostasDoGateway == {<<1, TRUE>>, <<1, FALSE>>, <<0, FALSE>>}

\* The slip keeps the gateway's id or its error; the next client follows.
CobrarNoGateway(i) ==
    LET k == <<motor[i].atual, hoje - 1>>
    IN  /\ motor[i].pc = "cobrando"
        /\ \E r \in RespostasDoGateway :
            /\ cobrancas' = [cobrancas EXCEPT ![k] = @ + r[1]]
            /\ motor' = [motor EXCEPT
                    ![i].pc = "faturando", ![i].atual = Ninguem,
                    ![i].cobrados = IF r[2] THEN @ \cup {k} ELSE @]
        /\ UNCHANGED <<hoje, lives, boletos, trava, rodou, varsDasCartas,
                       varsDoPagamento, quedas>>

BoletoDaLive(i, l) == <<ClienteDe[l], hoje - 1>>

\* COMMIT, and the lock is released.
ConfirmarFatura(i) ==
    LET m == motor[i]
    IN  /\ m.pc = "faturando"
        /\ m.fila = {}
        /\ boletos' = [k \in Boletos |->
                IF k \in m.novos
                  THEN [status |-> "pendente",
                        gateway |-> IF k \in m.cobrados THEN "cobrado" ELSE "erro"]
                  ELSE boletos[k]]
        /\ lives' = [l \in Lives |->
                IF l \in m.lista /\ BoletoDaLive(i, l) \in m.novos
                  THEN [lives[l] EXCEPT !.boleto = BoletoDaLive(i, l)]
                  ELSE lives[l]]
        /\ motor' = [motor EXCEPT ![i] = MotorParado]
        /\ trava' = Ninguem
        /\ UNCHANGED <<hoje, cobrancas, rodou, varsDasCartas, varsDoPagamento, quedas>>

\* A query fails: ROLLBACK, and the run of the tenant ends.
DesfazerFatura(i) ==
    /\ EmTransacao(i)
    /\ motor' = [motor EXCEPT ![i] = MotorParado]
    /\ trava' = Ninguem
    /\ quedas < MaxQuedas
    /\ quedas' = quedas + 1
    /\ UNCHANGED <<hoje, lives, boletos, cobrancas, rodou, varsDasCartas, varsDoPagamento>>

\* The process dies: its transaction, its lock and its notice job are gone.
CairInstancia(i) ==
    /\ quedas < MaxQuedas
    /\ quedas' = quedas + 1
    /\ motor' = [motor EXCEPT ![i] = MotorParado]
    /\ trava' = IF trava = i THEN Ninguem ELSE trava
    /\ carta' = [carta EXCEPT ![i] = CartaParada]
    /\ UNCHANGED <<hoje, lives, boletos, cobrancas, rodou, registro, enviadas, varsDoPagamento>>

PassoDoMotor(i) == AbrirFatura(i) \/ FaturarCliente(i) \/ CobrarNoGateway(i) \/ ConfirmarFatura(i)

----------------------------------------------------------------------------
(* Payments. *)

\* The client pays a charge: the gateway will report it.
PagarCobranca(k) ==
    /\ cobrancas[k] > 0
    /\ pagamento[k] = "nenhum"
    /\ pagamento' = [pagamento EXCEPT ![k] = "a_avisar"]
    /\ UNCHANGED <<hoje, varsDoMotor, varsDasCartas, nonces, quedas>>

\* A report arrives, due or repeated.  With the protection on, one seen
\* before is answered 200 at once.
ReceberAviso(k) ==
    /\ pagamento[k] \in {"a_avisar", "avisado"}
    /\ IF Protecao /\ k \in nonces
         THEN pagamento' = [pagamento EXCEPT ![k] = "avisado"] /\ UNCHANGED nonces
         ELSE /\ pagamento' = [pagamento EXCEPT ![k] = "processando"]
              /\ nonces' = IF Protecao THEN nonces \cup {k} ELSE nonces
    /\ UNCHANGED <<hoje, varsDoMotor, varsDasCartas, quedas>>

\* Neither paid nor cancelled, and committed.
Pagavel(k) == boletos[k].status \in {"pendente", "vencido"}
MarcarPago(k) == [boletos EXCEPT ![k].status = IF Pagavel(k) THEN "pago" ELSE @]

\* A slip found by its gateway id, or by its own id, is paid; none is found
\* before the billing transaction commits.  200 in both cases.
ProcessarAviso(k) ==
    /\ pagamento[k] = "processando"
    /\ boletos' = MarcarPago(k)
    /\ pagamento' = [pagamento EXCEPT ![k] = "avisado"]
    /\ UNCHANGED <<hoje, lives, cobrancas, motor, trava, rodou, varsDasCartas, nonces, quedas>>

\* POST /v1/webhooks/pagamento, the other gateway's: one UPDATE of a slip not
\* yet paid; an unknown one is answered 404 and will be reported again.
ProcessarAvisoPagarme(k) ==
    /\ pagamento[k] = "processando"
    /\ boletos' = MarcarPago(k)
    /\ pagamento' = [pagamento EXCEPT ![k] =
            IF boletos[k].status = "nao_ha" THEN "a_avisar" ELSE "avisado"]
    /\ UNCHANGED <<hoje, lives, cobrancas, motor, trava, rodou, varsDasCartas, nonces, quedas>>

\* Mutant of FalharAviso: the error is answered 200.
FalharAvisoCalado(k) ==
    /\ pagamento[k] = "processando"
    /\ pagamento' = [pagamento EXCEPT ![k] = "avisado"]
    /\ quedas' = quedas
    /\ UNCHANGED <<hoje, varsDoMotor, varsDasCartas, nonces>>

\* A query fails: 500, and the gateway will report again.
FalharAviso(k) ==
    /\ pagamento[k] = "processando"
    /\ pagamento' = [pagamento EXCEPT ![k] = "a_avisar"]
    /\ quedas < MaxQuedas
    /\ quedas' = quedas + 1
    /\ UNCHANGED <<hoje, varsDoMotor, varsDasCartas, nonces>>

\* PATCH /v1/boletos/:id/pagar.
PagarManual(k) ==
    /\ Pagavel(k)
    /\ boletos' = MarcarPago(k)
    /\ UNCHANGED <<hoje, lives, cobrancas, motor, trava, rodou, varsDasCartas,
                   varsDoPagamento, quedas>>

----------------------------------------------------------------------------
(* Overdue slips. *)

\* Mutant of Vencidos: every slip past its date, whatever its status.
VencidosTodos(p) == {k \in Boletos : k[2] <= p /\ boletos[k].status # "nao_ha"}

\* status = 'pendente' AND vencimento < CURRENT_DATE.
Vencidos(p) == {k \in Boletos : k[2] <= p /\ boletos[k].status = "pendente"}

\* The cron of 01:00.  The slips of the last half-month fall due in the
\* middle of the current one.
MarcarVencidos ==
    /\ \E p \in {hoje - 1, hoje - 2} :
        /\ Vencidos(p) # {}
        /\ boletos' = [k \in Boletos |-> IF k \in Vencidos(p)
                         THEN [boletos[k] EXCEPT !.status = "vencido"] ELSE boletos[k]]
    /\ UNCHANGED <<hoje, lives, cobrancas, motor, trava, rodou, varsDasCartas,
                   varsDoPagamento, quedas>>

\* Mutant of JaEnviada: the log is not consulted.
JaEnviadaNunca(k) == FALSE

\* hasSent: a successful row for (tipo, ref_id).
JaEnviada(k) == k \in registro

\* The cron of 02:30: overdue slips without a successful row in the log.
IniciarCartas(i) ==
    LET lista == {k \in Boletos : boletos[k].status = "vencido" /\ ~JaEnviada(k)}
    IN  /\ carta[i].pc = "parada"
        /\ lista # {}
        /\ carta' = [carta EXCEPT ![i].pc = "conferindo", ![i].lista = lista]
        /\ UNCHANGED <<hoje, varsDoMotor, registro, enviadas, varsDoPagamento, quedas>>

Falha == quedas < MaxQuedas /\ quedas' = quedas + 1

\* notify with dedupe, for the next slip of the list.  A hasSent that fails
\* says "not sent".
ConferirCarta(i) ==
    /\ carta[i].pc = "conferindo"
    /\ \E k \in carta[i].lista, pula \in BOOLEAN :
        /\ pula => JaEnviada(k)
        /\ IF JaEnviada(k) /\ ~pula THEN Falha ELSE UNCHANGED quedas
        /\ carta' = [carta EXCEPT ![i].lista = @ \ {k},
                        ![i].pc = IF pula THEN "conferindo" ELSE "enviando",
                        ![i].alvo = IF pula THEN Ninguem ELSE k]
    /\ UNCHANGED <<hoje, varsDoMotor, registro, enviadas, varsDoPagamento>>

\* The provider takes the e-mail; or refuses it; or takes it and the call
\* fails.  A failed call is logged without enviado_em: as if never sent.
EnviarCarta(i) ==
    LET k == carta[i].alvo
        aceita == enviadas' = [enviadas EXCEPT ![k] = @ + 1]
        desiste == carta' = [carta EXCEPT ![i].pc = "conferindo", ![i].alvo = Ninguem]
    IN  /\ carta[i].pc = "enviando"
        /\ \/ aceita /\ carta' = [carta EXCEPT ![i].pc = "registrando"] /\ UNCHANGED quedas
           \/ desiste /\ UNCHANGED <<enviadas, quedas>>
           \/ aceita /\ desiste /\ Falha
        /\ UNCHANGED <<hoje, varsDoMotor, registro, varsDoPagamento>>

\* The row of notification_log; a failure to write it is only a warning.
RegistrarCarta(i) ==
    /\ carta[i].pc = "registrando"
    /\ carta' = [carta EXCEPT ![i].pc = "conferindo", ![i].alvo = Ninguem]
    /\ \/ registro' = registro \cup {carta[i].alvo} /\ UNCHANGED quedas
       \/ Falha /\ UNCHANGED registro
    /\ UNCHANGED <<hoje, varsDoMotor, enviadas, varsDoPagamento>>

TerminarCartas(i) ==
    /\ carta[i].pc = "conferindo"
    /\ carta[i].lista = {}
    /\ carta' = [carta EXCEPT ![i] = CartaParada]
    /\ UNCHANGED <<hoje, varsDoMotor, registro, enviadas, varsDoPagamento, quedas>>

PassoDaCarta(i) == \/ ConferirCarta(i) \/ EnviarCarta(i) \/ RegistrarCarta(i)
                   \/ TerminarCartas(i)

----------------------------------------------------------------------------
CobrancaNext ==
    \/ \E l \in Lives : EncerrarCobravel(l) \/ EditarCobravel(l)
    \/ VirarQuinzena
    \/ \E i \in Instancias :
        \/ Disparar(i) \/ PassoDoMotor(i) \/ DesfazerFatura(i) \/ CairInstancia(i)
        \/ IniciarCartas(i) \/ PassoDaCarta(i)
    \/ \E k \in Boletos :
        \/ PagarCobranca(k) \/ ReceberAviso(k) \/ ProcessarAviso(k)
        \/ ProcessarAvisoPagarme(k) \/ FalharAviso(k) \/ PagarManual(k)
    \/ MarcarVencidos

CobrancaSpec == CobrancaInit /\ [][CobrancaNext]_varsCobranca

\* The gateway reports a payment until it is answered 2xx, and the handler
\* answers.
AvisosChegam ==
    \A k \in Boletos :
        /\ WF_varsCobranca(pagamento[k] = "a_avisar" /\ ReceberAviso(k))
        /\ WF_varsCobranca(ProcessarAviso(k) \/ ProcessarAvisoPagarme(k) \/ FalharAviso(k))

----------------------------------------------------------------------------
CobrancaTypeOK ==
    /\ hoje \in Periodos
    /\ lives \in [Lives -> LiveCobravel]
    /\ boletos \in [Boletos -> Boleto]
    /\ cobrancas \in [Boletos -> Nat]
    /\ motor \in [Instancias -> Motor]
    /\ trava \in Instancias \cup {Ninguem}
    /\ rodou \in [Instancias -> Periodos]
    /\ pagamento \in [Boletos -> {"nenhum", "a_avisar", "processando", "avisado"}]
    /\ nonces \subseteq Boletos
    /\ carta \in [Instancias -> Carta]
    /\ registro \subseteq Boletos
    /\ enviadas \in [Boletos -> Nat]
    /\ quedas \in 0..MaxQuedas

\* A billed live belongs to a slip that exists, of its own client: a crash or
\* a ROLLBACK never leaves a live marked as billed without a slip.
FaturadoComBoleto ==
    \A l \in Lives : LET k == lives[l].boleto
                     IN  k # Ninguem => k[1] = ClienteDe[l] /\ boletos[k].status # "nao_ha"

\* The debtor of a slip gets one letter from each instance at most, and one
\* more for each failure: a crash, a letter taken whose answer was lost, a
\* row of the log not written, a log that could not be read.
AvisoNaoSeRepete ==
    \A k \in Boletos : enviadas[k] <= Cardinality(Instancias) + quedas

\* A live is billed once: neither a later run of the cron, on any instance,
\* nor an edition of its date, moves it to another slip.
LiveEmUmBoleto ==
    [][\A l \in Lives : lives[l].boleto # Ninguem
                            => lives'[l].boleto = lives[l].boleto]_varsCobranca

\* A paid slip stays paid, whatever cron, report or run comes afterwards.
PagoFicaPago ==
    [][\A k \in Boletos : boletos[k].status = "pago"
                              => boletos'[k].status = "pago"]_varsCobranca

\* Without the replay protection, a reported payment of a slip that was
\* committed reaches the slip, whatever fails on the way.
PagamentoRegistrado ==
    \A k \in Boletos : pagamento[k] = "a_avisar" /\ boletos[k].status # "nao_ha"
                           ~> boletos[k].status = "pago"

\* Claim of the repository that the code does not keep: the deterministic key
\* is there to 'impedir cobranca duplicada'.
CobrancaUnica == \A k \in Boletos : cobrancas[k] <= 1
=============================================================================
