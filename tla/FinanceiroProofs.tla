-------------------------- MODULE FinanceiroProofs --------------------------
(***************************************************************************)
(* Proofs about billing and contracts, for every set of lives, clients,    *)
(* server instances and contracts and for all bounds.                      *)
(*                                                                         *)
(* Billing.  Everything rests on the advisory lock: an instance that is    *)
(* not idle holds it, so what its transaction read (no slip of this key,   *)
(* this live not billed) is still true when it commits (CobrancaInv).  The *)
(* notices are not under a lock; their bound is a count of the instances   *)
(* between the log they read and the row they write (CartasContadas).      *)
(*                                                                         *)
(* Contracts.  A decision of the audit or of the job is the last event of  *)
(* the contract that shows it.                                             *)
(***************************************************************************)
EXTENDS MCFinanceiro, FiniteSetTheorems, TLAPS

----------------------------------------------------------------------------
(* Billing. *)

\* Only the holder of the lock bills, and only a half-month that ended.
UmMotor == \A i \in Instancias : motor[i].pc # "parado" => trava = i /\ hoje > 1

MotorCoerente ==
    \A i \in Instancias :
        /\ motor[i].pc \in {"parado", "esperando"} => motor[i].novos = {} /\ motor[i].lista = {}
        /\ motor[i].pc = "cobrando" => motor[i].atual \in Clientes

\* What a transaction read is still so: its slips are not there, its lives are
\* not billed.
NadaFeitoAntes ==
    \A i \in Instancias :
        /\ \A k \in motor[i].novos : boletos[k].status = "nao_ha"
        /\ \A l \in motor[i].lista : lives[l].boleto = Ninguem

\* Instances between the log they read and the row they write, for a slip.
Enviando(k) == {i \in Instancias : carta[i].pc = "enviando" /\ carta[i].alvo = k}
Registrando(k) == {i \in Instancias : carta[i].pc = "registrando" /\ carta[i].alvo = k}
NumEnviando(k) == Cardinality(Enviando(k))
NumRegistrando(k) == Cardinality(Registrando(k))

AlvosCertos ==
    \A i \in Instancias : carta[i].pc \in {"enviando", "registrando"} => carta[i].alvo \in Boletos

\* Before the first row of a slip each letter has its sender on the way to the
\* log, or one that fell; after it no instance starts a letter.
ContaCerta(k) ==
    IF k \in registro
      THEN enviadas[k] + NumEnviando(k) <= Cardinality(Instancias) + quedas
      ELSE enviadas[k] <= NumRegistrando(k) + quedas
CartasContadas == \A k \in Boletos : ContaCerta(k)

MotorInv == UmMotor /\ MotorCoerente /\ NadaFeitoAntes /\ FaturadoComBoleto
CartaInv == AlvosCertos /\ CartasContadas
CobrancaInv == CobrancaTypeOK /\ MotorInv /\ CartaInv

LEMMA NinguemNaoE ==
    /\ Ninguem \notin Instancias /\ Ninguem \notin Clientes /\ Ninguem \notin Boletos
    /\ \A k \in Boletos : k[1] \in Clientes /\ k[2] \in Periodos /\ k = <<k[1], k[2]>>
    /\ \A c \in Clientes, p \in Periodos : <<c, p>> \in Boletos
BY NinguemFora, PeriodosNaturais DEF Boletos, Periodos

LEMMA Parados ==
    /\ MotorParado \in Motor /\ MotorParado.pc = "parado"
    /\ MotorParado.novos = {} /\ MotorParado.lista = {}
    /\ CartaParada \in Carta /\ CartaParada.pc = "parada"
    /\ SemBoleto \in Boleto
BY DEF MotorParado, Motor, CartaParada, Carta, SemBoleto, Boleto

LEMMA CobrancaInicial == CobrancaInit => CobrancaInv
<1> SUFFICES ASSUME CobrancaInit PROVE CobrancaInv
    OBVIOUS
<1> USE PeriodosNaturais DEF CobrancaInit
<1>1. lives \in [Lives -> LiveCobravel] /\ \A l \in Lives : lives[l].boleto = Ninguem
    BY DEF LiveCobravel
<1>2. CobrancaTypeOK
    <2>1. 1 \in Periodos /\ 0 \in 0..MaxQuedas BY DEF Periodos
    <2> QED BY <1>1, <2>1, Parados DEF CobrancaTypeOK
<1>3. MotorInv
    BY <1>1, Parados DEF MotorInv, UmMotor, MotorCoerente, NadaFeitoAntes, FaturadoComBoleto
<1>4. AlvosCertos BY Parados DEF AlvosCertos
<1>5. ASSUME NEW k \in Boletos PROVE ContaCerta(k)
    <2>1. Registrando(k) = {} BY Parados DEF Registrando
    <2>2. NumRegistrando(k) = 0 BY <2>1, FS_EmptySet DEF NumRegistrando
    <2> QED BY <1>5, <2>2 DEF ContaCerta
<1> QED BY <1>2, <1>3, <1>4, <1>5 DEF CobrancaInv, CartaInv, CartasContadas

\* What a step may never do to lives and slips.
FicaOndeEsta == \A l \in Lives : lives[l].boleto # Ninguem => lives'[l].boleto = lives[l].boleto
FicaPago == \A k \in Boletos : boletos[k].status = "pago" => boletos'[k].status = "pago"

\* Those parts of the billing invariant that do not change are kept.
LEMMA SoCartas ==
    ASSUME MotorInv, UNCHANGED <<hoje, varsDoMotor>>
    PROVE  MotorInv' /\ FicaOndeEsta /\ FicaPago
BY DEF MotorInv, varsDoMotor, UmMotor, MotorCoerente, NadaFeitoAntes, FaturadoComBoleto,
    FicaOndeEsta, FicaPago

\* Cardinalities of the counts.
LEMMA ContasFinitas ==
    ASSUME NEW S \in SUBSET Instancias
    PROVE  IsFiniteSet(S) /\ Cardinality(S) \in Nat /\ Cardinality(S) <= Cardinality(Instancias)
BY InstanciasFinitas, FS_Subset, FS_CardinalityType

LEMMA ContaUm ==
    ASSUME NEW S \in SUBSET Instancias, NEW i \in Instancias
    PROVE  /\ Cardinality(S \ {i}) = IF i \in S THEN Cardinality(S) - 1 ELSE Cardinality(S)
           /\ Cardinality(S \cup {i}) = IF i \in S THEN Cardinality(S) ELSE Cardinality(S) + 1
           /\ Cardinality(S) \in Nat
BY ContasFinitas, FS_RemoveElement, FS_AddElement

\* An instance is at one point of one letter.
LEMMA Separadas ==
    ASSUME NEW k
    PROVE  NumEnviando(k) + NumRegistrando(k) <= Cardinality(Instancias)
<1> DEFINE E == Enviando(k)
           R == Registrando(k)
<1>1. E \in SUBSET Instancias /\ R \in SUBSET Instancias /\ E \cap R = {}
    BY DEF Enviando, Registrando
<1> HIDE DEF E, R
<1>2. IsFiniteSet(E) /\ IsFiniteSet(R) /\ Cardinality(E) \in Nat /\ Cardinality(R) \in Nat
    BY <1>1, ContasFinitas
<1>3. Cardinality(E \cup R) = Cardinality(E) + Cardinality(R) - Cardinality(E \cap R)
    BY <1>2, FS_Union
<1>4. Cardinality(E \cap R) = 0 BY <1>1, FS_EmptySet
<1>5. Cardinality(E \cup R) <= Cardinality(Instancias)
    <2>1. E \cup R \in SUBSET Instancias BY <1>1
    <2> QED BY <2>1, ContasFinitas
<1>6. Cardinality(E) + Cardinality(R) <= Cardinality(Instancias)
    BY <1>2, <1>3, <1>4, <1>5
<1> QED BY <1>6 DEF E, R, NumEnviando, NumRegistrando

\* The numbers of one slip.
LEMMA Numeros ==
    ASSUME CobrancaTypeOK, NEW k \in Boletos
    PROVE  /\ NumEnviando(k) \in Nat /\ NumRegistrando(k) \in Nat
           /\ enviadas[k] \in Nat /\ quedas \in Nat /\ Cardinality(Instancias) \in Nat
           /\ NumEnviando(k) + NumRegistrando(k) <= Cardinality(Instancias)
<1>1. Enviando(k) \in SUBSET Instancias /\ Registrando(k) \in SUBSET Instancias
    BY DEF Enviando, Registrando
<1>2. enviadas[k] \in Nat /\ quedas \in Nat BY DEF CobrancaTypeOK
<1>3. Cardinality(Instancias) \in Nat BY InstanciasFinitas, FS_CardinalityType
<1> QED BY <1>1, <1>2, <1>3, ContasFinitas, Separadas DEF NumEnviando, NumRegistrando

\* The counts only loosen with a crash.
LEMMA SoQuedas ==
    ASSUME CobrancaTypeOK, CartaInv, UNCHANGED <<carta, registro, enviadas>>,
           quedas <= quedas', quedas' \in Int
    PROVE  CartaInv'
<1>1. ASSUME NEW k
      PROVE  NumEnviando(k)' = NumEnviando(k) /\ NumRegistrando(k)' = NumRegistrando(k)
    <2>1. Enviando(k)' = Enviando(k) /\ Registrando(k)' = Registrando(k)
        BY DEF Enviando, Registrando
    <2> QED BY <2>1 DEF NumEnviando, NumRegistrando
<1>2. AlvosCertos' BY DEF AlvosCertos, CartaInv
<1>3. ASSUME NEW k \in Boletos PROVE ContaCerta(k)'
    <2>1. /\ NumEnviando(k) \in Nat /\ NumRegistrando(k) \in Nat /\ Cardinality(Instancias) \in Nat
          /\ enviadas[k] \in Nat /\ quedas \in Nat
        BY Numeros
    <2> QED BY <1>1, <2>1 DEF ContaCerta, CartaInv, CartasContadas
<1> QED BY <1>2, <1>3 DEF CartaInv, CartasContadas

\* A step that leaves the transactions and the lives' slips alone, and writes
\* slips that exist without making them disappear.
LEMMA SoSituacao ==
    ASSUME MotorInv, UNCHANGED <<hoje, motor, trava>>,
           \A l \in Lives : lives'[l].boleto = lives[l].boleto,
           \A k \in Boletos : (boletos'[k].status = "nao_ha") <=> (boletos[k].status = "nao_ha"),
           CobrancaTypeOK
    PROVE  MotorInv'
<1>1. UmMotor' /\ MotorCoerente' BY DEF MotorInv, UmMotor, MotorCoerente
<1>2. \A i \in Instancias : motor[i].novos \subseteq Boletos /\ motor[i].lista \subseteq Lives
    BY DEF CobrancaTypeOK, Motor
<1>3. NadaFeitoAntes' BY <1>2 DEF MotorInv, NadaFeitoAntes
<1>4. \A l \in Lives : lives[l].boleto \in Boletos \cup {Ninguem}
    BY DEF CobrancaTypeOK, LiveCobravel
<1>5. FaturadoComBoleto' BY <1>4 DEF MotorInv, FaturadoComBoleto
<1> QED BY <1>1, <1>3, <1>5 DEF MotorInv

----------------------------------------------------------------------------
(* Lives and days. *)

LEMMA PassoDasLives ==
    ASSUME CobrancaTypeOK, MotorInv, NEW l \in Lives, EncerrarCobravel(l) \/ EditarCobravel(l)
    PROVE  CobrancaTypeOK' /\ MotorInv' /\ FicaOndeEsta /\ FicaPago
<1> USE PeriodosNaturais
<1>1. UNCHANGED <<hoje, boletos, cobrancas, motor, trava, rodou, varsDasCartas,
                  varsDoPagamento, quedas>>
    BY DEF EncerrarCobravel, EditarCobravel
<1>2. PICK e \in LiveCobravel : lives' = [lives EXCEPT ![l] = e] /\ e.boleto = lives[l].boleto
    <2>1. lives[l] \in LiveCobravel /\ lives \in [Lives -> LiveCobravel] /\ hoje \in Periodos
        BY DEF CobrancaTypeOK
    <2>0. hoje \in 0..MaxPeriodo /\ \A p \in 1..hoje : p \in 0..MaxPeriodo
        BY <2>1 DEF Periodos
    <2>2. CASE EncerrarCobravel(l)
        <3>1. PICK v \in BOOLEAN :
                lives' = [lives EXCEPT ![l].fase = "encerrada", ![l].periodo = hoje,
                                       ![l].comissao = v]
            BY <2>2 DEF EncerrarCobravel
        <3> DEFINE e == [lives[l] EXCEPT !.fase = "encerrada", !.periodo = hoje, !.comissao = v]
        <3>2. lives' = [lives EXCEPT ![l] = e] BY <2>1, <3>1 DEF LiveCobravel
        <3>3. e \in LiveCobravel /\ e.boleto = lives[l].boleto
            BY <2>0, <2>1 DEF LiveCobravel
        <3> HIDE DEF e
        <3> QED BY <3>2, <3>3
    <2>3. CASE EditarCobravel(l)
        <3>1. PICK v \in BOOLEAN, p \in 1..hoje :
                lives' = [lives EXCEPT ![l].periodo = p, ![l].comissao = v]
            BY <2>3 DEF EditarCobravel
        <3> DEFINE e == [lives[l] EXCEPT !.periodo = p, !.comissao = v]
        <3>2. lives' = [lives EXCEPT ![l] = e] BY <2>1, <3>1 DEF LiveCobravel
        <3>3. e \in LiveCobravel /\ e.boleto = lives[l].boleto
            BY <2>0, <2>1 DEF LiveCobravel
        <3> HIDE DEF e
        <3> QED BY <3>2, <3>3
    <2> QED BY <2>2, <2>3
<1>3. lives' \in [Lives -> LiveCobravel] /\ \A m \in Lives : lives'[m].boleto = lives[m].boleto
    BY <1>2 DEF CobrancaTypeOK
<1>4. CobrancaTypeOK'
    BY <1>1, <1>3 DEF CobrancaTypeOK, varsDasCartas, varsDoPagamento
<1>5. MotorInv' BY <1>1, <1>3, SoSituacao
<1> QED BY <1>1, <1>3, <1>4, <1>5 DEF FicaOndeEsta, FicaPago

LEMMA PassoDaQuinzena ==
    ASSUME CobrancaTypeOK, MotorInv, VirarQuinzena
    PROVE  CobrancaTypeOK' /\ MotorInv' /\ FicaOndeEsta /\ FicaPago
<1>1. /\ hoje' \in Periodos
      /\ UNCHANGED <<varsDoMotor, varsDasCartas, varsDoPagamento, quedas>>
      /\ \A i \in Instancias : motor[i].pc = "parado"
    BY PeriodosNaturais, Parados DEF VirarQuinzena, CobrancaTypeOK, Periodos
<1>2. CobrancaTypeOK'
    BY <1>1 DEF CobrancaTypeOK, varsDoMotor, varsDasCartas, varsDoPagamento
<1>3. MotorInv'
    BY <1>1 DEF MotorInv, varsDoMotor, UmMotor, MotorCoerente, NadaFeitoAntes, FaturadoComBoleto
<1> QED BY <1>1, <1>2, <1>3 DEF FicaOndeEsta, FicaPago, varsDoMotor

----------------------------------------------------------------------------
(* The billing engine. *)

\* One instance moves on, holding the lock, and nothing is committed.
LEMMA SoUmMotor ==
    ASSUME CobrancaTypeOK, MotorInv, NEW i \in Instancias, NEW m \in Motor,
           motor' = [motor EXCEPT ![i] = m], trava' = i, trava \in {i, Ninguem}, hoje > 1,
           UNCHANGED <<hoje, lives, boletos, varsDasCartas, varsDoPagamento, quedas>>,
           cobrancas' \in [Boletos -> Nat], rodou' \in [Instancias -> Periodos],
           m.pc \in {"parado", "esperando"} => m.novos = {} /\ m.lista = {},
           m.pc = "cobrando" => m.atual \in Clientes,
           \A k \in m.novos : boletos[k].status = "nao_ha",
           \A l \in m.lista : lives[l].boleto = Ninguem
    PROVE  CobrancaTypeOK' /\ MotorInv' /\ FicaOndeEsta /\ FicaPago
<1>1. /\ motor' \in [Instancias -> Motor] /\ motor'[i] = m
      /\ \A j \in Instancias \ {i} : motor'[j] = motor[j] /\ motor[j].pc = "parado"
    BY NinguemNaoE DEF CobrancaTypeOK, MotorInv, UmMotor
<1>2. CobrancaTypeOK'
    BY <1>1 DEF CobrancaTypeOK, varsDasCartas, varsDoPagamento
<1>3. UmMotor' BY <1>1 DEF UmMotor
<1>4. MotorCoerente' BY <1>1 DEF MotorInv, MotorCoerente
<1>5. NadaFeitoAntes' BY <1>1 DEF MotorInv, NadaFeitoAntes
<1>6. FaturadoComBoleto' BY DEF MotorInv, FaturadoComBoleto
<1> QED BY <1>2, <1>3, <1>4, <1>5, <1>6 DEF MotorInv, FicaOndeEsta, FicaPago

\* One instance stops, and nothing is committed.
LEMMA SoParaMotor ==
    ASSUME CobrancaTypeOK, MotorInv, NEW i \in Instancias,
           motor' = [motor EXCEPT ![i] = MotorParado],
           trava' = IF trava = i THEN Ninguem ELSE trava,
           UNCHANGED <<hoje, lives, boletos>>
    PROVE  MotorInv' /\ FicaOndeEsta /\ FicaPago
           /\ motor' \in [Instancias -> Motor] /\ trava' \in Instancias \cup {Ninguem}
<1>1. /\ motor' \in [Instancias -> Motor] /\ motor'[i] = MotorParado
      /\ \A j \in Instancias \ {i} : motor'[j] = motor[j]
    BY Parados DEF CobrancaTypeOK
<1>2. UmMotor' BY <1>1, Parados DEF MotorInv, UmMotor
<1>3. MotorCoerente' BY <1>1, Parados DEF MotorInv, MotorCoerente
<1>4. NadaFeitoAntes' BY <1>1, Parados DEF MotorInv, NadaFeitoAntes
<1>5. FaturadoComBoleto' BY DEF MotorInv, FaturadoComBoleto
<1>6. trava' \in Instancias \cup {Ninguem} BY DEF CobrancaTypeOK
<1> QED BY <1>1, <1>2, <1>3, <1>4, <1>5, <1>6 DEF MotorInv, FicaOndeEsta, FicaPago

\* COMMIT: no other instance is at work, so the slips it writes were not there
\* and the lives it marks were not billed.
LEMMA PassoConfirmar ==
    ASSUME CobrancaTypeOK, MotorInv, NEW i \in Instancias, ConfirmarFatura(i)
    PROVE  CobrancaTypeOK' /\ MotorInv' /\ FicaOndeEsta /\ FicaPago
<1> USE NinguemNaoE
<1>0. /\ motor[i] \in Motor /\ motor[i].pc = "faturando" /\ trava = i /\ hoje > 1
      /\ motor[i].novos \subseteq Boletos /\ motor[i].lista \subseteq Lives
      /\ hoje \in Periodos /\ hoje - 1 \in Periodos
    <2>1. motor[i] \in Motor /\ motor[i].pc = "faturando" /\ hoje \in Periodos
        BY DEF ConfirmarFatura, CobrancaTypeOK
    <2>2. trava = i /\ hoje > 1 BY <2>1 DEF MotorInv, UmMotor
    <2>3. hoje - 1 \in Periodos BY <2>1, <2>2, PeriodosNaturais DEF Periodos
    <2> QED BY <2>1, <2>2, <2>3 DEF Motor
<1>1. /\ motor' = [motor EXCEPT ![i] = MotorParado] /\ trava' = Ninguem
      /\ UNCHANGED <<hoje, cobrancas, rodou, varsDasCartas, varsDoPagamento, quedas>>
    BY DEF ConfirmarFatura
<1>2. /\ motor' \in [Instancias -> Motor]
      /\ \A j \in Instancias : motor'[j].pc = "parado" /\ motor'[j].novos = {}
                               /\ motor'[j].lista = {}
    <2>1. \A j \in Instancias \ {i} : motor[j].pc = "parado"
        BY <1>0 DEF MotorInv, UmMotor
    <2>2. \A j \in Instancias \ {i} : motor'[j] = motor[j] /\ motor[j].novos = {}
                                      /\ motor[j].lista = {}
        BY <1>1, <2>1 DEF MotorInv, MotorCoerente, CobrancaTypeOK
    <2>3. motor' \in [Instancias -> Motor] /\ motor'[i] = MotorParado
        BY <1>1, Parados DEF CobrancaTypeOK
    <2> QED BY <2>1, <2>2, <2>3, Parados
<1>3. \A l \in Lives : BoletoDaLive(i, l) \in Boletos /\ BoletoDaLive(i, l)[1] = ClienteDe[l]
    BY <1>0, ClientesDasLives DEF BoletoDaLive
<1>4. /\ boletos' \in [Boletos -> Boleto]
      /\ \A k \in Boletos :
            /\ k \in motor[i].novos => boletos'[k].status = "pendente"
            /\ k \notin motor[i].novos => boletos'[k] = boletos[k]
    <2>1. boletos' = [k \in Boletos |->
                IF k \in motor[i].novos
                  THEN [status |-> "pendente",
                        gateway |-> IF k \in motor[i].cobrados THEN "cobrado" ELSE "erro"]
                  ELSE boletos[k]]
        BY DEF ConfirmarFatura
    <2>2. \A k \in Boletos :
            [status |-> "pendente", gateway |-> IF k \in motor[i].cobrados THEN "cobrado" ELSE "erro"]
                \in Boleto
        BY DEF Boleto
    <2> QED BY <2>1, <2>2 DEF CobrancaTypeOK
<1>5. /\ lives' \in [Lives -> LiveCobravel]
      /\ \A l \in Lives :
            IF l \in motor[i].lista /\ BoletoDaLive(i, l) \in motor[i].novos
              THEN lives'[l].boleto = BoletoDaLive(i, l) ELSE lives'[l] = lives[l]
    <2>1. lives' = [l \in Lives |->
                IF l \in motor[i].lista /\ BoletoDaLive(i, l) \in motor[i].novos
                  THEN [lives[l] EXCEPT !.boleto = BoletoDaLive(i, l)] ELSE lives[l]]
        BY DEF ConfirmarFatura
    <2>2. \A l \in Lives : /\ [lives[l] EXCEPT !.boleto = BoletoDaLive(i, l)] \in LiveCobravel
                           /\ [lives[l] EXCEPT !.boleto = BoletoDaLive(i, l)].boleto
                                = BoletoDaLive(i, l)
        BY <1>3 DEF CobrancaTypeOK, LiveCobravel
    <2> QED BY <2>1, <2>2 DEF CobrancaTypeOK
<1>6. CobrancaTypeOK'
    BY <1>1, <1>2, <1>4, <1>5 DEF CobrancaTypeOK, varsDasCartas, varsDoPagamento
<1>7. UmMotor' /\ MotorCoerente' /\ NadaFeitoAntes'
    BY <1>2 DEF UmMotor, MotorCoerente, NadaFeitoAntes
<1>8. FaturadoComBoleto'
    <2> SUFFICES ASSUME NEW l \in Lives, lives'[l].boleto # Ninguem
                 PROVE  /\ lives'[l].boleto[1] = ClienteDe[l]
                        /\ boletos'[lives'[l].boleto].status # "nao_ha"
        BY DEF FaturadoComBoleto
    <2>1. CASE l \in motor[i].lista /\ BoletoDaLive(i, l) \in motor[i].novos
        BY <1>3, <1>4, <1>5, <2>1
    <2>2. CASE lives'[l] = lives[l]
        <3>1. lives[l].boleto \in Boletos /\ lives[l].boleto[1] = ClienteDe[l]
              /\ boletos[lives[l].boleto].status # "nao_ha"
            BY <2>2 DEF MotorInv, FaturadoComBoleto, CobrancaTypeOK, LiveCobravel
        <3> QED BY <1>4, <2>2, <3>1
    <2> QED BY <1>5, <2>1, <2>2
<1>9. FicaOndeEsta
    BY <1>5 DEF FicaOndeEsta, MotorInv, NadaFeitoAntes
<1>10. FicaPago
    BY <1>4 DEF FicaPago, MotorInv, NadaFeitoAntes
<1> QED BY <1>6, <1>7, <1>8, <1>9, <1>10 DEF MotorInv

LEMMA PassoDaFatura ==
    ASSUME CobrancaTypeOK, MotorInv, NEW i \in Instancias, Disparar(i) \/ PassoDoMotor(i)
    PROVE  CobrancaTypeOK' /\ MotorInv' /\ FicaOndeEsta /\ FicaPago
<1> USE NinguemNaoE
<1>0. /\ motor[i] \in Motor /\ motor \in [Instancias -> Motor] /\ hoje \in Periodos
      /\ cobrancas \in [Boletos -> Nat] /\ rodou \in [Instancias -> Periodos]
      /\ motor[i].pc # "parado" => trava = i /\ hoje > 1 /\ hoje - 1 \in Periodos
      /\ motor[i].pc \in {"parado", "esperando"} => motor[i].novos = {} /\ motor[i].lista = {}
      /\ \A k \in motor[i].novos : boletos[k].status = "nao_ha"
      /\ \A l \in motor[i].lista : lives[l].boleto = Ninguem
    <2>1. /\ motor[i] \in Motor /\ motor \in [Instancias -> Motor] /\ hoje \in Periodos
          /\ cobrancas \in [Boletos -> Nat] /\ rodou \in [Instancias -> Periodos]
        BY DEF CobrancaTypeOK
    <2>2. motor[i].pc # "parado" => trava = i /\ hoje > 1 BY DEF MotorInv, UmMotor
    <2>3. hoje > 1 => hoje - 1 \in Periodos BY <2>1, PeriodosNaturais DEF Periodos
    <2>4. motor[i].pc \in {"parado", "esperando"} => motor[i].novos = {} /\ motor[i].lista = {}
        BY DEF MotorInv, MotorCoerente
    <2>5. /\ \A k \in motor[i].novos : boletos[k].status = "nao_ha"
          /\ \A l \in motor[i].lista : lives[l].boleto = Ninguem
        BY DEF MotorInv, NadaFeitoAntes
    <2> QED BY <2>1, <2>2, <2>3, <2>4, <2>5
<1>1. CASE Disparar(i)
    <2>1. /\ rodou' \in [Instancias -> Periodos] /\ hoje > 1 /\ motor[i].pc = "parado"
          /\ UNCHANGED <<hoje, lives, boletos, cobrancas, varsDasCartas, varsDoPagamento, quedas>>
        BY <1>0, <1>1, PeriodosNaturais DEF Disparar, Periodos
    <2>2. CASE trava = Ninguem
        <3> DEFINE m == [motor[i] EXCEPT !.pc = "esperando"]
        <3>1. motor' = [motor EXCEPT ![i] = m] /\ trava' = i
            BY <1>0, <1>1, <2>2 DEF Disparar
        <3>2. m \in Motor /\ m.pc = "esperando" /\ m.novos = {} /\ m.lista = {}
            BY <1>0, <2>1 DEF Motor
        <3> HIDE DEF m
        <3> QED BY <1>0, <2>1, <2>2, <3>1, <3>2, SoUmMotor
    <2>3. CASE trava # Ninguem
        <3>1. UNCHANGED <<motor, trava>> BY <1>1, <2>3 DEF Disparar
        <3>2. CobrancaTypeOK' BY <2>1, <3>1 DEF CobrancaTypeOK, varsDasCartas, varsDoPagamento
        <3>3. MotorInv' BY <2>1, <3>1, SoSituacao
        <3> QED BY <2>1, <3>2, <3>3 DEF FicaOndeEsta, FicaPago
    <2> QED BY <2>2, <2>3
<1>2. CASE AbrirFatura(i)
    <2> DEFINE lista == ACobrar(hoje - 1)
               fila == {ClienteDe[l] : l \in {n \in lista : lives[n].comissao}}
                            \cup ComFixo(hoje - 1)
               m == [MotorParado EXCEPT !.pc = "faturando", !.lista = lista, !.fila = fila]
    <2>1. /\ motor[i].pc = "esperando" /\ motor' = [motor EXCEPT ![i] = m]
          /\ UNCHANGED <<hoje, lives, boletos, cobrancas, trava, rodou, varsDasCartas,
                         varsDoPagamento, quedas>>
        BY <1>2 DEF AbrirFatura
    <2>2. lista \subseteq Lives /\ \A l \in lista : lives[l].boleto = Ninguem
        BY DEF ACobrar
    <2>3. fila \subseteq Clientes BY <2>2, ClientesDasLives DEF ComFixo
    <2> HIDE DEF lista, fila
    <2>4. m \in Motor /\ m.pc = "faturando" /\ m.novos = {} /\ m.lista = lista
        BY <2>2, <2>3 DEF Motor, MotorParado
    <2> HIDE DEF m
    <2> QED BY <1>0, <2>1, <2>2, <2>4, SoUmMotor
<1>3. CASE FaturarCliente(i)
    <2>1. PICK c \in motor[i].fila :
            LET k == <<c, hoje - 1>>
                novo == boletos[k].status = "nao_ha"
            IN  /\ motor[i].pc = "faturando"
                /\ motor' = [motor EXCEPT
                        ![i].fila = @ \ {c},
                        ![i].pc = IF novo THEN "cobrando" ELSE "faturando",
                        ![i].atual = IF novo THEN c ELSE Ninguem,
                        ![i].novos = IF novo THEN @ \cup {k} ELSE @]
                /\ UNCHANGED <<hoje, lives, boletos, cobrancas, trava, rodou, varsDasCartas,
                               varsDoPagamento, quedas>>
        BY <1>3 DEF FaturarCliente
    <2>2. c \in Clientes /\ <<c, hoje - 1>> \in Boletos
        BY <1>0, <2>1 DEF Motor
    <2>0. /\ trava = i /\ hoje > 1
          /\ UNCHANGED <<hoje, lives, boletos, cobrancas, trava, rodou, varsDasCartas,
                         varsDoPagamento, quedas>>
        BY <1>0, <2>1
    <2>3. CASE boletos[<<c, hoje - 1>>].status = "nao_ha"
        <3> DEFINE m == [motor[i] EXCEPT !.fila = @ \ {c}, !.pc = "cobrando", !.atual = c,
                                         !.novos = @ \cup {<<c, hoje - 1>>}]
        <3>1. motor' = [motor EXCEPT ![i] = m] BY <1>0, <2>1, <2>3
        <3>2. m \in Motor /\ m.pc = "cobrando" /\ m.novos = motor[i].novos \cup {<<c, hoje - 1>>}
              /\ m.lista = motor[i].lista /\ m.atual = c
            BY <1>0, <2>2 DEF Motor
        <3> HIDE DEF m
        <3>3. \A k \in m.novos : boletos[k].status = "nao_ha" BY <1>0, <2>3, <3>2
        <3> QED BY <1>0, <2>0, <2>2, <3>1, <3>2, <3>3, SoUmMotor
    <2>4. CASE boletos[<<c, hoje - 1>>].status # "nao_ha"
        <3> DEFINE m == [motor[i] EXCEPT !.fila = @ \ {c}, !.pc = "faturando", !.atual = Ninguem,
                                         !.novos = @]
        <3>1. motor' = [motor EXCEPT ![i] = m] BY <1>0, <2>1, <2>4
        <3>2. m \in Motor /\ m.pc = "faturando" /\ m.novos = motor[i].novos
              /\ m.lista = motor[i].lista
            BY <1>0, <2>2 DEF Motor
        <3> HIDE DEF m
        <3> QED BY <1>0, <2>0, <3>1, <3>2, SoUmMotor
    <2> QED BY <2>3, <2>4
<1>4. CASE CobrarNoGateway(i)
    <2> DEFINE k == <<motor[i].atual, hoje - 1>>
    <2>1. PICK r \in RespostasDoGateway :
            /\ cobrancas' = [cobrancas EXCEPT ![k] = @ + r[1]]
            /\ motor' = [motor EXCEPT ![i].pc = "faturando", ![i].atual = Ninguem,
                                      ![i].cobrados = IF r[2] THEN @ \cup {k} ELSE @]
        BY <1>4 DEF CobrarNoGateway
    <2>2. /\ motor[i].pc = "cobrando"
          /\ UNCHANGED <<hoje, lives, boletos, trava, rodou, varsDasCartas, varsDoPagamento, quedas>>
        BY <1>4 DEF CobrarNoGateway
    <2>3. k \in Boletos BY <1>0, <2>2 DEF MotorInv, MotorCoerente
    <2> HIDE DEF k
    <2>4. r[1] \in Nat
        <3>1. r = <<1, TRUE>> \/ r = <<1, FALSE>> \/ r = <<0, FALSE>>
            BY <2>1 DEF RespostasDoGateway
        <3>2. \A x, y : <<x, y>>[1] = x OBVIOUS
        <3>3. r[1] = 1 \/ r[1] = 0 BY <3>1, <3>2, Zenon
        <3> QED BY <3>3
    <2>5. cobrancas' \in [Boletos -> Nat] BY <1>0, <2>1, <2>3, <2>4
    <2> DEFINE cob == IF r[2] THEN motor[i].cobrados \cup {k} ELSE motor[i].cobrados
               m == [motor[i] EXCEPT !.pc = "faturando", !.atual = Ninguem, !.cobrados = cob]
    <2>6. cob \subseteq Boletos BY <1>0, <2>3 DEF Motor
    <2>7. motor' = [motor EXCEPT ![i] = m] BY <1>0, <2>1
    <2> HIDE DEF cob
    <2>8. m \in Motor /\ m.pc = "faturando" /\ m.novos = motor[i].novos
          /\ m.lista = motor[i].lista
        BY <1>0, <2>6 DEF Motor
    <2> HIDE DEF m
    <2> QED BY <1>0, <2>2, <2>5, <2>7, <2>8, SoUmMotor
<1>5. CASE ConfirmarFatura(i) BY <1>5, PassoConfirmar
<1> QED BY <1>1, <1>2, <1>3, <1>4, <1>5 DEF PassoDoMotor

\* ROLLBACK and crash.
LEMMA PassoDesfazer ==
    ASSUME CobrancaTypeOK, MotorInv, NEW i \in Instancias, DesfazerFatura(i) \/ CairInstancia(i)
    PROVE  CobrancaTypeOK' /\ MotorInv' /\ FicaOndeEsta /\ FicaPago
<1>1. /\ quedas' \in 0..MaxQuedas /\ motor' = [motor EXCEPT ![i] = MotorParado]
      /\ UNCHANGED <<hoje, lives, boletos, cobrancas, rodou, registro, enviadas, varsDoPagamento>>
      /\ carta' \in [Instancias -> Carta]
    BY PeriodosNaturais, Parados
    DEF DesfazerFatura, CairInstancia, CobrancaTypeOK, varsDasCartas
<1>2. trava' = IF trava = i THEN Ninguem ELSE trava
    BY DEF DesfazerFatura, CairInstancia, EmTransacao, MotorInv, UmMotor
<1>3. MotorInv' /\ FicaOndeEsta /\ FicaPago
      /\ motor' \in [Instancias -> Motor] /\ trava' \in Instancias \cup {Ninguem}
    BY <1>1, <1>2, SoParaMotor
<1>4. CobrancaTypeOK' BY <1>1, <1>3 DEF CobrancaTypeOK, varsDoPagamento
<1> QED BY <1>3, <1>4

----------------------------------------------------------------------------
(* Payments, overdue slips and notices. *)

\* Steps that only move slips from unpaid to paid or overdue.
LEMMA PassoDosPagamentos ==
    ASSUME CobrancaTypeOK, MotorInv,
           \/ MarcarVencidos
           \/ \E k \in Boletos : \/ PagarCobranca(k) \/ ReceberAviso(k) \/ ProcessarAviso(k)
                                 \/ ProcessarAvisoPagarme(k) \/ FalharAviso(k) \/ PagarManual(k)
    PROVE  /\ CobrancaTypeOK' /\ MotorInv' /\ FicaOndeEsta /\ FicaPago
           /\ UNCHANGED <<carta, registro, enviadas>> /\ quedas <= quedas'
<1> USE PeriodosNaturais
<1>q. quedas \in Int BY DEF CobrancaTypeOK
<1>a. ASSUME UNCHANGED <<hoje, lives, cobrancas, motor, trava, rodou, varsDasCartas>>,
             boletos' \in [Boletos -> Boleto],
             \A k \in Boletos : /\ (boletos'[k].status = "nao_ha") <=> (boletos[k].status = "nao_ha")
                                /\ boletos[k].status = "pago" => boletos'[k].status = "pago",
             pagamento' \in [Boletos -> {"nenhum", "a_avisar", "processando", "avisado"}],
             nonces' \subseteq Boletos, quedas' \in 0..MaxQuedas, quedas <= quedas'
      PROVE  /\ CobrancaTypeOK' /\ MotorInv' /\ FicaOndeEsta /\ FicaPago
             /\ UNCHANGED <<carta, registro, enviadas>> /\ quedas <= quedas'
    <2>1. CobrancaTypeOK' BY <1>a DEF CobrancaTypeOK, varsDasCartas
    <2>2. MotorInv' BY <1>a, SoSituacao
    <2> QED BY <1>a, <2>1, <2>2 DEF FicaOndeEsta, FicaPago, varsDasCartas
<1>b. /\ boletos \in [Boletos -> Boleto] /\ nonces \subseteq Boletos /\ quedas \in 0..MaxQuedas
      /\ pagamento \in [Boletos -> {"nenhum", "a_avisar", "processando", "avisado"}]
    BY DEF CobrancaTypeOK
<1>1. ASSUME NEW k \in Boletos, PagarCobranca(k) \/ ReceberAviso(k) \/ FalharAviso(k)
      PROVE  /\ CobrancaTypeOK' /\ MotorInv' /\ FicaOndeEsta /\ FicaPago
             /\ UNCHANGED <<carta, registro, enviadas>> /\ quedas <= quedas'
    <2>1. /\ UNCHANGED <<hoje, lives, boletos, cobrancas, motor, trava, rodou, varsDasCartas>>
          /\ pagamento' \in [Boletos -> {"nenhum", "a_avisar", "processando", "avisado"}]
          /\ nonces' \subseteq Boletos /\ quedas' \in 0..MaxQuedas /\ quedas <= quedas'
        BY <1>1, <1>b, <1>q DEF PagarCobranca, ReceberAviso, FalharAviso, varsDoMotor
    <2> QED BY <1>a, <1>b, <2>1
<1>2. ASSUME NEW k \in Boletos, boletos' = MarcarPago(k)
      PROVE  /\ boletos' \in [Boletos -> Boleto]
             /\ \A j \in Boletos :
                    /\ (boletos'[j].status = "nao_ha") <=> (boletos[j].status = "nao_ha")
                    /\ boletos[j].status = "pago" => boletos'[j].status = "pago"
    <2>1. CASE Pagavel(k)
        <3>1. boletos' = [boletos EXCEPT ![k].status = "pago"] BY <1>2, <2>1 DEF MarcarPago
        <3> QED BY <1>b, <2>1, <3>1 DEF Boleto, Pagavel
    <2>2. CASE ~Pagavel(k)
        <3>1. boletos' = [boletos EXCEPT ![k].status = boletos[k].status]
            BY <1>2, <2>2 DEF MarcarPago
        <3> QED BY <1>b, <3>1 DEF Boleto
    <2> QED BY <2>1, <2>2
<1>3. ASSUME NEW k \in Boletos, ProcessarAviso(k) \/ ProcessarAvisoPagarme(k) \/ PagarManual(k)
      PROVE  /\ CobrancaTypeOK' /\ MotorInv' /\ FicaOndeEsta /\ FicaPago
             /\ UNCHANGED <<carta, registro, enviadas>> /\ quedas <= quedas'
    <2>1. /\ UNCHANGED <<hoje, lives, cobrancas, motor, trava, rodou, varsDasCartas, nonces, quedas>>
          /\ pagamento' \in [Boletos -> {"nenhum", "a_avisar", "processando", "avisado"}]
          /\ boletos' = MarcarPago(k)
        BY <1>3, <1>b DEF ProcessarAviso, ProcessarAvisoPagarme, PagarManual, varsDoPagamento
    <2> QED BY <1>2, <1>a, <1>b, <1>q, <2>1
<1>4. CASE MarcarVencidos
    <2>1. PICK p \in {hoje - 1, hoje - 2} :
            boletos' = [k \in Boletos |-> IF k \in Vencidos(p)
                         THEN [boletos[k] EXCEPT !.status = "vencido"] ELSE boletos[k]]
        BY <1>4 DEF MarcarVencidos
    <2>2. \A k \in Vencidos(p) : k \in Boletos /\ boletos[k].status = "pendente" BY DEF Vencidos
    <2>3. \A k \in Boletos : /\ [boletos[k] EXCEPT !.status = "vencido"] \in Boleto
                             /\ [boletos[k] EXCEPT !.status = "vencido"].status = "vencido"
        BY <1>b DEF Boleto
    <2>4. /\ boletos' \in [Boletos -> Boleto]
          /\ \A k \in Boletos :
                /\ (boletos'[k].status = "nao_ha") <=> (boletos[k].status = "nao_ha")
                /\ boletos[k].status = "pago" => boletos'[k].status = "pago"
        BY <1>b, <2>1, <2>2, <2>3
    <2>5. UNCHANGED <<hoje, lives, cobrancas, motor, trava, rodou, varsDasCartas, pagamento,
                      nonces, quedas>>
        BY <1>4 DEF MarcarVencidos, varsDoPagamento
    <2> QED BY <1>a, <1>b, <1>q, <2>4, <2>5
<1> QED BY <1>1, <1>3, <1>4

\* One notice job moves on.
Um(c, p, k) == IF c.pc = p /\ c.alvo = k THEN 1 ELSE 0

LEMMA UmaCarta ==
    ASSUME CobrancaTypeOK, NEW i \in Instancias, NEW e \in Carta,
           carta' = [carta EXCEPT ![i] = e], NEW k
    PROVE  /\ NumEnviando(k)' = NumEnviando(k) + Um(e, "enviando", k)
                                                - Um(carta[i], "enviando", k)
           /\ NumRegistrando(k)' = NumRegistrando(k) + Um(e, "registrando", k)
                                                      - Um(carta[i], "registrando", k)
<1>1. carta'[i] = e /\ \A j \in Instancias \ {i} : carta'[j] = carta[j]
    BY DEF CobrancaTypeOK
<1>2. ASSUME NEW p \in {"enviando", "registrando"}, NEW S \in SUBSET Instancias, NEW T,
             i \in S <=> carta[i].pc = p /\ carta[i].alvo = k,
             T = IF e.pc = p /\ e.alvo = k THEN S \cup {i} ELSE S \ {i}
      PROVE  Cardinality(T) = Cardinality(S) + Um(e, p, k) - Um(carta[i], p, k)
    <2>1. CASE i \in S /\ e.pc = p /\ e.alvo = k
        <3>1. Um(e, p, k) = 1 /\ Um(carta[i], p, k) = 1 BY <1>2, <2>1 DEF Um
        <3>2. T = S \cup {i} BY <1>2, <2>1
        <3>3. Cardinality(S \cup {i}) = Cardinality(S) /\ Cardinality(S) \in Nat
            BY <1>2, <2>1, ContaUm
        <3> QED BY <3>1, <3>2, <3>3
    <2>2. CASE i \notin S /\ e.pc = p /\ e.alvo = k
        <3>1. Um(e, p, k) = 1 /\ Um(carta[i], p, k) = 0 BY <1>2, <2>2 DEF Um
        <3> QED BY <1>2, <2>2, <3>1, ContaUm
    <2>3. CASE i \in S /\ ~(e.pc = p /\ e.alvo = k)
        <3>1. Um(e, p, k) = 0 /\ Um(carta[i], p, k) = 1 BY <1>2, <2>3 DEF Um
        <3> QED BY <1>2, <2>3, <3>1, ContaUm
    <2>4. CASE i \notin S /\ ~(e.pc = p /\ e.alvo = k)
        <3>1. Um(e, p, k) = 0 /\ Um(carta[i], p, k) = 0 BY <1>2, <2>4 DEF Um
        <3>2. T = S \ {i} BY <1>2, <2>4
        <3>3. Cardinality(S \ {i}) = Cardinality(S) /\ Cardinality(S) \in Nat
            BY <1>2, <2>4, ContaUm
        <3> QED BY <3>1, <3>2, <3>3
    <2> QED BY <2>1, <2>2, <2>3, <2>4
<1>3. NumEnviando(k)' = NumEnviando(k) + Um(e, "enviando", k) - Um(carta[i], "enviando", k)
    <2>1. /\ Enviando(k) \in SUBSET Instancias
          /\ i \in Enviando(k) <=> carta[i].pc = "enviando" /\ carta[i].alvo = k
        BY DEF Enviando
    <2>2. Enviando(k)' = IF e.pc = "enviando" /\ e.alvo = k THEN Enviando(k) \cup {i}
                                                       ELSE Enviando(k) \ {i}
        BY <1>1 DEF Enviando
    <2> QED BY <1>2, <2>1, <2>2 DEF NumEnviando
<1>4. NumRegistrando(k)' = NumRegistrando(k) + Um(e, "registrando", k) - Um(carta[i], "registrando", k)
    <2>1. /\ Registrando(k) \in SUBSET Instancias
          /\ i \in Registrando(k) <=> carta[i].pc = "registrando" /\ carta[i].alvo = k
        BY DEF Registrando
    <2>2. Registrando(k)' = IF e.pc = "registrando" /\ e.alvo = k THEN Registrando(k) \cup {i}
                                                       ELSE Registrando(k) \ {i}
        BY <1>1 DEF Registrando
    <2> QED BY <1>2, <2>1, <2>2 DEF NumRegistrando
<1> QED BY <1>3, <1>4

\* The other variables, and the type of the job.
LEMMA TipoDasCartas ==
    ASSUME CobrancaTypeOK, NEW i \in Instancias, NEW e \in Carta,
           carta' = [carta EXCEPT ![i] = e], UNCHANGED <<hoje, varsDoMotor, varsDoPagamento>>,
           enviadas' \in [Boletos -> Nat], registro' \subseteq Boletos, quedas' \in 0..MaxQuedas
    PROVE  CobrancaTypeOK'
<1>1. carta' \in [Instancias -> Carta] BY DEF CobrancaTypeOK
<1> QED BY <1>1 DEF CobrancaTypeOK, varsDoMotor, varsDoPagamento

LEMMA AlvoDaCarta ==
    ASSUME CobrancaTypeOK, AlvosCertos, NEW i \in Instancias, NEW e \in Carta,
           carta' = [carta EXCEPT ![i] = e],
           e.pc \in {"enviando", "registrando"} => e.alvo \in Boletos
    PROVE  AlvosCertos'
<1>1. carta'[i] = e /\ \A j \in Instancias \ {i} : carta'[j] = carta[j]
    BY DEF CobrancaTypeOK
<1> QED BY <1>1 DEF AlvosCertos

LEMMA PassoDasCartas ==
    ASSUME CobrancaTypeOK, CartaInv, NEW i \in Instancias, IniciarCartas(i) \/ PassoDaCarta(i)
    PROVE  CobrancaTypeOK' /\ CartaInv' /\ UNCHANGED <<hoje, varsDoMotor>>
<1> USE PeriodosNaturais
<1>0. /\ carta[i] \in Carta /\ carta \in [Instancias -> Carta]
      /\ enviadas \in [Boletos -> Nat] /\ registro \subseteq Boletos /\ quedas \in 0..MaxQuedas
      /\ carta[i].pc \in {"enviando", "registrando"} => carta[i].alvo \in Boletos
      /\ AlvosCertos /\ \A k \in Boletos : ContaCerta(k)
    BY DEF CobrancaTypeOK, CartaInv, AlvosCertos, CartasContadas
<1>1. CASE IniciarCartas(i) \/ TerminarCartas(i)
    <2>1. PICK e \in Carta : carta' = [carta EXCEPT ![i] = e] /\ e.pc \in {"parada", "conferindo"}
        <3>1. CASE IniciarCartas(i)
            <4> DEFINE lista == {k \in Boletos : boletos[k].status = "vencido" /\ ~JaEnviada(k)}
                       e == [carta[i] EXCEPT !.pc = "conferindo", !.lista = lista]
            <4>1. carta' = [carta EXCEPT ![i] = e] BY <1>0, <3>1 DEF IniciarCartas
            <4>2. lista \subseteq Boletos OBVIOUS
            <4> HIDE DEF lista
            <4>3. e \in Carta /\ e.pc = "conferindo" BY <1>0, <4>2 DEF Carta
            <4> HIDE DEF e
            <4> QED BY <4>1, <4>3
        <3>2. CASE TerminarCartas(i) BY <3>2, Parados DEF TerminarCartas
        <3> QED BY <1>1, <3>1, <3>2
    <2>2. carta[i].pc \in {"parada", "conferindo"}
          /\ UNCHANGED <<hoje, varsDoMotor, registro, enviadas, varsDoPagamento, quedas>>
        BY <1>1 DEF IniciarCartas, TerminarCartas
    <2>3. ASSUME NEW k \in Boletos PROVE ContaCerta(k)'
        <3>u. /\ NumEnviando(k)' = NumEnviando(k) + Um(e, "enviando", k)
                                                   - Um(carta[i], "enviando", k)
              /\ NumRegistrando(k)' = NumRegistrando(k) + Um(e, "registrando", k)
                                                         - Um(carta[i], "registrando", k)
            BY <2>1, UmaCarta
        <3>1. NumEnviando(k)' = NumEnviando(k) /\ NumRegistrando(k)' = NumRegistrando(k)
            <4>1. \A p \in {"enviando", "registrando"} : Um(e, p, k) = 0 /\ Um(carta[i], p, k) = 0
                BY <2>1, <2>2 DEF Um
            <4> QED BY <2>1, <4>1, <3>u, Numeros
        <3> QED BY <1>0, <2>2, <3>1 DEF ContaCerta
    <2>4. CobrancaTypeOK' BY <1>0, <2>1, <2>2, TipoDasCartas
    <2>5. AlvosCertos' BY <1>0, <2>1, AlvoDaCarta
    <2> QED BY <2>2, <2>3, <2>4, <2>5 DEF CartaInv, CartasContadas
<1>2. CASE ConferirCarta(i)
    <2>1. PICK j \in carta[i].lista, pula \in BOOLEAN :
            /\ pula => j \in registro
            /\ IF j \in registro /\ ~pula THEN Falha ELSE UNCHANGED quedas
            /\ carta' = [carta EXCEPT ![i].lista = @ \ {j},
                            ![i].pc = IF pula THEN "conferindo" ELSE "enviando",
                            ![i].alvo = IF pula THEN Ninguem ELSE j]
        BY <1>2 DEF ConferirCarta, JaEnviada
    <2>2. carta[i].pc = "conferindo"
          /\ UNCHANGED <<hoje, varsDoMotor, registro, enviadas, varsDoPagamento>>
        BY <1>2 DEF ConferirCarta
    <2>3. j \in Boletos BY <1>0 DEF Carta
    <2>4. PICK e \in Carta : /\ carta' = [carta EXCEPT ![i] = e]
                             /\ \/ e.pc = "conferindo" /\ quedas' = quedas
                                \/ e.pc = "enviando" /\ e.alvo = j /\ j \notin registro
                                   /\ quedas' = quedas
                                \/ e.pc = "enviando" /\ e.alvo = j
                                   /\ quedas < MaxQuedas /\ quedas' = quedas + 1
        <3>1. CASE pula
            <4> DEFINE e == [carta[i] EXCEPT !.lista = @ \ {j}, !.pc = "conferindo",
                                             !.alvo = Ninguem]
            <4>1. carta' = [carta EXCEPT ![i] = e] BY <1>0, <2>1, <3>1
            <4>2. e \in Carta /\ e.pc = "conferindo" BY <1>0 DEF Carta
            <4> HIDE DEF e
            <4> QED BY <2>1, <3>1, <4>1, <4>2
        <3>2. CASE ~pula
            <4> DEFINE e == [carta[i] EXCEPT !.lista = @ \ {j}, !.pc = "enviando", !.alvo = j]
            <4>1. carta' = [carta EXCEPT ![i] = e] BY <1>0, <2>1, <3>2
            <4>2. e \in Carta /\ e.pc = "enviando" /\ e.alvo = j BY <1>0, <2>3 DEF Carta
            <4> HIDE DEF e
            <4> QED BY <2>1, <3>2, <4>1, <4>2 DEF Falha
        <3> QED BY <3>1, <3>2
    <2>5. ASSUME NEW k \in Boletos PROVE ContaCerta(k)'
        <3>u. /\ NumEnviando(k)' = NumEnviando(k) + Um(e, "enviando", k)
                                                   - Um(carta[i], "enviando", k)
              /\ NumRegistrando(k)' = NumRegistrando(k) + Um(e, "registrando", k)
                                                         - Um(carta[i], "registrando", k)
            BY <2>4, UmaCarta
        <3>1. /\ NumRegistrando(k)' = NumRegistrando(k)
              /\ NumEnviando(k)' \in {NumEnviando(k), NumEnviando(k) + 1}
              /\ k \in registro /\ quedas' = quedas => NumEnviando(k)' = NumEnviando(k)
            <4>1. /\ Um(e, "registrando", k) = 0 /\ Um(carta[i], "registrando", k) = 0
                  /\ Um(carta[i], "enviando", k) = 0
                  /\ Um(e, "enviando", k) \in {0, 1}
                  /\ k \in registro /\ quedas' = quedas => Um(e, "enviando", k) = 0
                BY <1>0, <2>2, <2>4 DEF Um
            <4> QED BY <2>4, <4>1, <3>u, Numeros
        <3>2. quedas' \in {quedas, quedas + 1} BY <2>4
        <3> QED BY <1>0, <2>2, <3>1, <3>2, Numeros DEF ContaCerta
    <2>8. quedas' \in 0..MaxQuedas BY <1>0, <2>4
    <2>6. CobrancaTypeOK' BY <1>0, <2>2, <2>4, <2>8, TipoDasCartas
    <2>7. AlvosCertos' BY <1>0, <2>3, <2>4, AlvoDaCarta
    <2> QED BY <2>2, <2>5, <2>6, <2>7 DEF CartaInv, CartasContadas
<1>3. CASE EnviarCarta(i)
    <2> DEFINE a == carta[i].alvo
    <2>1. /\ carta[i].pc = "enviando" /\ a \in Boletos
          /\ UNCHANGED <<hoje, varsDoMotor, registro, varsDoPagamento>>
        BY <1>0, <1>3 DEF EnviarCarta
    <2>2. PICK e \in Carta :
            /\ carta' = [carta EXCEPT ![i] = e]
            /\ \/ /\ e.pc = "registrando" /\ e.alvo = a
                  /\ enviadas' = [enviadas EXCEPT ![a] = @ + 1] /\ quedas' = quedas
               \/ e.pc = "conferindo" /\ enviadas' = enviadas /\ quedas' = quedas
               \/ /\ e.pc = "conferindo" /\ quedas < MaxQuedas /\ quedas' = quedas + 1
                  /\ enviadas' = [enviadas EXCEPT ![a] = @ + 1]
        <3>1. CASE /\ enviadas' = [enviadas EXCEPT ![a] = @ + 1] /\ quedas' = quedas
                   /\ carta' = [carta EXCEPT ![i].pc = "registrando"]
            <4> DEFINE e == [carta[i] EXCEPT !.pc = "registrando"]
            <4>1. carta' = [carta EXCEPT ![i] = e] BY <1>0, <3>1
            <4>2. e \in Carta /\ e.pc = "registrando" /\ e.alvo = a BY <1>0 DEF Carta
            <4> HIDE DEF e
            <4> QED BY <3>1, <4>1, <4>2
        <3>2. CASE /\ carta' = [carta EXCEPT ![i].pc = "conferindo", ![i].alvo = Ninguem]
                   /\ \/ UNCHANGED <<enviadas, quedas>>
                      \/ enviadas' = [enviadas EXCEPT ![a] = @ + 1] /\ Falha
            <4> DEFINE e == [carta[i] EXCEPT !.pc = "conferindo", !.alvo = Ninguem]
            <4>1. carta' = [carta EXCEPT ![i] = e] BY <1>0, <3>2
            <4>2. e \in Carta /\ e.pc = "conferindo" BY <1>0 DEF Carta
            <4> HIDE DEF e
            <4> QED BY <3>2, <4>1, <4>2 DEF Falha
        <3> QED BY <1>3, <3>1, <3>2 DEF EnviarCarta
    <2>3. enviadas' \in [Boletos -> Nat] /\ quedas' \in 0..MaxQuedas BY <1>0, <2>1, <2>2
    <2>4. ASSUME NEW k \in Boletos PROVE ContaCerta(k)'
        <3>u. /\ NumEnviando(k)' = NumEnviando(k) + Um(e, "enviando", k)
                                                   - Um(carta[i], "enviando", k)
              /\ NumRegistrando(k)' = NumRegistrando(k) + Um(e, "registrando", k)
                                                         - Um(carta[i], "registrando", k)
            BY <2>2, UmaCarta
        <3>1. CASE k = a
            <4>0. /\ Um(carta[i], "enviando", k) = 1 /\ Um(e, "enviando", k) = 0
                  /\ Um(carta[i], "registrando", k) = 0
                  /\ e.pc = "registrando" /\ e.alvo = a => Um(e, "registrando", k) = 1
                  /\ e.pc = "conferindo" => Um(e, "registrando", k) = 0
                BY <2>1, <2>2, <3>1 DEF Um
            <4>1. NumEnviando(k)' = NumEnviando(k) - 1 BY <2>2, <4>0, <3>u, Numeros
            <4>2. \/ /\ NumRegistrando(k)' = NumRegistrando(k) + 1
                     /\ enviadas'[k] = enviadas[k] + 1 /\ quedas' = quedas
                  \/ /\ NumRegistrando(k)' = NumRegistrando(k)
                     /\ enviadas'[k] = enviadas[k] /\ quedas' = quedas
                  \/ /\ NumRegistrando(k)' = NumRegistrando(k)
                     /\ enviadas'[k] = enviadas[k] + 1 /\ quedas' = quedas + 1
                BY <1>0, <2>2, <3>1, <4>0, <3>u, Numeros
            <4> HIDE DEF a
            <4> QED BY <1>0, <2>1, <4>1, <4>2, Numeros DEF ContaCerta
        <3>2. CASE k # a
            <4>0. \A p \in {"enviando", "registrando"} : Um(e, p, k) = 0 /\ Um(carta[i], p, k) = 0
                BY <2>1, <2>2, <3>2 DEF Um
            <4>1. NumEnviando(k)' = NumEnviando(k) /\ NumRegistrando(k)' = NumRegistrando(k)
                BY <2>2, <4>0, <3>u, Numeros
            <4>2. enviadas'[k] = enviadas[k] /\ quedas' \in {quedas, quedas + 1}
                BY <1>0, <2>2, <3>2
            <4> HIDE DEF a
            <4> QED BY <1>0, <2>1, <4>1, <4>2, Numeros DEF ContaCerta
        <3> QED BY <3>1, <3>2
    <2>5. CobrancaTypeOK' BY <1>0, <2>1, <2>2, <2>3, TipoDasCartas
    <2>6. AlvosCertos' BY <1>0, <2>1, <2>2, AlvoDaCarta
    <2> QED BY <2>1, <2>4, <2>5, <2>6 DEF CartaInv, CartasContadas
<1>4. CASE RegistrarCarta(i)
    <2> DEFINE a == carta[i].alvo
    <2>1. /\ carta[i].pc = "registrando" /\ a \in Boletos
          /\ UNCHANGED <<hoje, varsDoMotor, enviadas, varsDoPagamento>>
          /\ \/ registro' = registro \cup {a} /\ quedas' = quedas
             \/ registro' = registro /\ quedas' = quedas + 1 /\ quedas < MaxQuedas
        BY <1>0, <1>4 DEF RegistrarCarta, Falha
    <2>2. PICK e \in Carta : carta' = [carta EXCEPT ![i] = e] /\ e.pc = "conferindo"
        <3> DEFINE e == [carta[i] EXCEPT !.pc = "conferindo", !.alvo = Ninguem]
        <3>1. carta' = [carta EXCEPT ![i] = e] BY <1>0, <1>4 DEF RegistrarCarta
        <3>2. e \in Carta /\ e.pc = "conferindo" BY <1>0 DEF Carta
        <3> HIDE DEF e
        <3> QED BY <3>1, <3>2
    <2>3. registro' \subseteq Boletos /\ quedas' \in 0..MaxQuedas BY <1>0, <2>1
    <2>4. ASSUME NEW k \in Boletos PROVE ContaCerta(k)'
        <3>u. /\ NumEnviando(k)' = NumEnviando(k) + Um(e, "enviando", k)
                                                   - Um(carta[i], "enviando", k)
              /\ NumRegistrando(k)' = NumRegistrando(k) + Um(e, "registrando", k)
                                                         - Um(carta[i], "registrando", k)
            BY <2>2, UmaCarta
        <3>e. /\ Um(e, "enviando", k) = 0 /\ Um(carta[i], "enviando", k) = 0
              /\ Um(e, "registrando", k) = 0
              /\ Um(carta[i], "registrando", k) = IF k = a THEN 1 ELSE 0
            BY <2>1, <2>2 DEF Um
        <3>0. NumEnviando(k)' = NumEnviando(k) BY <2>2, <3>e, <3>u, Numeros
        <3>1. CASE k = a
            <4>1. NumRegistrando(k)' = NumRegistrando(k) - 1
                BY <2>2, <3>e, <3>1, <3>u, Numeros
            <4>2. \/ k \in registro' /\ quedas' = quedas
                  \/ registro' = registro /\ quedas' = quedas + 1
                BY <2>1, <3>1
            <4>3. enviadas' = enviadas BY <2>1
            <4> HIDE DEF a
            <4> QED BY <1>0, <3>0, <4>1, <4>2, <4>3, Numeros DEF ContaCerta
        <3>2. CASE k # a
            <4>1. NumRegistrando(k)' = NumRegistrando(k)
                BY <2>2, <3>e, <3>2, <3>u, Numeros
            <4>2. (k \in registro' <=> k \in registro) /\ quedas' \in {quedas, quedas + 1}
                BY <2>1, <3>2
            <4>3. enviadas' = enviadas BY <2>1
            <4> HIDE DEF a
            <4> QED BY <1>0, <3>0, <4>1, <4>2, <4>3, Numeros DEF ContaCerta
        <3> QED BY <3>1, <3>2
    <2>5. CobrancaTypeOK' BY <1>0, <2>1, <2>2, <2>3, TipoDasCartas
    <2>6. AlvosCertos' BY <1>0, <2>2, AlvoDaCarta
    <2> QED BY <2>1, <2>4, <2>5, <2>6 DEF CartaInv, CartasContadas
<1> QED BY <1>1, <1>2, <1>3, <1>4 DEF PassoDaCarta

\* A process dies with its letter on the way.
LEMMA CartasNaQueda ==
    ASSUME CobrancaTypeOK, CartaInv, NEW i \in Instancias, CairInstancia(i)
    PROVE  CartaInv'
<1>1. /\ carta' = [carta EXCEPT ![i] = CartaParada] /\ quedas' = quedas + 1
      /\ UNCHANGED <<registro, enviadas>>
    BY DEF CairInstancia
<1>2. AlvosCertos' BY <1>1, Parados, AlvoDaCarta DEF CartaInv
<1>3. ASSUME NEW k \in Boletos PROVE ContaCerta(k)'
    <2>1. /\ NumEnviando(k)' \in {NumEnviando(k), NumEnviando(k) - 1}
          /\ NumRegistrando(k)' \in {NumRegistrando(k), NumRegistrando(k) - 1}
        <3>1. /\ Um(CartaParada, "enviando", k) = 0 /\ Um(CartaParada, "registrando", k) = 0
              /\ Um(carta[i], "enviando", k) \in {0, 1} /\ Um(carta[i], "registrando", k) \in {0, 1}
            BY Parados DEF Um
        <3>u. /\ NumEnviando(k)' = NumEnviando(k) + Um(CartaParada, "enviando", k)
                                                   - Um(carta[i], "enviando", k)
              /\ NumRegistrando(k)' = NumRegistrando(k) + Um(CartaParada, "registrando", k)
                                                         - Um(carta[i], "registrando", k)
            BY <1>1, Parados, UmaCarta
        <3> QED BY <3>1, <3>u, Numeros
    <2>2. ContaCerta(k) BY DEF CartaInv, CartasContadas
    <2> QED BY <1>1, <2>1, <2>2, Numeros DEF ContaCerta
<1> QED BY <1>2, <1>3 DEF CartaInv, CartasContadas

----------------------------------------------------------------------------
LEMMA CobrancaPasso ==
    ASSUME CobrancaInv, [CobrancaNext]_varsCobranca
    PROVE  CobrancaInv' /\ FicaOndeEsta /\ FicaPago
<1>0. CobrancaTypeOK /\ MotorInv /\ CartaInv /\ quedas \in Int
    BY DEF CobrancaInv, CobrancaTypeOK
<1>1. CASE UNCHANGED varsCobranca
    <2>1. UNCHANGED <<hoje, varsDoMotor, varsDasCartas, varsDoPagamento, quedas>>
        BY <1>1 DEF varsCobranca
    <2>2. CobrancaTypeOK'
        BY <1>0, <2>1 DEF CobrancaTypeOK, varsDoMotor, varsDasCartas, varsDoPagamento
    <2>3. MotorInv' /\ FicaOndeEsta /\ FicaPago BY <1>0, <2>1, SoCartas
    <2>4. CartaInv' BY <1>0, <2>1, SoQuedas DEF varsDasCartas
    <2> QED BY <2>2, <2>3, <2>4 DEF CobrancaInv
<1>2. ASSUME CobrancaTypeOK', MotorInv', FicaOndeEsta, FicaPago,
             UNCHANGED <<varsDasCartas, quedas>>
      PROVE  CobrancaInv' /\ FicaOndeEsta /\ FicaPago
    <2>1. CartaInv' BY <1>0, <1>2, SoQuedas DEF varsDasCartas
    <2> QED BY <1>2, <2>1 DEF CobrancaInv
<1>3. ASSUME NEW l \in Lives, EncerrarCobravel(l) \/ EditarCobravel(l)
      PROVE  CobrancaInv' /\ FicaOndeEsta /\ FicaPago
    <2>1. UNCHANGED <<varsDasCartas, quedas>> BY <1>3 DEF EncerrarCobravel, EditarCobravel
    <2> QED BY <1>0, <1>2, <1>3, <2>1, PassoDasLives
<1>4. CASE VirarQuinzena
    <2>1. UNCHANGED <<varsDasCartas, quedas>> BY <1>4 DEF VirarQuinzena
    <2> QED BY <1>0, <1>2, <1>4, <2>1, PassoDaQuinzena
<1>5. ASSUME NEW i \in Instancias, Disparar(i) \/ PassoDoMotor(i)
      PROVE  CobrancaInv' /\ FicaOndeEsta /\ FicaPago
    <2>1. UNCHANGED <<varsDasCartas, quedas>>
        BY <1>5 DEF Disparar, PassoDoMotor, AbrirFatura, FaturarCliente, CobrarNoGateway,
            ConfirmarFatura
    <2> QED BY <1>0, <1>2, <1>5, <2>1, PassoDaFatura
<1>6. ASSUME NEW i \in Instancias, DesfazerFatura(i)
      PROVE  CobrancaInv' /\ FicaOndeEsta /\ FicaPago
    <2>1. CobrancaTypeOK' /\ MotorInv' /\ FicaOndeEsta /\ FicaPago
        BY <1>0, <1>6, PassoDesfazer
    <2>2. UNCHANGED <<carta, registro, enviadas>> /\ quedas' = quedas + 1
        BY <1>6 DEF DesfazerFatura, varsDasCartas
    <2>3. CartaInv' BY <1>0, <2>2, SoQuedas
    <2> QED BY <2>1, <2>3 DEF CobrancaInv
<1>7. ASSUME NEW i \in Instancias, CairInstancia(i)
      PROVE  CobrancaInv' /\ FicaOndeEsta /\ FicaPago
    <2>1. CobrancaTypeOK' /\ MotorInv' /\ FicaOndeEsta /\ FicaPago
        BY <1>0, <1>7, PassoDesfazer
    <2>2. CartaInv' BY <1>0, <1>7, CartasNaQueda
    <2> QED BY <2>1, <2>2 DEF CobrancaInv
<1>8. ASSUME NEW i \in Instancias, IniciarCartas(i) \/ PassoDaCarta(i)
      PROVE  CobrancaInv' /\ FicaOndeEsta /\ FicaPago
    <2>1. CobrancaTypeOK' /\ CartaInv' /\ UNCHANGED <<hoje, varsDoMotor>>
        BY <1>0, <1>8, PassoDasCartas
    <2> QED BY <1>0, <2>1, SoCartas DEF CobrancaInv
<1>9. ASSUME \/ MarcarVencidos
             \/ \E k \in Boletos : \/ PagarCobranca(k) \/ ReceberAviso(k) \/ ProcessarAviso(k)
                                   \/ ProcessarAvisoPagarme(k) \/ FalharAviso(k) \/ PagarManual(k)
      PROVE  CobrancaInv' /\ FicaOndeEsta /\ FicaPago
    <2>1. /\ CobrancaTypeOK' /\ MotorInv' /\ FicaOndeEsta /\ FicaPago
          /\ UNCHANGED <<carta, registro, enviadas>> /\ quedas <= quedas'
        BY <1>0, <1>9, PassoDosPagamentos
    <2>2. quedas' \in Int BY <2>1 DEF CobrancaTypeOK
    <2>3. CartaInv' BY <1>0, <2>1, <2>2, SoQuedas
    <2> QED BY <2>1, <2>3 DEF CobrancaInv
<1>10. CASE CobrancaNext
    BY <1>3, <1>4, <1>5, <1>6, <1>7, <1>8, <1>9, <1>10 DEF CobrancaNext
<1> QED BY <1>1, <1>10

LEMMA CobrancaSempre == CobrancaSpec => []CobrancaInv
<1>1. CobrancaInv /\ [CobrancaNext]_varsCobranca => CobrancaInv'
    BY CobrancaPasso
<1> QED BY <1>1, CobrancaInicial, PTL DEF CobrancaSpec

\* The variables of billing, payments and notices stay in their types.
THEOREM CobrancaTipo == CobrancaSpec => []CobrancaTypeOK
<1>1. CobrancaInv => CobrancaTypeOK BY DEF CobrancaInv
<1> QED BY <1>1, CobrancaSempre, PTL

\* A billed live belongs to a slip that exists, of its own client, whatever
\* instance crashes or rolls back (billing_engine.js).
THEOREM SempreFaturadoComBoleto == CobrancaSpec => []FaturadoComBoleto
<1>1. CobrancaInv => FaturadoComBoleto BY DEF CobrancaInv, MotorInv
<1> QED BY <1>1, CobrancaSempre, PTL

\* The debtor of a slip gets one letter from each instance at most, and one
\* more for each crash or lost row of the log (notify with dedupe).
THEOREM AvisoNuncaSeRepete == CobrancaSpec => []AvisoNaoSeRepete
<1>1. CobrancaInv => AvisoNaoSeRepete
    <2> SUFFICES ASSUME CobrancaInv, NEW k \in Boletos
                 PROVE  enviadas[k] <= Cardinality(Instancias) + quedas
        BY DEF AvisoNaoSeRepete
    <2>1. CobrancaTypeOK /\ ContaCerta(k) BY DEF CobrancaInv, CartaInv, CartasContadas
    <2>2. /\ NumEnviando(k) \in Nat /\ NumRegistrando(k) \in Nat
          /\ enviadas[k] \in Nat /\ quedas \in Nat /\ Cardinality(Instancias) \in Nat
          /\ NumEnviando(k) + NumRegistrando(k) <= Cardinality(Instancias)
        BY <2>1, Numeros
    <2> QED BY <2>1, <2>2 DEF ContaCerta
<1> QED BY <1>1, CobrancaSempre, PTL

\* No later run, instance or edition moves a billed live to another slip.
THEOREM LiveSempreEmUmBoleto == CobrancaSpec => LiveEmUmBoleto
<1>1. CobrancaInv /\ [CobrancaNext]_varsCobranca => [FicaOndeEsta]_varsCobranca
    BY CobrancaPasso
<1>2. CobrancaSpec => [][FicaOndeEsta]_varsCobranca
    BY <1>1, CobrancaSempre, PTL DEF CobrancaSpec
<1> QED BY <1>2 DEF LiveEmUmBoleto, FicaOndeEsta

\* No cron, report or run takes a payment back.
THEOREM PagoSempreFicaPago == CobrancaSpec => PagoFicaPago
<1>1. CobrancaInv /\ [CobrancaNext]_varsCobranca => [FicaPago]_varsCobranca
    BY CobrancaPasso
<1>2. CobrancaSpec => [][FicaPago]_varsCobranca
    BY <1>1, CobrancaSempre, PTL DEF CobrancaSpec
<1> QED BY <1>2 DEF PagoFicaPago, FicaPago

----------------------------------------------------------------------------
(* Contracts. *)

\* No request leads out of the statuses.
LEMMA ResultadosConhecidos ==
    /\ \A a \in Acoes : Resultados(a) \subseteq {"ativo", "em_analise", "cancelado"}
    /\ \A a \in Auditorias : Destino(a) \in StatusDoContrato
BY DEF Acoes, Auditorias, Resultados, Destino, StatusDoContrato

LEMMA ContratosInicial == ContratosInit => ContratosTypeOK
BY PrazosNaturais DEF ContratosInit, ContratosTypeOK, StatusDoContrato

LEMMA ContratosPasso == ContratosTypeOK /\ [ContratosNext]_varsContratos => ContratosTypeOK'
<1> SUFFICES ASSUME ContratosTypeOK, [ContratosNext]_varsContratos PROVE ContratosTypeOK'
  OBVIOUS
<1> USE PrazosNaturais, TitularesConhecidos DEF ContratosTypeOK
<1>1. CASE UNCHANGED varsContratos
  BY <1>1 DEF varsContratos
<1>2. ASSUME NEW c \in Ids,
             VerificarBloqueio(c) \/ \E a \in Acoes : LerContrato(c, a)
      PROVE  ContratosTypeOK'
  BY <1>2 DEF VerificarBloqueio, LerContrato, Entrar, Acoes
<1>3. ASSUME NEW c \in Ids, Criar(c) \/ Assinar(c) \/ Cancelar(c) PROVE ContratosTypeOK'
  BY <1>3 DEF Criar, Assinar, Cancelar, ComStatus, Sair, StatusDoContrato
<1>4. ASSUME NEW c \in Ids, AssumirRisco(c) PROVE ContratosTypeOK'
  BY <1>4 DEF AssumirRisco, ComStatus, StatusDoContrato
<1>5. ASSUME NEW c \in Ids, NEW a \in Acoes, Concluir(c, a) PROVE ContratosTypeOK'
  <2>1. PICK s \in Resultados(a) :
            /\ contrato' = ComStatus(c, s)
            /\ titular' = IF a = "assinar_digital" /\ s = "ativo"
                            THEN [titular EXCEPT ![TitularDe[c]] = "ativo"] ELSE titular
    BY <1>5 DEF Concluir
  <2>2. s \in StatusDoContrato /\ "ativo" \in StatusDoContrato
    BY ResultadosConhecidos DEF StatusDoContrato
  <2> QED BY <1>5, <2>1, <2>2 DEF Concluir, ComStatus, Sair
<1>6. ASSUME NEW c \in Ids, NEW a \in Auditorias, Auditar(c, a) PROVE ContratosTypeOK'
  <2>1. Destino(a) \in StatusDoContrato BY ResultadosConhecidos
  <2> QED BY <1>6, <2>1 DEF Auditar, ComEvento
<1>7. CASE IniciarVarredura
  BY <1>7 DEF IniciarVarredura, Expirados
<1>8. CASE CancelarExpirados
  BY <1>8 DEF CancelarExpirados, StatusDoContrato
<1>9. CASE PassarDia
  BY <1>9 DEF PassarDia, UmDiaMais
<1> QED BY <1>1, <1>2, <1>3, <1>4, <1>5, <1>6, <1>7, <1>8, <1>9 DEF ContratosNext

\* The variables stay in their types.
THEOREM ContratosTipo == ContratosSpec => []ContratosTypeOK
<1>1. ContratosInit => ContratosTypeOK BY ContratosInicial
<1>2. ContratosTypeOK /\ [ContratosNext]_varsContratos => ContratosTypeOK' BY ContratosPasso
<1> QED BY <1>1, <1>2, PTL DEF ContratosSpec

----------------------------------------------------------------------------
LEMMA EventoPasso ==
    ASSUME ContratosTypeOK, EventoDoStatus, [ContratosNext]_varsContratos
    PROVE  EventoDoStatus'
<1> USE DEF ContratosTypeOK, EventoDoStatus, Em
<1>1. CASE UNCHANGED varsContratos
  BY <1>1 DEF varsContratos
<1>2. ASSUME NEW c \in Ids,
             VerificarBloqueio(c) \/ \E a \in Acoes : LerContrato(c, a)
      PROVE  EventoDoStatus'
  BY <1>2 DEF VerificarBloqueio, LerContrato
<1>3. ASSUME NEW c \in Ids, Criar(c) \/ Assinar(c) \/ Cancelar(c) \/ AssumirRisco(c)
      PROVE  EventoDoStatus'
  BY <1>3 DEF Criar, Assinar, Cancelar, AssumirRisco, ComStatus
<1>4. ASSUME NEW c \in Ids, NEW a \in Acoes, Concluir(c, a) PROVE EventoDoStatus'
  \* The stale UPDATE only writes statuses no audit is needed for.
  <2>1. PICK s \in Resultados(a) : contrato' = ComStatus(c, s)
    BY <1>4 DEF Concluir
  <2>2. s \in {"ativo", "em_analise", "cancelado"} BY ResultadosConhecidos
  <2>3. evento' = evento BY <1>4 DEF Concluir
  <2> QED BY <2>1, <2>2, <2>3 DEF ComStatus
<1>5. ASSUME NEW c \in Ids, NEW a \in Auditorias, Auditar(c, a) PROVE EventoDoStatus'
  BY <1>5 DEF Auditar, ComEvento
<1>6. CASE IniciarVarredura
  BY <1>6 DEF IniciarVarredura
<1>7. CASE CancelarExpirados
  BY <1>7 DEF CancelarExpirados
<1>8. CASE PassarDia
  BY <1>8 DEF PassarDia
<1> QED BY <1>1, <1>2, <1>3, <1>4, <1>5, <1>6, <1>7, <1>8 DEF ContratosNext

\* A status only an audit or the job can give has that decision as the last
\* event of the contract (contratos_auditoria.js, cleanup_orphan_contracts.js).
THEOREM ContratosEventoDoStatus == ContratosSpec => []EventoDoStatus
<1>1. ContratosInit => EventoDoStatus
  BY DEF ContratosInit, EventoDoStatus, Em
<1>2. ContratosTypeOK /\ EventoDoStatus /\ [ContratosNext]_varsContratos => EventoDoStatus'
  BY EventoPasso
<1> QED BY <1>1, <1>2, ContratosTipo, PTL DEF ContratosSpec

----------------------------------------------------------------------------
(* The two scenes of the instance. *)

\* A behaviour of the instance is one of each component.
LEMMA FinanceiroImplementa == FinanceiroSpec => CobrancaSpec /\ ContratosSpec
<1>1. FinanceiroInit => CobrancaInit /\ ContratosInit BY DEF FinanceiroInit
<1>2. [FinanceiroNext]_<<cena, varsCobranca, varsContratos>>
        => [CobrancaNext]_varsCobranca /\ [ContratosNext]_varsContratos
    BY DEF FinanceiroNext
<1> QED BY <1>1, <1>2, PTL DEF FinanceiroSpec, CobrancaSpec, ContratosSpec

\* The variables of both components stay in their types, whichever moves.
THEOREM FinanceiroTipo == FinanceiroSpec => []FinanceiroTypeOK
<1>1. CobrancaTypeOK /\ ContratosTypeOK => FinanceiroTypeOK BY DEF FinanceiroTypeOK
<1> QED BY <1>1, FinanceiroImplementa, CobrancaTipo, ContratosTipo, PTL
=============================================================================
