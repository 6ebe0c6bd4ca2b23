----------------------------- MODULE MCEstudio -----------------------------
(* Small instances of Estudio for TLC. *)
EXTENDS Estudio, TLC

CONSTANTS b1, b2, ana, bia, ctA, ctB, p1, p2, e1, r1

MCClienteDe == [ct \in Contratos |-> IF ct = ctA THEN ana ELSE bia]

\* Two overlapping requests for today.
MCPedidoDe == [p \in Pedidos |->
    [cabine |-> b1, cliente |-> IF p = p1 THEN ana ELSE bia, hoje |-> TRUE]]
MCSobrepoe == {<<p1, p2>>, <<p2, p1>>}

MCEventoDe == [e \in Eventos |->
    [cabine |-> b1, cliente |-> bia, hoje |-> TRUE]]

\* The booths are interchangeable when no request and no event names one.
SimetriaDasCabines == Permutations({b1, b2})

Repeticao == INSTANCE Recorrencia

MCRegras == [frequencia : Repeticao!Frequencias,
             dias : {<<>>, <<3>>, <<5, 1>>, <<0, 3, 6>>},
             ate : {Repeticao!SemData, 29, 40, 59, 72},
             total : {1, 4, 52}]

\* calcularRecorrencias gives the days the rule asks for, in order, up to the
\* total, but those it forgets at both ends of a weekly series; a monthly event
\* is on a day every month has.
ASSUME RecorrenciaConfere ==
    \A r \in MCRegras, inicio \in 0..8 \cup 24..33 :
        (r.frequencia = "mensal" => inicio \notin 28..30) => Repeticao!ComoPedido(r, inicio)
=============================================================================
