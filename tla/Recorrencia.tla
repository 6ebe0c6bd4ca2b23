---------------------------- MODULE Recorrencia ----------------------------
(***************************************************************************)
(* calcularRecorrencias: the days on which POST /v1/agenda repeats an      *)
(* event.  Hours stay those of the event, so an occurrence is its day, and *)
(* days are numbered from 1 January 2026, a Thursday; the code takes the   *)
(* days of the week from 0, Sunday.                                        *)
(***************************************************************************)
EXTENDS Integers, SequencesExt

Frequencias == {"diaria", "semanal", "quinzenal", "mensal"}

\* First day of each month of the calendar in use.
InicioDoMes == <<0, 31, 59, 90, 120, 151, 181, 212>>
Mes(d) == CHOOSE n \in 1..7 : InicioDoMes[n] <= d /\ d < InicioDoMes[n + 1]

DiaDaSemana(d) == (d + 4) % 7
Domingo(d) == d - DiaDaSemana(d)        \* the one on or before day d

\* setMonth keeps the day of the month and lets it overflow: a month after
\* 31 January comes 3 March.
UmMesDepois(d) == InicioDoMes[Mes(d) + 1] + (d - InicioDoMes[Mes(d)])

ProximaData(f, d) == CASE f = "diaria"    -> d + 1
                       [] f = "semanal"   -> d + 7
                       [] f = "quinzenal" -> d + 14
                       [] f = "mensal"    -> UmMesDepois(d)

\* No 'ate': 90 days.  A number that is not a day stands for its absence.
SemData == -1
Limite(r, inicio) == IF r.ate = SemData THEN inicio + 90 ELSE r.ate

PorDiaDaSemana(r) == r.frequencia \in {"semanal", "quinzenal"} /\ r.dias # <<>>

\* What one turn of the loop adds: the asked days of the cursor's week, or
\* the cursor itself.
NaSemana(r, inicio, cursor) ==
    LET dias == SortSeq(r.dias, <)
    IN  SelectSeq([i \in DOMAIN dias |-> Domingo(cursor) + dias[i]],
                  LAMBDA d : d > inicio /\ d <= Limite(r, inicio))
Gerados(r, inicio, cursor) ==
    IF PorDiaDaSemana(r) THEN NaSemana(r, inicio, cursor) ELSE <<cursor>>

Ocorrencias(r, inicio) ==
    LET limite == Limite(r, inicio)
        de[cursor \in Nat] ==
            IF cursor > limite THEN <<>>
            ELSE Gerados(r, inicio, cursor) \o de[ProximaData(r.frequencia, cursor)]
        todas == de[ProximaData(r.frequencia, inicio)]
    IN  SubSeq(todas, 1, IF Len(todas) < r.total THEN Len(todas) ELSE r.total)

----------------------------------------------------------------------------
(* What the request asks for, said without a cursor. *)

Semana(d) == Domingo(d)
Passo(f) == CASE f = "diaria" -> 1 [] f = "semanal" -> 7 [] f = "quinzenal" -> 14

MesmoDiaDoMes(d, inicio) == d - InicioDoMes[Mes(d)] = inicio - InicioDoMes[Mes(inicio)]

DiasPedidos(r, inicio) ==
    {d \in (inicio + 1)..Limite(r, inicio) :
        IF PorDiaDaSemana(r)
          THEN /\ DiaDaSemana(d) \in ToSet(r.dias)
               /\ (Semana(d) - Semana(inicio)) % Passo(r.frequencia) = 0
        ELSE IF r.frequencia = "mensal" THEN MesmoDiaDoMes(d, inicio)
        ELSE (d - inicio) % Passo(r.frequencia) = 0}

\* Days asked for that the loop never visits: those left of the event's own
\* week, and those of the last week when the event's weekday in it is past the
\* limit.
Esquecidos(r, inicio) ==
    IF ~PorDiaDaSemana(r) THEN {}
    ELSE {d \in DiasPedidos(r, inicio) :
            \/ Semana(d) = Semana(inicio)
            \/ Semana(d) + DiaDaSemana(inicio) > Limite(r, inicio)}

\* The occurrences are the days asked for but those, in order, up to the
\* total; the day of a monthly event is one every month has, and no day of
\* the week is given twice.
ComoPedido(r, inicio) ==
    LET oc == Ocorrencias(r, inicio)
        esperadas == DiasPedidos(r, inicio) \ Esquecidos(r, inicio)
    IN  /\ \A i \in 1..(Len(oc) - 1) : oc[i] < oc[i + 1]
        /\ ToSet(oc) \subseteq esperadas
        /\ Len(oc) < r.total => ToSet(oc) = esperadas
        /\ \A d \in esperadas \ ToSet(oc) : \A i \in DOMAIN oc : oc[i] < d
=============================================================================
