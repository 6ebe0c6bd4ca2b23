# Verification of the LiveShop back end

LiveShop runs live-commerce studios. A franchise unit (a *tenant*) owns booths (*cabines*); a
presenter starts a live in a booth for a client, the booth carries the contract the live is charged
to, and the live may come from an agenda event or from a request a client made. While it is on air a
connector counts what happens on TikTok; when it ends it gives commissions, figures and, twice a
month, an invoice. The back end is a Fastify application over PostgreSQL, with cron jobs, pollers and
webhooks in the same Node process. This directory holds TLA+ models of it, their TLC configurations
and TLAPS proofs. `PROJECT.json` (`map`) says which lines of `src/` each definition models.

## 1. Inventory

State lives in PostgreSQL rows; handlers are requests that interleave at every `await`. A route that
runs `BEGIN` and locks rows (`SELECT ... FOR UPDATE`) is serialised on those rows; `withTenant` only
gives a connection with the tenant set, so a route without `BEGIN` commits each statement by itself.
What lives in the memory of the process (connectors, streams, jobs) is lost at a restart.

| Component | State | Operations | Interacts with | Hard part | Correct when | Module |
|---|---|---|---|---|---|---|
| Booths (`cabines.js`) | `status`, `contrato_id`, `live_atual_id` | reservar, liberar, status, live-atual (repairs the row) | lives, contracts, trigger, poller, approvals | live-atual writes from two earlier unlocked reads | link => on air, to a live of that booth; hours charged to the contract of the start | `RotasCabines` |
| Lives (`lives.js`) | `status`, `cabine_id`, hours charged | iniciar, encerrar, manual, editar, excluir | everything | the contract is read from the booth at the end; retried ends, end against poller, deletion of a linked live | on air once, ends once, charged at most once | `RotasLives`, `CicloDaLive` |
| Requests (`solicitacoes.js`, `cliente_portal.js`, `cliente_dashboard.js`) | `live_requests.status` | solicitar, aprovar, recusar, agendar | booths, contracts | checks read other rows without a lock | reserve only free booths, bill the right client | `RotasSolicitacoes` |
| Agenda (`agenda.js`) | `agenda_eventos` | create (with recurrences), edit, cancel; put on air and concluded by lives | lives | events are matched by booth and day, not by live | one event per live; the days asked for | `RotasSolicitacoes`, `Recorrencia` |
| Contracts, audit, cleanup (`contratos.js`, `contratos_auditoria.js`, `cleanup_orphan_contracts.js`, trigger of migration 017) | status, days since review, audit events | create, sign, analyse, audit, activate, cancel; sweep | booths (trigger), clients | stale requests and a sweep that waits for a lock | decisions are recorded; refused contracts are resolved | `Contratos`, `Estudio` |
| TikTok poller (`services/tiktok.js`) | lives, booths, tokens | ends a live when TikTok says offline; renews tokens | lives, booths, account | three queries, no lock; may stop between them | no live charged or ended twice | `Estudio`, `ContaTikTok` |
| Connector manager (`tiktok-connector-manager.js`) | map of sockets, counters in memory | start, stop, flush, reconcile | lives, snapshots, streams | awaits between check and write; overlapping reconciliations; a package that may be missing | a connector while on air and none after | `Conectores` |
| Live streams (`routes/tiktok.js`) | listeners | /stream, /events | connectors, snapshots | initial frame read before, sent after | counters never go back | `Transmissao` |
| Billing and payments (`billing_engine.js`, `appmax.js`, `boletos.js`, `server.js`) | slips, marks on lives, replay log | half-monthly run, two webhooks, manual payment, overdue marking | gateways, lives | gateway calls inside a transaction, redelivery, several instances | a live on one slip, paid stays paid, no payment lost | `Cobranca` |
| Notices (`notify_boletos_vencidos.js`, `mailer.js`) | `notification_log` | send, log | slips | send and log are two steps; a call that fails may have sent | repeated only by a failure or another instance | `Cobranca` |
| Commissions, presenters (`commission-engine.js`, `vendas_atribuidas.js`, `live_apresentadores.js`) | attributed sales, cast | recalculate, edit, approve, refuse | lives | read then write without a lock; the month of a live and of its sale | sales follow the live; approvals respected | `Comissoes` |
| Availability (`apresentadora_disponibilidade.js`) | grid, blocks | replace grid, block, check | lives, requests | replacement in several statements; three queries | grid whole, "available" true | `Disponibilidade` |
| Sessions and users (`auth.js`, `usuarios.js`, `tenants.js`) | users, refresh tokens, links, `token_version` | sign-in, refresh, reset, invitations, forced sign-out | clients | several queries per request | single use; tokens die with their generation | `Acesso` |
| Leads (`leads.js`, `webhook_bio_crm.js`) | leads, stage, replay log | take, convert, move, delete, webhook | clients | two managers, redelivery with or without a replay log | taken and converted once; no more leads than deliveries | `Leads` |
| Monthly figures (`cliente_metricas_snapshot.js`) | a row per client and month | nightly job | lives | month turns, late corrections | the rows catch up | `Metricas` |
| TikTok account (`routes/tiktok.js`, `token-crypto.js`) | pair of tokens, account | login, renewal, withdrawal | poller | two renewers with stale copies | an expired pair is renewed | `ContaTikTok` |

The rest (videos, packages, goals, knowledge base, manuals, settings, dashboards, reports, regional
managers, HTTP set-up, migrations runner) is record keeping, read-only aggregation or plumbing; each
is listed in `PROJECT.json` with the reason it is left out. `hazards` there lists what is hard to
test, at its line, with the properties that cover it or the reason none does.

## 2. Structure

| Layer | Modules |
|---|---|
| Studio | `EstudioBase` -> `RotasCabines`, `RotasLives`, `RotasSolicitacoes` -> `Estudio` (composition, with trigger, poller, restarts) -> `CicloDaLive` (abstract), `HistoricoDoEstudio` (with the contract each live started under), `MCEstudio`, which also instantiates `Recorrencia`, and on it `MCPedidos` and `MCHistorico` |
| On air | `Conectores`, `Transmissao`, `MCConectores` |
| Money | `Cobranca`, `Contratos`, `MCFinanceiro` |
| Management | `Cobranca` (two instances), `Comissoes`, `Leads`, `Disponibilidade`, `MCGestao` |
| Panels | `Estudio`, `Metricas`, `ContaTikTok`, `MCPainel` |
| Access | `Acesso`, `MCAcesso` |
| Proofs | `EstudioProofs` (types, contract of a booth) -> `EstudioSafetyProofs`; `AoVivoProofs`; `FinanceiroProofs`; `LeadsProofs` -> `GestaoProofs`; `PainelProofs`; `AcessoProofs` |

Components that share no rows are not interleaved: an MC module that holds several of them has a
variable `cena`, chosen at the start and fixed, and a behaviour is of that component only, the others
staying in their initial states. The state space is then the sum of those of the components, and each
behaviour is one of its component's specification. In some scenes a bound keeps part of a component
still, and then `cena`, or a constraint, says which part is moving (section 4). Where components do interact they are
composed: the studio's routes, requests, agenda, trigger and poller in `Estudio`; a live that ends
while it is being billed in `Cobranca`, while it is being calculated in `Comissoes`, while it is being
connected in `Conectores`.

**What comes next**, in this order: `Transmissao` composed with `Conectores` over one map of sockets;
`Contratos` shown to implement what `Estudio` assumes of a contract; an abstract specification of
billing (each ended live billed at most once) implemented by `Cobranca`; a model of lock order for
`encerrar` against the trigger.

## 3. How state and actions correspond to the code

**Steps.** A handler that locks its row first and commits at the end is one action: every other writer
of the row either waits for the lock or is itself a single UPDATE, so its effect falls before or after.
Handlers that check in one statement and write in another, without a lock on what they checked, are
split at that point, and what they remember is a variable (`leitor`, `aprovacao`, `recusando`,
`poller`, `sinc`, `parada`, `motor`, `carta`, `calculo`, `pedido`, `requisicao`, `varredura`, `rotina`,
`consulta`, ...). The same is done inside a transaction when its lock is the question (`Leads.Trancar`,
`Disponibilidade.TrancarGrade`) or when it calls a gateway (`Cobranca`). A restart drops what is in
memory and rolls back what was not committed. A rejected request changes nothing and is not an action.

**Studio.** One tenant, one day. Tables are functions from fixed finite sets of row identifiers; a row
not yet created has status `nova` or `inexistente`; live identifiers are taken in increasing order, so
"newest first" is the greatest. `RotasCabines` has `Reservar`, `Liberar`, `MudarStatus` and GET
live-atual as `LerCabine`, `BuscarLive`, `CorrigirCabine`; `RotasLives` has `Iniciar`, `Encerrar`,
`LancarManual`, `Editar`, `Excluir`; `RotasSolicitacoes` pairs each check with its write
(`ValidarPedido`/`Solicitar`, `ValidarAprovacao`/`Aprovar`, `ValidarAgendamento`/`Agendar`,
`VerificarRecusa`/`Recusar`) and has the agenda; `Estudio` adds `Ativar`, `Desativar` (the trigger),
`MudarCliente`, the poller and `Reiniciar`. `LIMIT 1` with an ORDER BY over dates the model lacks is a
choice of any matching row (`UmOuNenhum`). `HistoricoDoEstudio` observes each step and adds two
variables no step reads: the contract the booth carried when a live went on air (`partida`), and the
lives a booth stopped naming while they were on air (`soltas`). Constraints of the schema that decide an outcome are part of
the actions: the status CHECK of migration 081 (a request for the status `ativa` fails, so
`StatusManual` has two values), `ON DELETE SET NULL` (`Excluir`), the foreign key met by a repair that
names a deleted live (`CorrigirCabine`), the CHECK `data_fim > data_inicio` (`AgendaConclui`). Of an
event's dates the model keeps whether it is for today and whether its hour has come. `origem` of a live
and `dono` of an event are not columns; both are in the append-only rows a start writes into
`cabine_eventos`, no guard reads them, and they let properties say where a live started. `horas[ct][l]`
counts deductions instead of summing hours.

**Recurrences.** `Recorrencia` is `calcularRecorrencias` as a recursive function over day numbers, and
a reference definition that says without a cursor which days a rule asks for. `MCEstudio` asserts, as
an assumption TLC evaluates over 240 rules and 19 start days, that the code gives the days asked for,
in order, up to the total, except those named by `Esquecidos`: days later in the event's own week, and
days of the last week when the event's weekday in it is past the limit. Two other departures are
excluded by name: a monthly event on a day some month lacks, and a weekday given twice.

**Connectors and streams.** `Conectores` keeps what `syncLives` sees of each live, the map, each
socket's state (with `dirty` and `flushing`), and every caller that may be inside `stopConnector`: the
cron's reconciliation, the one started by each POST of a live, `encerrar`, and `streamEnd`. The package
`tiktok-live-connector` is not in `package.json`: `biblioteca` says whether this process finds it, does
not (startConnector returns), or fails to load it (the reconciliation rejects). Counters
are only "changed or not" there; `Transmissao` keeps them as one growing number for each connector a
live gets, and follows them through INSERT, snapshot row, emitter and listener to each viewer.

**Billing.** A slip is its idempotency key (client, half-month). `motor[i]` is the transaction of an
instance, whose inserted slips and marked lives become visible at COMMIT; `cobrancas` is what the
gateway holds and no rollback takes back. A reported payment is repeated until answered 2xx. A notice
is checked in the log, sent and logged in three steps; a log that cannot be read says "not sent", and a
call that fails is logged as not sent although the provider may have taken the letter.

**Contracts.** All statuses a statement writes; `dias` counts days since the review up to `Bloqueio`.
The cleanup statement is two steps, because it fixes its rows when it starts and may wait for a lock.

**Commissions.** A calculation reads the cast, then for each presenter reads the month's total and the
sale, and writes it in a later query. Dates are their months, in UTC: the total is that of the month of
`iniciado_em`, the sale an end writes is dated by the day of the end, and the calculation dates it by
the start again; the clock may turn the month at any moment. `ultima[l]` records the GMV last sent to the engine and whether
anything disturbed that calculation, so that properties speak of undisturbed ones.

**Access.** A request is a record of what it has read; `geracao` counts, beside `token_version`, how
often the sessions of an account were ended, so that `JwtDaGeracao` can compare the two. `jwt` is any
one of the tokens signed so far, and `Aceito` is the check of its version, which lets a token pass when
its query fails or the user has no row. Passwords and expiry are left out.

**The others.** `Leads`: rows of leads, the open transaction of each manager, deliveries of each
submission; `protegido` is the setting `WEBHOOK_REPLAY_PROTECTION` of the server, which is off unless it
is set, and both are explored. `Disponibilidade`: one presenter and one date, hours as points;
`RecuoDaSessao` is the day that `AT TIME ZONE` moves back, 0 when the database session is in São Paulo
time, 1 when it is in UTC. `Metricas`: number of lives and revenue of a client's month.
`ContaTikTok`: a stored pair is an account, how long it holds, and how many layers of encryption its
text has, since one of the two renewers decrypts twice.

## 4. What is checked

| Run | Instance | Shows |
|---|---|---|
| `cabines` | 2 booths (symmetric), 2 lives, 1 contract, 1 reader, poller | `TypeOK`; a linked booth is on air (`VinculoAoVivo`), linked to a live that started in it and exists (`VinculoDeOrigem`); hours deducted once, from one contract, after the end (`HorasUmaVez`); reserved booths carry active contracts when no reservation comes from a request (`ReservaComContratoAtivo`); refinement of `CicloDaLive` (`CicloRespeitado`) |
| `planejado` | 1 booth, 2 lives; 2 clients (one may fall into debt) and contracts with 2 overlapping requests, or 1 client with a brand, 1 event made by hand and 2 made by starts, not both at once | a reservation goes on air with a contract of the same client (`ReservaDoMesmoCliente`), with approvals between their check and their write; no live owns two events (`UmEventoPorLive`); evaluates `RecorrenciaConfere` |
| `contratos` | 1 booth, 2 lives, 2 contracts of 2 clients, 1 request, 1 reader, poller | the hours of a live go to the contract its booth carried at the start, unless the booth let the live go (`HorasDaPartida`) |
| `painel` | 1 booth, 2 lives, 1 reader, poller; 2 measured lives, 2 clients, 3 months, 1 correction, 1 failure; 2 units (one active), 1 account, 1 login, 1 failure | booths stuck on air are freed (`CabinePresaSeSolta`), orphan lives are linked again or end (`OrfaSeLiga`), the history catches up (`HistoricoAlcanca`), an expired pair is renewed (`ExpiradaSeRenova`) |
| `conectores` | limit 1 and 2 sockets, in a scene of 1 live with both reconciliations, all callers of stop and the package there, missing or broken, and a scene of 2 lives that compete for the place; 1 viewer, 2 connectors, counts to 2, 1 failed flush | no silenced entry stays in the map (`EntradaMorta`), one INSERT at a time and the flag always released (`TravaDoDespejo`), a live on air gets a connector if no other live on air takes the place and the package is there (`AtivaGanhaConector`), an ended one leaves the map (`EncerradaSaiDoMapa`), counters shown never go back (`QuadrosNaoVoltam`) |
| `financeiro` | 1 live, 1 client, 1 instance, 3 half-months, 1 failure; 2 contracts of 1 client, deadline 1, block 2 | a billed live has a committed slip of its client (`FaturadoComBoleto`), a reported payment arrives (`PagamentoRegistrado`); audited statuses carry their event (`EventoDoStatus`), refused contracts are resolved (`ReprovadoSeResolve`) |
| `gestao` | billing as above on 2 instances; 2 lives of 1 presenter, 2 months, 2 calculations, GMV 1 or 2, high band from 3, 1 edition; 2 leads, 2 managers, 2 submissions delivered twice, protection on and off; 2 editors, 3 grids, a UTC session | a live is on one slip (`LiveEmUmBoleto`), paid stays paid (`PagoFicaPago`), notices do not repeat without a cause (`AvisoNaoSeRepete`); sales follow the live (`VendaAcompanhaLive`), one of two ends sees both (`FaixaDosFins`), approvals hold (`AprovacaoRespeitada`); leads taken and converted once (`LeadDisputado`), at most one lead per submission with the protection, no more than its deliveries without (`LeadsPorEnvio`); the grid is whole (`GradeInteira`), "available" is true (`DisponivelDeFato`) |
| `acesso` | 2 accounts, 1 client, 1 refresh token, 1 link, 2 requests, 2 versions | one-use credentials used once (`CredencialUmaVez`), one user per client (`UmUsuarioPorCliente`), a token of an ended generation refused while the version can be read, one of the current generation always accepted (`JwtDaGeracao`) |
| `uma_live`, `reconexao`, `cobranca_unica`, `disponibilidade` | small instances | counterexamples to what the repository says (section 6) |

**Why the bounds are enough.** The lock is per booth and queries filter by booth, so two booths show
every cross-booth effect; two lives are needed for a stale link to outlive its live and for a second
start; one reader and one poller, each able to sleep between its statements while all routes run, show
every race of a stale decision with a fresh writer. Two overlapping requests are the smallest conflict.
For connectors, the map is per live and the callers of `stopConnector` are all there; two sockets let a
new one replace one still being stopped, and limit 1 is reached by one live, so that a second must wait
for its place; with two lives the counters, `liberar` and `streamEnd` stay still and reconciliations do
not overlap, since the first scene has all of these. Two contracts of two clients and two lives let the
booth of a live on air be reserved or taken for another bill. Two connectors and two counts
make a late INSERT of one overtake the other. Three half-months let a slip be issued, fall due and be
followed by another run; two instances race for the lock and the notices, one failure is a crash or a
lost answer at every point. Two months are a live that turns the month; in that scene either the month
turns or somebody edits or a write fails, and the sales are those of the presenter
(`LimitesDasComissoes`). The presenter has one live at a time in the scene of her calendar
(`UmaLiveDela`): conflicts are found one by one. Two contracts of one client meet the block after a refusal. Two lives and two calculations
are two ends at once, and two calculations of one live. Two managers, two editors, two deliveries and
two requests are the smallest races; three months give a month before the previous one, and a turn of
the year has no special case in the code but the `MesAnterior` of the mutant. One viewer, reader,
account or poller is enough because they do not write to each other. For what is not liveness the
proofs cover every number of each of these. Bounds are the constants marked `bound:` in
each module and, in the MC modules, the bounds named here, `NaCena`, `TrocaDePacotes` and `UmAssunto` (the
action constraint of `planejado`: requests and contracts, or the agenda), and nothing else is bounded. `gestao` takes instances and calculations as interchangeable (`Simetria`),
`acesso` accounts and requests: neither checks liveness. Deadlock is checked but in `financeiro`, `gestao`, `acesso`,
`cobranca_unica` and `disponibilidade`, whose instances end when their bounds are used up.

**Fairness.**
* `PainelConsulta` (booths): the back end runs no repair by itself; the panel that shows a booth asks
  again and again (strong fairness of `LerCabine`, since a reader may be busy with another booth), a
  request that began ends, and the process does not restart for ever. This is an assumption on the
  deployment: a studio nobody watches stays stuck.
* `CronRoda` (connectors): the cron fires every minute, queries and calls answer (weak fairness of each
  reconciliation, with the stop it may be in), the process does not
  restart for ever, sockets do not outlive their broadcast. TikTok may refuse every connection.
* `AvisosChegam` (payments): the gateway reports until answered 2xx, the handler answers.
* `VarreduraDiaria` (contracts): requests end, days pass, the job runs daily.
* `FechamentoDiario` (figures) and `RenovacaoDiaria` (account): the crons fire and their calls end.
Nothing is assumed of users. Failures are bounded by constants, which is why a job that may fail once
still gets through; TikTok's refusal of a withdrawn account is not a failure in this sense.

## 5. What is proved

For every value of the constants that meets the named assumptions of the modules. Those say that the
"nobody" values are not rows, give the types of constant functions and limits, and ask that the sets
that are counted or summed over be finite (`InstanciasFinitas`, `TransmissoesFinitas`), as servers and
rows of a table are, and that there be a half-month and a client to speak of (`PeriodosNaturais`,
`HaClientesMedidos`), without which the initial values have no type. TLC evaluates them on every run.
Every invariant and every action property of the passing
runs is a theorem. The modules that hold several components prove that a behaviour of the instance is
one of each component (`AoVivoImplementa`, `FinanceiroImplementa`, `GestaoImplementa`), so a theorem of
a component is one of the instance.

**The studio**, in `EstudioProofs` and `EstudioSafetyProofs`.

* `TipoCorreto`, one lemma per group of actions.
* `ContratoSempreFixoNoAr` (a booth that stays on air keeps its contract) and
  `ReservaSempreDoMesmoCliente`, from one lemma on how a step changes a booth's contract; `ReservaSempreComContratoAtivo` under the hypothesis that there are no requests,
  which is exact (section 6).
* `VinculoSempreAoVivo`, `VinculoSempreDeOrigem`, `HorasSempreUmaVez`. The facts about links are not
  inductive: live-atual writes what it found earlier, and the poller ends what it found earlier.
  `VinculosInv` adds what those memories may still be trusted for: a reader about to write holds a live
  that did start in that booth (`LeituraDeOrigem`), the poller's target has started (`AlvoDoPoller`), a
  live on air has not left the booth where it started (`NoArNaOrigem`). `HorasSoNoFim` (nothing deducted
  before the end) makes `HorasUmaVez` inductive.
* `HorasSempreDaPartida`: the studio with its history. `HorasDaPartida` speaks of what was charged, so it
  needs `NoArComPartida`: a live on air that its booth never let go is still the one the booth names, and
  the booth still carries the contract of the start. This is kept because a booth on air keeps its
  contract, and only a free or reserved booth can be started in.
* `EventoSempreUmPorLive`; inductive with `DonoIniciou` (an event that names a live names one that
  started), so a start finds no event of its own live.
* `CicloSempreRespeitado`, the refinement: initial states map to initial states and each step to a step
  of one live or a stutter, using the invariants above for the deductions.

**On air**, in `AoVivoProofs`. `EntradaSempreViva` and `DespejoSempreUnico` rest on `ConectoresInv`: a
socket in use, an entry of the map and whoever is inside stopConnector agree on the live
(`DonosCertos`), and the in-flight flag of a socket is down with nothing on its way, or up for exactly
one INSERT, the periodic one or the final one of one caller (`UmVoo`). `UmVoo` is what lets the count in
`TravaDoDespejo` be that of a set with at most one element. `QuadrosNuncaVoltam` needs `NadaAdiante`:
whatever is stored, emitted, remembered as the initial frame or shown is no more than the total of its
connector, which only grows, and a viewer without a stream has seen nothing.

**Money**, in `FinanceiroProofs`. `SempreFaturadoComBoleto`, `LiveSempreEmUmBoleto`,
`PagoSempreFicaPago`: an instance inside its transaction holds the advisory lock (`UmMotor`), so what it
read (no slip with this key, this live not billed: `MotorCoerente`, `NadaFeitoAntes`) is still true when
it commits. `AvisoNuncaSeRepete` is not about a lock: two instances read the log before either writes
it. The bound is one letter for each instance and one for each failure: a crash, a letter taken whose answer
was lost, a row not written, a log that could not be read. `CartasContadas` counts, per slip, the letters
sent against the instances still between their read and their row, in two regimes, before the row is
there and after; the count is over sets of instances,
with the library's facts about cardinality. `ContratosEventoDoStatus` is inductive with the types alone
because no stale request writes one of the four statuses it speaks of (`ResultadosConhecidos`), and the
audit and the sweep write status and event together.

**Management**, in `GestaoProofs` and `LeadsProofs`.

* `GradeSempreInteira`: only one editor is inside the replacement, and what it deleted are all the rows
  there were (`TravaDaGrade`).
* `SempreDisponivelDeFato`: `ConsultaAteAqui` says, query by query, what an undisturbed check has
  established so far. "Available" is true against the grid of the weekday the check reads, in a session
  of any time zone; `DiaDaSessao` says which day that is, the date's own in São Paulo time and the day
  before in UTC (section 6).
* `VendaSempreAcompanha`, `FaixaSempreDosFins`: `ComissoesInv` says for each live what its last
  undisturbed calculation has credited so far and whom it has still to credit (`LiveCoerente`), and for
  each pair of ends, of lives begun and ended in one month, that reach the high band together, that the main presenter's sale of one of them is
  still to be read, or was read with the total of both, or was written so (`ParesVistos`). That an end which read the total got the
  band needs the total, a fold over the lives of the month, to cover each of them. The fold is shown to
  exist and to be a sum by taking, among the subsets of lives for which it would not, a smallest one
  (`MenorSubconjunto`, from the library's well-founded order on finite sets): the induction that the
  provers cannot instantiate as a scheme is done as a choice of a minimal counterexample.
* `AprovacaoSempreRespeitada`: only the write of a calculation, a refusal, or a person changes a status.
* `LeadsSempreTrancados`, `LeadsSempreDisputados`, `LeadsSemprePorEnvio`, `LeadsTipo`. `LeadsInv` joins
  what was read under the lock (`LeituraTrancada`), that no two transactions hold one lead
  (`TravaUnica`), and how conversions and takings are paid for by reopenings (`ContasDosLeads`);
  `EnviosInv` has two parts:
  with the protection, a delivery in progress and a lead of the same submission exclude each other, and
  there is neither before the nonce (`NonceInv`); always, leads and deliveries in progress together are
  no more than the deliveries made (`ContaInv`).

**Panels**, in `PainelProofs`: `PainelTipo`, whose type of a stored pair of tokens says that its text is
encrypted at most once, whichever of the login and the two renewals wrote it.

**Access**, in `AcessoProofs`: `AcessoTipo`, `JwtSempreDaGeracao`, `ClienteSempreDeUmUsuario`,
`CredencialSempreUmaVez`. `AcessoInv` says that a version and the ends of sessions are counted together
(`ContasCertas`), and that whatever a request or a token read of an account is not later than now
(`Lida`, `Valido`, `JwtValido`), unless the account was removed, which is for ever. The link of a client
to its user is kept by `VinculoPasso`, case by case of what writes either; `CredenciaisInv` adds that an
accepted invitation leaves its mark on the account, and a used link is dead.

**Only model-checked.** What must eventually happen (`CabinePresaSeSolta`, `OrfaSeLiga`,
`HistoricoAlcanca`, `ExpiradaSeRenova`, `AtivaGanhaConector`, `EncerradaSaiDoMapa`,
`PagamentoRegistrado`, `ReprovadoSeResolve`): fairness and ENABLED are out of the prover's reach.
`Recorrencia`, whose recursive function over day numbers would need an induction over data. The four
counterexamples of section 6 are TLC's by their nature.

## 6. Where code and repository disagree

Each run that must fail is one; `PROJECT.json` (`findings`) quotes the line.

* `uma_live`: liberar clears a booth while its live is on air, and a second live starts in it, although
  `docs/ops/error-codes.md` says a start is refused then.
* `reconexao`: the log says the cron will reconnect a dropped socket; its entry stays in the map and no
  reconciliation replaces it.
* `cobranca_unica`: the deterministic key meant to prevent a double charge is never sent to the gateway;
  a rollback or crash before COMMIT leads to a second charge.
* `disponibilidade`: the availability check looks for approved requests by the presenter's user, while
  they name the presenter: none is ever found.

The models reach others, which TLC exhibits when the corresponding formula is asked of `Estudio`; they
are recorded under `hazards` and not kept as runs: a start whose client has no active contract keeps
the inactive one the booth carries (`lives.js:216`); an approval reserves with a contract cancelled
after it was read (`solicitacoes.js:131`); two overlapping requests validated at the same time are both
approved (`solicitacoes.js:114`); a live that took an event planned for later today cannot be ended
before its hour, and ending a live concludes the event of another (`lives.js:939-941`). In `Acesso`,
two refreshes with one token both get a session (`auth.js:102-117`). In `Cobranca` with
`Protecao = TRUE`, a payment whose report failed once is lost, since its redelivery is answered as a
replay (`appmax.js:98`); `PagamentoRegistrado` is checked with the protection off, its default.

Some properties hold only up to what the code lets pass, and name the exception:

* `HorasDaPartida`: a live that `liberar` set loose while on air and live-atual linked again is charged
  to the contract its booth carries by then (`cabines.js:424`, `lives.js:928`).
* `AtivaGanhaConector`: without the package `tiktok-live-connector`, which `package.json` does not list,
  a live stays "connecting" for ever (`tiktok-connector-manager.js:160-169`).
* `AvisoNaoSeRepete`: a letter the provider took, whose answer was lost or an error, is logged as not
  sent and sent again at the next run (`mailer.js:131-165`).
* `FaixaDosFins`: of two lives that turn the month in UTC neither may see the other, because an end
  dates its sale by today and the total looks at the month of the start (`lives.js:918`,
  `commission-engine.js:46-47`, `86-92`); then neither gets the band.
* `LeadsPorEnvio`: by default nothing is remembered of a submission and every delivery may insert a lead
  (`webhook_bio_crm.js:160`); with the protection, the redelivery of a failed one is refused and the
  submission may leave none.
* `DisponivelDeFato`: `plugins/db.js` sets no time zone. In a UTC session, which the comment at
  `apresentadora_disponibilidade.js:251` presumes, `date AT TIME ZONE` is the evening before and the check
  reads the grid of the day before: the answer is true of that grid, not of the date's.
* `JwtDaGeracao`: when the query of the version fails any token passes (`plugins/auth.js:44-46`,
  documented at `25-26`), and so does that of a user whose row is gone (`:40`), until it expires.

A query that fails in the agenda part of a start is caught so as never to block the live
(`lives.js:172`, `335`), but the transaction is aborted by then and the start is refused; nothing is
committed, and the models leave failing queries inside a start out.

## 7. Not modelled

* Inside modelled components: creating, renaming and deleting booths; notifications to closers; the
  circuit breaker and the degraded status of connectors; products that turn chat into orders; editing
  the values of a contract; queries that fail in the middle of a start (it commits nothing); the insertion of a series of events
  row by row; the on-air branch of the poller, which names no live of the table; profile edits.
* The deadlock PostgreSQL may break between `encerrar` (booth, then contract) and the trigger
  (contract, then booth): handlers that lock are single steps, so no wait is visible.
* Read-only aggregation (dashboards, analytics, reports, finance): large queries without state, whose
  result is arithmetic over dates and sums that finite instances would say little about.
* Videos, packages, goals, knowledge base, manuals, settings, onboarding: single-row record keeping.
* Regional managers: a list replaced in one transaction; without the lock of the grid of
  `Disponibilidade`, two replacements at once may leave the units of both.
* Database access (pool, tenant scope), the migrations runner, the HTTP application.
