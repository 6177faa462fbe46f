# l10n_ar_arca_edi in TLA+

`l10n_ar_arca_edi` is an Odoo addon that authorizes Argentine electronic
invoices: it asks ARCA, the tax agency, for a CAE (authorization code) for each
posted invoice. A CAE is a fact of law. ARCA cannot be rolled back with a
database, a number can be authorized once, and a request whose answer is lost
may have been authorized. These specifications say what the addon does about
that, and check and prove that it works; where it does not, they say where.

Paths below are relative to `src/`.

## 1. The system

| Component | State | Operations |
|---|---|---|
| Fiscal protocol (`models/account_move.py`) | `state`, `l10n_ar_arca_state`, `l10n_ar_arca_cae` of an invoice | `_post`, `button_draft`, the authorize button, the authorization job, the after-commit hook, all through `_l10n_ar_arca_authorize`; the reconcile button |
| Attempts and reconciler (`models/l10n_ar_arca_attempt.py`) | one row per request: sent, authorized, rejected, uncertain, aborted; a partial unique index over authorized ones | `_mark_*`, `_reconcile`, `_reconcile_isolated`, the reconciling job, a button |
| Fiscal transaction (`models/fiscal_transaction.py`) | an advisory lock on one connection, the work on another | `fiscal_transaction`, `checkpoint` |
| WSAA tickets (`models/l10n_ar_arca_wsaa.py`) | the tickets of all services, in one JSON field of the certificate | `_get_or_refresh_token`, `_authenticate` |
| Certificate (`models/l10n_ar_arca_certificate.py`) | draft, csr_generated, active, expired, revoked; key, certificate, tickets | generate key and CSR, process a certificate, revoke, the expiry job, `_check_usable` |
| WSFEv1 client (`models/l10n_ar_arca_wsfe.py`, `arca_errors.py`) | none | `fe_cae_solicitar`, `fe_comp_consultar`, `fe_comp_ultimo_autorizado`, and what their exceptions and answers are taken for |
| Building the request (`account_move.py`, `constants.py`) | the header and detail under construction | `_l10n_ar_arca_prepare_request` and the helpers it calls |
| Scheduled actions (`data/ir_cron_data.xml`) | the list each run works through, 50 records at most | reconcile, authorize pending, expire certificates; the hook after a posting |
| Company and settings (`models/res_company.py`, `res_config_settings.py`), wizards | the certificate a company uses, automatic requests | choose, switch, create in a wizard |
| Migration (`migrations/`) | where the material is kept | refuses while any of it is in attachments |
| Homologation tools (`tools/`) | one pinned certificate, the commit the database was prepared for | the bootstrap, one transaction; the runner's preflight |
| QR, reports, views, access rules | none of their own | declarations and formatting |

How they meet. The authorization and the reconciler run the same code on
different workers; they meet at an advisory lock per numbering sequence
(issuing CUIT, point of sale, document type), at the rows of the invoice and
its attempt, and at ARCA. Each runs in a transaction under REPEATABLE READ with
commits (checkpoints) in the middle of the protocol; a commit that rewrites a
row another transaction rewrote meanwhile is refused. Every call to ARCA needs a
ticket from WSAA, which lives about twelve hours, of which ARCA grants one at a
time per service and certificate, and which is cached in a row the user may be
changing. The scheduled jobs run the same operations over lists of invoices and
attempts, and the bootstrap writes the certificates, companies and settings they
depend on.

What is hard, and makes the components correct:

- *The protocol.* A crash, a lost request, a lost answer or a refused commit
  between any two steps must leave neither a forgotten voucher nor an invoice
  that is sent twice. A check made before the lock is stale when it is held. The
  holder of a lock may die.
- *The reconciler.* Its list is stale when it acts; its subject's sender may be
  alive; what it finds under a number may be another's; it must get there.
- *Tickets.* Several callers miss the cache together; the row changes under a
  login; the ticket must not die with the caller's transaction, since ARCA would
  refuse another; the cache must not outlive the ticket.
- *Certificate.* The key must be that of the CSR; revocation is final.
- *WSFEv1 client.* "Nothing happened at ARCA" may be concluded only when it is
  so, whatever exception or answer ends the exchange, and at whatever stage.
- *The jobs.* One hopeless record must not stop the others; a list is stale when it
  is worked through; fifty hopeless records fill it.
- *The bootstrap.* It decides in a snapshot and commits at its end; it may run
  twice at once; it must overwrite nothing, and leave what its runner accepts.
- *The request.* Refused here with words rather than by ARCA with a number; what
  it says of the VAT adds up.

`PROJECT.json` lists every hazard at its line.

## 2. The modules

| Module | What it is |
|---|---|
| `ArcaProtocol` | the fiscal protocol, its reconciliation, its failures, and ARCA |
| `FiscalPromise` | what the protocol promises, in four actions; implemented by `ArcaProtocol` |
| `WsaaTickets` | one certificate, its tickets, and the callers that want them |
| `WsfeExchange` | one request and the queries that settle it, by exception and answer |
| `InvoiceRequest` | building the request of one invoice |
| `Authorization` | `InvoiceRequest` and then `WsfeExchange`: one `_l10n_ar_arca_authorize` from end to end |
| `ScheduledJobs` | the lists of invoices that are worked through unattended, over `ArcaProtocol`'s steps taken whole |
| `Homologation` | certificates, companies and settings of a database; the upgrade, the bootstrap and the runner |
| `MC...` | constants for TLC |
| `..._proofs` | theorems; `ArcaProtocolOrder_proofs` and `ArcaProtocolFull_proofs` extend `ArcaProtocol_proofs` |

### ArcaProtocol

A step is what happens between two moments at which the code can be interrupted:
a commit, an exchange, a lock attempt. A worker is an RPC, a scheduled action or
an after-commit hook; `pc` is where it is:

| `pc` | in the code |
|---|---|
| ready | the first check has passed, the lock has not been asked for |
| locked, checked | under the lock; the number has been compared with ARCA's counter |
| evidence | the attempt and "processing" are committed, nothing is sent |
| waiting | in `fe_cae_solicitar` |
| listed | the reconciler has chosen an attempt |
| consult, apply | in `fe_comp_consultar`; its answer is being written |

`dirty[w]` says that someone has rewritten the worker's invoice since its
transaction took its snapshot, so that its commit will be refused
(`CommitRefused`). At "evidence" the checkpoint has ended one transaction and
the next has read nothing; it takes its snapshot by reading the certificate just
before the request leaves (`Send`). `Crash` is the death of a process and any
exception the protocol does not catch: both roll the work back to the last
checkpoint and drop the lock. An RPC that Odoo retries is a button pressed
again. A voucher is identified with the request it was issued to.

Assumed: ARCA authorizes only the next number of a sequence; an attempt grows
stale (`STALE_ATTEMPT_MINUTES`, longer than every timeout of a request) only after
its request was sent and disposed of; "aborted" and "rejected" are said only of
requests without a voucher; and, in `Spec`, that ARCA has disposed of a request
when its sender gives up. The third is not quite true of the code: `WsfeExchange`
shows the two ways in which it fails (`WrongWriteOffs`), so what is said of
`ArcaProtocol` is said of executions without them. Even then
`_l10n_ar_arca_check_sequence` stops the next request, since ARCA's counter has
moved on; the voucher is without its invoice, and not issued twice. `SpecFull`
drops the last and adds the two reconcile buttons, which take no lock and look at
no age. The number of an invoice does not change (Odoo keeps it through drafts).
The button's loop over attempts is one attempt long, which `EvidenceOfUnresolved`
shows it to be.

### WsaaTickets

One certificate row. A unit of time is much longer than `WSAA_TIMEOUT`, so
`Tick` waits for an answer in transit. A caller reads the cache on its own
cursor, takes the service's lock, reads the cache again, asks WSAA and commits
the ticket in a transaction of its own. Actions on the certificate are atomic,
at their commit; the first committer wins, and a login whose row was rewritten
loses its ticket (`StoreRefused`). ARCA refuses a login while a ticket of the
service lives. A new certificate has fresh tickets; the same one uploaded again
keeps them. `_check_usable` writes "expired" and raises, which rolls the write
back: the model writes nothing. The CUIT of the holder is a possible refusal of
`ProcessCertificate`. Changing the certificate in its form, past
`action_process_certificate`, is not an action of the model (section 5).

### WsfeExchange

One `FECAESolicitar` from its committed attempt on, then any number of
`FECompConsultar`. The exceptions are the types and texts that
`_classify_transport_exception` and `_call` tell apart; the answers are the
shapes that `_parse_cae_response` and `fe_comp_consultar` tell apart: records of
three fields. `leg` is how far the exchange has gone.

The environment is as hostile as the network and ARCA can be. A connection may
break before, while and after the request is sent, and before ARCA acts on it or
after. A failure of TLS or of a proxy may come at each of these stages, and with
the same text: requests raises `SSLError` for a TLS failure of a read too, and
urllib3 1.26 calls any socket error behind a proxy a `ProxyError`. Those are
`Ambiguous`. An answer may lack any part, or everything: "P" without a CAE, a
voucher found without its CAE, no errors and no voucher. Assumed is only that what
an answer says is true (`TrueOfRequest`, `TrueOfQuery`), and that a SOAP fault is
raised before the operation runs (`l10n_ar_arca_wsfe.py:151-153`).

What the code then promises is stated twice. `RetryIsSafe` is what its comments
say, and fails (`lost_answer`). `WrongWriteOffs` and `CaelessApprovals` are what
remains: each names the answers and exceptions that mislead the code, and says
that nothing else does.

### InvoiceRequest

The steps of `_l10n_ar_arca_prepare_request` in its order, each of which takes the
part of the invoice it reads and adds to the request or refuses. Choosing each
part when it is read is choosing the invoice beforehand. The check of the number
against the journal's point of sale, which `_l10n_ar_arca_authorize` makes just
before, is part of `DocumentNumber`. A rate is in units of 1/`Scale`, which stands
for the six digits of `MonCotiz`, and a quotient half-way between two may be
rounded either way. Amounts are cents, already rounded by l10n_ar. In binary a
difference of exactly one cent falls on either side of `AMOUNT_ABSOLUTE_TOLERANCE`
according to the total (0.11 against 0.12 is within it, 0.12 against 0.13 is not),
so at the edge of each tolerance `CheckTotal` may decide either way.
`TotalsAssumption` takes from l10n_ar that the VAT lines of an invoice add up to
the totals it computes apart. The format of dates and numbers and the payment's
due date are left out.

### Authorization

The two halves of `_l10n_ar_arca_authorize` in their order: a request that is
refused while it is built leaves no attempt, and one that is built is sent
(`Send`) with its attempt committed. `Conclude` is any step of the exchange. After
`Send` nothing reads the request again, so it is cleared.

### ScheduledJobs

A step is one invoice or attempt of a list; what happens inside it is
`ArcaProtocol`. From there are taken, as facts, that an invoice has one open
attempt at most (`EvidenceOfUnresolved`) and that a request and its answer are one
step for everyone who does not hold the lock. So an attempt is named by its
invoice, and its place in the order by id is `turn`. `list[j]` is what a job has
still to visit: `StartAuthorizing` takes the first `Limit` pending invoices by date
and name, `StartReconciling` the first `Limit` by id of the attempts in `due`, which
are uncertain, or were sent more than `STALE_ATTEMPT_MINUTES` ago. A visit answers,
loses its answer or fails; a failure changes nothing and the job goes on; a death
drops the list. `askedWith` is the attempt's certificate, with which it is
reconciled whatever the company uses by then; `usable` are those `_check_usable` lets
pass. Users post, reopen, press both buttons, spoil and mend invoices, load and
choose certificates between any two visits.

### Homologation

The certificates of a database, with their material, owner and environment; which
one each company uses; automatic requests; the external identifier; the recorded
commit. The bootstrap reads, decides and aborts in one snapshot (`StartBootstrap`,
whose outcome is a `plan`) and writes at its commit (`CommitBootstrap`), which
PostgreSQL refuses if a row it writes was rewritten since (`touched`), if the
external identifier exists by then, or if the certificate it links is gone
(`Committable`). In between, users and the expiry job act as they do in the addon,
and so does another bootstrap. `hand` marks a certificate whose file was saved, or
emptied, in the form, which compares it with nothing: some promises exempt it, and
say so. `Upgrade` is `pre-migrate.py`; `Preflight` is what the runner requires. Two
facts are of Odoo: unlinking a record removes its external identifier, and
empties the companies' reference to it.

## 3. The runs

| Run | Instance | Distinct states | Shows |
|---|---|---|---|
| `protocol` | 2 workers, 2 consecutive invoices, 3 requests | 405 017 | the safety of the protocol, and that it implements `FiscalPromise` |
| `protocol_full` | `SpecFull`, 2 requests | 238 238 | what remains true with the buttons and a late ARCA |
| `protocol_live` | `FairSpec`, 1 invoice, 2 requests | 19 337 | every attempt is settled, every lock released |
| `tickets` | 2 callers, 2 services, 2 keys, tickets of 4, margin 1 | 10 933 | the safety of tickets and certificate under every failure, and where a live ticket is lost |
| `authorization` | 12 types, 5 sets of VAT lines, 6 differences, 2 rates; every exception and answer | 65 719 | what is built is acceptable, and which failures and answers mislead the client |
| `jobs` | `FairSpec`, 3 invoices, 2 sequences, 2 certificates, lists of 2, 1 upset | 88 896 | nothing is forgotten or asked twice by the jobs; nothing able waits for ever |
| `homologation` | 2 certificates, companies, keys and bootstraps, 1 commit, 4 acts | 432 877 | the bootstrap's promises, whoever acts under it |
| `manual_button`, `reopened`, `ticket_renewal`, `lost_answer`, `class_a` | as their passing siblings | | a behaviour the documentation excludes (section 5) |

Why the bounds suffice. Interference in the protocol is between two holders of one
sequence, and between an earlier request and a later one: two workers, and two
invoices with consecutive numbers, of which a third request lets one be aborted,
tried again and overtaken. Workers and attempts are interchangeable, and symmetric
in the runs without liveness. For tickets, two callers race for one service while
another service rewrites the row; lifetimes 4, 2 and margin 1 are the smallest in
which "live but not usable", "assumed shorter than granted" and "dead" differ. In
`authorization` the exchange has no bound: its state space is finite. The types
have one member of each class and kind, one refused for each reason; the
differences lie on both sides of one cent and of 0.01 per cent of the totals; of
the rates, one is below 1 and one above. In `jobs` a list of two is full with two
hopeless records, and the third is the one that waits; two invoices are
consecutive in a sequence, so that one depends on the other, and the third is not.
One upset puts a user's act or a death between any two visits. In `homologation`
each thing is doubled once: two runs race, two certificates and companies may be
mixed up, two keys may not match; four acts are enough to create, load, revoke and
save a certificate around a run. Deadlock is not checked: the number of requests
is bounded in the protocol, an invoice is built once, an exchange ends, and the
jobs have nothing to do when everything is settled.

`Quiet` and the fairness. `EveryRequestSettles` says that once users stop
reopening invoices and starting requests, every attempt is settled with no
button pressed. The assumptions are those of `FairSpec`: a worker inside the
protocol goes on, fails or dies, since every exchange has a timeout; ARCA or the
network disposes of every request; time passes; and the reconciler, which the
scheduler starts every 15 minutes, is not struck by a failure every time, and
not always while the sequence is busy (strong fairness).

The limit of 50 is in `ScheduledJobs`. Its fairness is of the same kind: the scheduler
starts both jobs again and again, a job that lives goes on to its next record,
not every visit that could succeed fails, and attempts grow old; deaths and users
are bounded by `MaxUpsets`. The authorization job is inactive in a fresh install
(`data/ir_cron_data.xml:65`): `AuthorizedInTurn` is said of a database where it was
switched on. Both liveness properties name the exception that is real: `Limit` older
records, none of which can succeed, fill the list for ever.

Each property is paired in `PROJECT.json` with a definition named `Bug...`,
a plausible slip in the code it is about, which makes it fail.

## 4. The proofs

Proved for any invoices, attempts, workers, sequences, companies, callers,
services, keys and times, from the named assumptions of the modules (types of
the constants, `None` outside them).

*The protocol* (`ArcaProtocol_proofs`). None of the safety properties is
inductive. That no voucher is written off depends on what a worker knows when it
writes: a refusal is recorded only by the worker whose request was refused, an
absence only by one whose query found none while none was in flight, and none of
this may have changed since it was read. `WorkerInv` says what a worker read
under the lock and that it is still true unless `dirty`, in which case its commit
is refused; `AttemptInv` relates an attempt's state to ARCA's: what is issued was
sent, what is in flight is open, what is authorized was issued. `IInv` joins them
with `TypeOK` and `EvidenceOfUnresolved`. From it follow `MutualExclusion`,
`VoucherIsTracked`, `SettledIsFinal`, `AuthorizedIsFinal`.

*Order and ownership* (`ArcaProtocolOrder_proofs`). Under `DistinctNumbers` (no two
invoices with one number in one sequence) `NumberInv` adds that the number
checked is still the next one when it is sent: `RequestsInOrder`, `CaeIsOwn`.
Two companies with one CUIT may break the assumption, and then `CaeIsOwn` fails.

*The promise* (`ArcaProtocolOrder_proofs`). `KeepsPromise`, a refinement: an
attempt recorded is `Ask`, ARCA's approval is `Issue`, a CAE received or found is
`Learn`, a refusal or an absence is `Reopen`, and everything else stutters.

*The buttons* (`ArcaProtocolFull_proofs`, of `SpecFull`). When users reconcile
without the lock and ARCA acts on a request whose sender has given up, `IInv` is
lost: an attempt may be settled while its author still works on it, and "no such
voucher" may be overtaken. TLC finds `VoucherIsTracked` (`manual_button`),
`SettledIsFinal`, `RequestsInOrder` and `AuthorizedIsFinal` violated; the last one by a
sender that finds no connection after a reconciler has committed in the moment
between the sender's checkpoint and its next read. `FullInv` is what remains. It
rests on two facts: authorizers still exclude each other, and a reconciler commits
only if nothing has rewritten the invoice since it read it (`~dirty`), so that its
attempt is still open. Every commit that ends a worker's work has one shape
(`Settle`), and each part of `FullInv` is kept by that shape. `EvidenceOfUnresolved`
and `CaeIsGenuine` follow, without an assumption on the numbers; with distinct
numbers an authorized invoice still has a CAE of its own (`CaesStayOwn`).

*Tickets* (`WsaaTickets_proofs`). `RowInv` and `CallerInv` relate the row, the
lock and what ARCA gave each caller: a caller that may store a ticket holds the
lock and, unless `dirty`, a certificate in use. The other properties of `tickets`
follow. `TicketIsKept` is an action property: from a state in which the database
has ARCA's live ticket, or a login is about to store it (`Known`), a step to one
in which neither is so ends that login without the ticket, or tells it no expiry,
or empties the row. So a ticket is never lost once it was used, whatever happens
to those who use it (`LossStep`). Which losses remain is said with it: a process
that dies, times out or is refused its commit between ARCA's grant and its own
commit, and a certificate uploaded twice. Each costs twelve hours without service.

*The exchange* (`WsfeExchange_proofs`). What is known of ARCA at each stage
(`OpenInv`, `RaisedInv`, `AnswerInv`) makes the verdict on each exception and
answer right, but for those that are named: `WrongWriteOffs`, `CaelessApprovals`.

*The request* (`InvoiceRequest_proofs`). For any types, conditions, amounts,
differences, dates and rates, and any VAT breakdown. The invariant goes by stage:
which parts of the request are final once the stage is past the step that writes
them. `TypeOK` and `SentIsAcceptable` follow; the latter is validations 10015,
10018, 10039, 10040, 10048 and 10049, and not 10013, which fails (`class_a`).
`VatIsTotalled` is about sums over any number of lines, so it takes an induction.
The library's induction theorems cannot be instantiated here, but that strict
inclusion of finite sets is well-founded can be cited: `LeastSubset` gives the
least set for which a fact would fail. With it `SumFunctionOnSet` is shown to
satisfy its recursion (`AdderAdds`, `SumStep`), not to depend on the order in
which it picks (`SumRemove`), and to be additive (`SumUnion`); then the entries of
the aliquots add up to what the lines do (`GroupIsTotal`). That these are the
totals sent is l10n_ar's part: `TotalsAssumption`, since lines and totals are made
of the same rounded lines (`account_move.py:775-797`).

*The jobs* (`ScheduledJobs_proofs`). For any invoices, sequences, lists and limit.
`UnknownIsQueued` is inductive with `TypeOK` once the steps that open and close an
attempt are taken apart; `IssuedIsKnown` needs both; `KeepsItsTurn` needs
`UnknownIsQueued`, since what keeps a job from asking twice is that an open attempt
shows in the state it reads again.

*The bootstrap* (`Homologation_proofs`). `PlanGood` says that as long as nobody
rewrote the row of a plan, it is still as the plan read it; otherwise the commit is
refused; `ReservedInv`, that two runs never mean to create one and
the same row. With them
and `PinInv` (what is pinned exists), `SeedIsPinned`, `ActiveCanSign` and
`NothingOverwritten` follow for any certificates, companies, keys and runs at once.
`ReadyIsAccepted` compares two scripts that share no code, the bootstrap and the
runner's preflight. `ReadyInv` adds what a plan has seen and will not write (`AsRead`):
while nobody interfered, the rows it leaves alone are still as it found them, and those
it writes are as the preflight wants them.

Only model-checked: `EveryRequestSettles`, `LockIsReleased`, `AuthorizedInTurn` and
`UnknownIsSettled`, since liveness under fairness is out of the prover's reach. Every
other property of a passing run is a theorem.

## 5. Where the code and its documentation disagree

With a run that shows it:

1. `manual_button`: the reconcile button takes no lock and looks at no age. It
   can conclude that a request still on its way left no voucher, and return the
   invoice to pending; `AUDIT.md:314-316` says the reconciler does neither.
2. `reopened`: an invoice in processing can be set to draft while ARCA
   authorizes it; `button_draft` means to refuse it.
3. `ticket_renewal`: fifteen minutes before its end a ticket is no longer used,
   and ARCA refuses another while it lives; `readme/USAGE.rst:12` says tickets are
   renewed automatically.
4. `lost_answer`: TLS or a proxy fails after the request was sent, ARCA has issued the
   voucher, and the text of the exception makes it a failure of the connection
   stage (`l10n_ar_arca_wsfe.py:132-142`): the attempt is aborted. The method's docstring
   (`:118-122`) treats as uncertain whatever is not provably of that stage.
5. `class_a`: a customer of identification type 99 with a number gets DocTipo 99 on a
   class A or M invoice (`account_move.py:649`), where `constants.py:72` requires 80.

Met while modelling, and not run:

- an uncertain attempt is queried at once, although ARCA may still act
  (`l10n_ar_arca_attempt.py:302-304`; `SpecFull` has it);
- the unique index of attempts is per company, ARCA's numbers per CUIT
  (`l10n_ar_arca_attempt.py:121-128`);
- the tickets of two services are one field under two locks: of two logins at
  once, one would lose its ticket (`l10n_ar_arca_wsaa.py:68-72`), if the addon asked for
  a second service, which it does not yet;
- a ticket without an expiry is cached for an hour, after which ARCA refuses
  another (`l10n_ar_arca_wsaa.py:259-261`);
- the form saves a certificate that nothing compared with the key
  (`views/l10n_ar_arca_certificate_views.xml:101`); emptied there, it makes a second
  bootstrap process it again, which drops its live ticket, and a key loaded next to
  one saved there leaves the state "draft";
- a draft that a company uses can be moved to another company: the constraint
  (`res_company.py:56-57`, "A company must never sign with another company's
  certificate") looks only when the company is written;
- the authorization job goes by invoice date and then name (`account_move.py:497`),
  its docstring says "oldest number first": back-dated invoices are visited in the
  wrong order, refused, and wait for the next run;
- fifty attempts that cannot be reconciled keep every later one from it
  (`l10n_ar_arca_attempt.py:317`), though the docstring there says an invoice "must
  never sit in an unknown fiscal state just because nobody pressed a button"; so do
  fifty pending invoices that cannot be sent;
- a bootstrap gives a revoked certificate a key again and says the database is
  ready, and the runner accepts it, though `_check_usable` will refuse it;
- a bootstrap can say ready where the runner refuses, because another company has
  a certificate too (`arca_homologation_runner.py:315`); what a user changes while it
  runs, automatic requests or another certificate, only the runner notices;
- `readme/CONFIGURE.rst:190-196` says the bootstrap sets `ir_attachment.location` and
  verifies `db_datas`; it has done neither since the material moved to columns;
- the QR says the customer and rate of today, not those ARCA was told
  (`account_move.py:955`);
- an answer "P" without a CAE is recorded as authorized
  (`l10n_ar_arca_wsfe.py:450-458`; `docs/audits/2026-07-29-arca-edi-audit.md:430`,
  M-02), and so is a voucher found without `CodAutorizacion` (`:274-275`):
  `CaelessApprovals` names both, and they are in `authorization`;
- an answer to a query with neither an error nor a voucher is taken for an absence
  (`:270-272`): `WrongWriteOffs` names it;
- `_check_usable` writes "expired" and raises, so that the state is written only by the
  daily job (`l10n_ar_arca_certificate.py:260`).

## 6. Not modelled

The QR, the reports, views and translations keep no state, and formatting is not
modelled. Of the settings and the journal, the displayed fields and the journal's
own constraint are left out: they say nothing that a later step relies on and
does not check again. The test branch of `fiscal_transaction` is for tests. `fe_dummy`,
the reference tables and the WSDL cache change nothing the properties speak of.
Access rights are declarations. The CUIT's check digit is a pure function with a
test of its own; here an invalid CUIT is a possible refusal. Of the tools, the
checks of the environment (TLS, installed module, variables) and the ticket report
change nothing. An attempt whose certificate is another or is no longer usable is in
`ScheduledJobs`; in `ArcaProtocol` every certificate works.

## 7. Plan

Done, in this order: `ArcaProtocol` with `FiscalPromise`, its runs and proofs;
`WsaaTickets`; `WsfeExchange`; `InvoiceRequest`; `ScheduledJobs`; `Homologation`;
`Authorization`; the proofs of each.

Every safety and action property of the passing runs is proved, those of `SpecFull`
included. Next:

1. The certificate's form in `WsaaTickets`, with the weaker promise that still holds.
2. The protocol over the exchange: `WsfeExchange`'s verdicts as the abstract
   "aborted, rejected, uncertain" of `ArcaProtocol`, by refinement, its two wrong
   write-offs being steps of their own.
3. The CUIT's check digit against its definition.
