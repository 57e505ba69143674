# Verification of RentFlow

RentFlow Kenya is a multi-tenant rental management service: a FastAPI back end
(`src/backend/app`) over PostgreSQL and Redis, Celery workers with a beat
schedule, and a React client. This directory holds TLA+ models of the parts in
which money, rights or promises change hands, the TLC runs that check them on
small instances, and TLAPS proofs of what should hold for every instance.

Paths below are relative to `src/backend/app` unless they begin with `src/`.

## 1. Inventory

Every request and every task works in one `AsyncSession` (`core/database.py`:
`autoflush=False`, `expire_on_commit=False`) on READ COMMITTED PostgreSQL. A
handler loads rows, checks them, awaits Daraja, Paystack or rendering, and then
flushes the columns it changed as absolute values. There is no `SELECT ... FOR
UPDATE` and no version column, so what was checked may be out of date when it is
written. This is the common difficulty of the code and the reason why requests
are modelled as a load, one or more awaits and a commit.

| Part | State | Operations | What is hard |
|---|---|---|---|
| Rent payments (`payment_service`, `mpesa_service`, `receipt_service`) | `payments`, `receipts`, `invoices.amount_paid/status`, Redis claims | record, approve, reject, STK push, callback, poll, reconcile | three ways to resolve one push, repeated and early callbacks, second signatures, allocation races |
| Invoices (`invoice_service`, `service_charge_service`, `late_fee_service`, `import_service`, `bank_transfer_service`) | `invoices`, line items, utility readings, the reserve | generate, carry arrears, read a meter, late fee, import, bank statement | a batch in one transaction, carried arrears, fee against payment, a statement committed twice |
| Disbursements (`agency_service`, `owner_statement_service`) | `disbursements` | create, approve, reject, mark paid, B2C payout, result, queue time-out, monthly and daily run | double payout, lost result, windows that must tile the calendar |
| Subscriptions (`subscription_service`, `paystack_service`) | `subscriptions`, their invoices, the lock on an organisation | checkout, webhook, renewal, dunning, cancel | late webhook, reference per attempt, states that reopen |
| Tenancies and units (`tenant_service`, `property_service`, `renewal_service`, `operations_service`, `import_service`) | `tenancies`, `units`, `lease_renewals`, vacate notices | create, give notice, vacate, refresh, renew, import | double occupation, stale refresh, two open offers |
| Applications (`vacancy_service`, `application_service`, `screening_service`) | listings, leads, applications, guarantors, references | advertise, apply, decide, answer by public link, score | a stored score that several public answers move |
| Agreements and signatures (`management_agreement_service`, `signature_service`) | agreements, signatures | send, sign, activate, terminate, withdraw | two parties signing at once, crash between two sends |
| Sessions and OTP (`session_service`, `otp_service`, `auth_service`; `src/frontend/src/lib/api-client.ts`, `store/auth-store.ts`) | sessions, trusted devices, Redis codes; tokens in the browser | login, rotate, revoke, verify | replay detection against retries, session cap, two pages |
| Maintenance, vendors, inspections (`maintenance_service`, `vendor_service`, ...) | one row per case, counters of vendors | life cycles, cost approval | a commit in the middle of a handler, counters that drift |
| Outbound deliveries (`webhook_service`, `etims_service`, `tasks/webhooks.py`) | declarations, delivery rows | send, retry, give up | retry after an unknown outcome |
| Hires, bays, amenities (`rental_service`, `facilities_service`) | `rental_agreements`, `parking_allocations`, `amenity_bookings` | book, check out, check in, allocate, release, cancel | two requests that find one thing free; early and late hirers |
| Audit chain (`audit_chain_service`) | audit rows with hashes | record, chain, verify | rows that commit late, runs that overlap |
| Records and holds (`legal_hold_service`, `retention_service`, `privacy_service`, `demo_service`) | holds, personal records | hold, release, sweep, erase | a hold placed after the look of a sweep |
| Offline queue (`src/frontend/src/lib/offline-queue.ts`) | IndexedDB rows, one flag per tab | enqueue, flush, discard | lost answers, two tabs, closing in mid-flight |
| Approvals (`approval_service`) | requests, actions, rules | act, rules | counting the actions of concurrent approvers; nothing calls it yet |
| Bulk operations and demands (`bulk_service`, `demand_letter_service`) | operations with previewed targets, letters in the vault | preview, execute, cancel; the nightly sweep, a demand by hand | messages before the commit or lost in delivery, stale previews, two runs of one operation |
| Breach register (`breach_service`) | breaches, the last threshold chased | report, detect, advance, escalate every hour | a statutory deadline, an hourly sweep that may fail, alerts that may not arrive |
| Teams (`user_service`, `endpoints/team.py`) | users, invitations | invite, resend, revoke, accept, remove, deactivate, delete, purge | two managers who act on each other, links sent twice |
| Reporting, documents, search, AI, help | none of their own, or files | queries, rendering, upload | not protocols |

How the parts meet: payments read and write the invoices of a tenancy;
disbursements read confirmed payments by `payment_date`; letting a unit closes
its listing and approves nobody by itself; `webhook_service.dispatch` commits the
session of the handler that calls it; the daily settlement, the reconciler,
invoicing, late fees, renewals, retries, the audit chain and the retention sweep
are Celery tasks that work on the rows web requests work on; Safaricom and
Paystack call back into unauthenticated endpoints, behind a Redis key per
delivery.

What makes each part correct:

- *payments*: money is banked once, receipted, applied to the oldest debt and
  never beyond it; cash over the threshold takes two people; a push ends;
- *disbursements*: each day's earnings reach the owner once; nothing leaves
  without a review; COMPLETED means that the owner has the money;
- *subscriptions*: a charge extends exactly one period; access ends only after
  the grace period and comes back with the money;
- *invoices*: a total is the sum of its lines, a debt and a fee are asked for
  once, PAID means settled, and no credit comes out of nothing;
- *tenancies*: a unit has one live tenancy, its status follows from the dates, a
  tenancy has one open offer and an answer is final;
- *applications*: the stored score is what the answers give;
- *agreements*: in force once both parties have signed;
- *sessions*: who does not present an old token is not signed out for theft;
- *maintenance*: a finished job is counted once, and charged to the owner once;
- *deliveries*: each event is told once, unless its acceptance was lost;
- *hires, bays, amenities*: a thing is lent to one person at a time;
- *audit chain*: what nobody touched verifies;
- *holds*: what is held is not erased;
- *offline queue*: what was done once is carried out once, and settles;
- *bulk operations, demands*: what is recorded as done was told, or at least tried,
  and told once;
- *breaches*: no deadline passes without a chase;
- *teams*: an organisation keeps somebody who can manage it.

`PROJECT.json` lists every part and, under "hazards", each place in the code
where one of these is at risk.

## 2. Modules

| Module | Role |
|---|---|
| `Sums` | the sum of a function over a finite set |
| `SumsProofs` | lemmas about sums, and induction over numbers and finite sets |
| `InvoiceBook` | the arithmetic of a tenancy's invoices: status, open filter, allocation, what a flush writes. No state |
| `Payments` | how rent is banked; uses `InvoiceBook` |
| `RentReceived` | the abstract promise of `Payments` |
| `MCPayments` | small instances |
| `PaymentsProofs` | TLAPS theorems about `Payments` |
| `Disbursements` | how landlords are paid by an agency |
| `MCDisbursements` | small instances |
| `DisbursementsProofs` | TLAPS theorems about `Disbursements` |
| `Subscriptions` | how an organisation pays for RentFlow |
| `MCSubscriptions` | small instances |
| `SubscriptionsProofs` | TLAPS theorems about `Subscriptions` |
| `Sessions` | the database session of a request or task, shared by the modules below (not the login sessions) |
| `RentLedger` | how a tenancy's invoices come to be and change; uses `InvoiceBook` |
| `LedgerProofs` | TLAPS theorems about `RentLedger` |
| `Tenancies` | units, tenancies, renewal offers, notices, the import of tenants |
| `Applications` | adverts, leads, applications, the screening score |
| `Agreements` | management agreements and the links they are signed on |
| `Logins` | login sessions, token rotation, the pages of one browser |
| `Maintenance` | repairs, vendors and what a finished job counts |
| `Deliveries` | declarations to the tax authority and webhooks |
| `Bookings` | hires, parking bays and amenities |
| `Evidence` | the audit chain, legal holds and erasure |
| `OfflineQueue` | the caretaker's offline queue in the browser |
| `Bulk` | bulk operations, and formal demands for rent |
| `Breaches` | the register of data breaches and its statutory clock |
| `Team` | members, invitations, removal and erasure of accounts |
| `BookingsProofs` | TLAPS theorems about `Bookings`, `Evidence` and `Applications` |
| `OfficeProofs` | TLAPS theorems about `Agreements`, `Deliveries`, `Maintenance` and `Logins`, and about `MCOffice` as a whole |
| `DeskProofs` | TLAPS theorems about `Tenancies`, `Team`, `OfflineQueue`, `Bulk` and `Breaches`, and about `MCDesk` as a whole |
| `MCOffice`, `MCDesk` | small instances of the modules on `Sessions` and of `RentLedger` and `OfflineQueue`: they share no state, so one run looks at several in turn, each in a scene of its own |

### Payments

| Code | Model |
|---|---|
| rows of `payments`, `invoices`, `receipts` as committed | `payment`, `invoice`, `receipts` |
| `mpesa:callback:*` keys in Redis | `claimed` |
| what Safaricom knows of a push | `daraja` |
| `created_at` against the reconciler's 15 and 60 minutes | `age` |
| a web request between its load and its commit | `req[h]`: what it loaded (`was`), what is in its session (`is`), the invoices it read (`books`) |
| the reconciler's batch | `sweep` |
| `record_cash_payment` | `RecordBegin`, then `CommitConfirmed`, `CommitOther` or `Rollback` |
| `initiate_stk_push` | `StkBegin` (Safaricom is called before anything is committed), `CommitOther` |
| `handle_callback` | `CallbackBegin` (claim, early returns, duplicate number), `Resolve` (status query), a commit |
| `poll_status` | `PollBegin`, `Resolve`, a commit |
| `approve_payment`, `reject_payment` | `ApproveBegin`, `Resolve`, `CommitConfirmed`; `RejectBegin`, `CommitOther` |
| `_confirm`, `_allocate`, `issue_receipt` | `CommitConfirmed` with `Settle` and `Spreads` |
| `reconcile_pending_payments` | `SweepBegin`, `SweepAsk`, `SweepCommit`, `SweepAbort` |
| a crash, a dropped connection, an exception | `Abort`, `SweepAbort` |

A commit writes a column only where the session's value differs from the loaded
one (`Flushed`): this is how the unit of work behaves, and it decides which races
lose what. The rows a request updates are locked from its first flush to its
commit, so that this part is one step. The M-Pesa receipt number of the money
collected by push `p` is `p` itself. Amounts are whole shillings. One tenancy
with a fixed list of invoices is modelled.

### Disbursements

| Code | Model |
|---|---|
| rows of `disbursements` as committed | `row` |
| rent dated a day, less fee and maintenance | `onTime[d]`, `late[d]`: confirmed by the end of the day, or later |
| what Safaricom knows of a payout | `daraja[c]`, with the disbursement it was sent for and whether a commit stored its conversation id |
| `mpesa:b2c:*` keys | `claimed` |
| payments declared by `mark_disbursement_paid` | `byHand` |
| `next_auto_period` | `Window` |
| `create_disbursement`, `process_scheduled_disbursements`, `auto_settle_owner` | `CreateBegin`, `MonthlyBegin`, `DailyBegin` |
| `approve_`, `reject_`, `mark_disbursement_paid` | `ApproveBegin`, `RejectBegin`, `MarkPaidBegin` |
| `initiate_mpesa_payout`, `dispatch_mpesa_payout` | `PayBegin`, `Send`, `Commit`; `Send` also serves the daily run |
| `handle_b2c_result`, `fail_pending_payout` | `ResultBegin`, `TimeoutBegin` |

One owner is modelled, in an agency with B2C credentials; without them the
payout is simulated and settles in the same call. Safaricom's queue time-out is
taken at its word: a payout it reports as dropped was not carried out.

### Subscriptions

| Code | Model |
|---|---|
| the row of `subscriptions` | `sub`: status, plan, `next_billing_date`, card, `failed_attempts`, `grace_ends_at` |
| the rows of `subscription_invoices` | `inv`; ids in `Pages` are raised by a checkout, ids in `Renewals` by the biller |
| `organizations.subscription_plan`, `subscription_lapsed_at` | `org` |
| what Paystack made of each reference | `paystack[i][k]`: `k = 0` is the page of invoice `i`, `k > 0` an attempt of the biller |
| `start_checkout` | `CheckoutBegin`, `CheckoutAsk` (flush, then the call to Paystack), `Commit` |
| `cancel` | `CancelBegin`, `Commit` |
| `charge_due_subscriptions`, `charge_due_subscription` | `BillBegin`, then `BillNoCard` or `BillCharge` and `BillAnswer`, `Commit` |
| `paystack_webhook`, `handle_charge` | `WebhookBegin`, `WebhookVerify`, `Commit` |
| `mark_paid`, `mark_failed`, `mark_failed_without_invoice`, `_lock_account` | `MarkedPaid`, `MarkedFailed`, `Dunned`: effects on the rows of a session |

A checkout that changes the subscription flushes before it calls Paystack and so
keeps the row locked until it commits; other writers wait (`Holds`, `MayFlush`).
The biller holds no lock while it waits for its charge. The current period needs
no variables: it is the one before `next_billing_date`. One organisation and
one subscription, which is all `uq_subscription_per_org` allows.

### Sessions, and the modules on it

`Sessions` says once what a session does: a handler reads committed rows and
makes up its mind (`Prepares`), its commit writes the columns it changed and no
others (`Saves`, `Merged`), and a crash, an exception or a unique violation rolls
it back (`Drops`). A handler with several commits `Starts`, and then either
reads again for each commit (`Continues`) or writes from what it read at the
start (`Steps`). `StaleSave` and `StaleStep` are the commits that follow from rows
which changed after they were read; the properties of the modules name them as
the only cause of what must not happen. A module instantiates it with its own
committed rows, a record of tables, and its own sessions. `RentLedger` has a
session of the same shape written out, since its flush also has to meet the
unique key of invoices.

Handlers that refuse leave no state behind, so a refused request is a guard that
is false. Rules that only refuse (formats, permissions, limits on amounts) are
left out where no property depends on them.

| Module | Code | Model |
|---|---|---|
| `RentLedger` | `generate_invoice_for_tenancy` by hand and by the monthly task | `GenerateInvoice`, `GenerateDueInvoices`, with `Invoiced` (rent, meter, service charge, carried arrears) |
| | `record_meter_reading`; `apply_late_fees` | `RecordMeterReading`; `ApplyLateFees` with `Charged`, `FeeOn`, `CalculatedFee` |
| | cash, spreadsheet and bank statement | `RecordPayment`; `ImportPayments`; `BeginStatement`, `RecordStatementRow` (one commit a row) |
| | `apportion`, `record_sinking_fund_contribution`, `record_sinking_fund_movement` | `Apportioned`, `ReserveSlice`, `DrawReserve` |
| | the flush, the unique key `(tenancy, period_start)`, a rollback | `CommitLedger`, `Clashes`, `AbortLedger` |
| `Tenancies` | `create_`, `update_`, `vacate_tenancy`, notices, `update_unit_status` | `CreateTenancy`, `UpdateTenancy`, `VacateTenancy`, `SubmitVacateNotice`, `AcknowledgeVacateNotice`, `UpdateUnitStatus`, `Advertise` |
| | `_derive_status`, `refresh_tenancy_statuses` | `DerivedStatus`, `RefreshStatuses` |
| | `create_offer` by hand and by task, `accept`, `decline`, `lapse_expired_offers` | `OfferRenewal`, `OfferDueRenewals`, `AcceptRenewal`, `DeclineRenewal`, `LapseOffers` |
| | the import of tenants: a preview, and its commit later | `PreviewImport`, `CommitImport` |
| `Applications` | adverts and leads | `AskForListing`, `UpdateListing`, `CaptureInquiry`, `UpdateInquiry`, `Linked`, `Synced` |
| | the life of an application | `CreateApplication`, `StartReview`, `ScheduleInterview`, `Approve`, `Reject`, `Withdraw`, `UpdateApplication` |
| | guarantors, references, `rescore` | `AddGuarantor`, `RespondAsGuarantor`, `SendGuarantee`, `RequestReference`, `RecordReference`, `SweepReferences`, `Rescored` |
| `Agreements` | `send_for_signature`, commit by commit | `SendForSignature`, then `RaiseLink`, `FileLink`, `MarkPending` under `ContinueSending` |
| | `verify_otp_and_sign`, `activate_if_fully_signed`, expiry of a link | `Sign`, `Activated`, `ExpireLink` |
| | notice, withdrawal, the daily completion | `RequestTermination`, `WithdrawTermination`, `CompleteDueTerminations` |
| `Logins` | `create_session` with the cap, `rotate`, `revoke`, `revoke_all` | `CreateSession`, `Accepts`, `Rotate`, `Revoked`, `Serve`, `Refused` |
| | the interceptor, the guarded route, `localStorage` | `Refresh` by `"interceptor"` or `"route"`, `Hear`, `CutOff`, `OpenPage`, `ClosePage` |
| `Maintenance` | the handlers of a repair, in one or two commits | `ReportJob`, `Turn`, `ApproveJob`, `AssignVendor`, `CompleteJob`, and `GoOnAssigning`, `GoOnWithVendor`, `GoOnCompleting` after the announcement's commit |
| | `calculate_for_profile`, `create_disbursement` for any period, by hand or by a task | `Deductible`, `Disburse` |
| | the end of a request between its two commits | `DropRepair`, remembered in `cut` |
| `Deliveries` | `issue_receipt`, the retry task, a retry by hand | `IssueReceipt`, `RetryDue`, `RetryByHand`, `Declare`, `RecordDeclaration`, `GiveUp` |
| | `dispatch`, the broker, `deliver_webhook` | `Dispatch`, `TakePost`, `SkipPost`, `SendPost`, `RecordPost`, `Crash` (the message comes back) |
| `Bookings` | `book`, `check_out`, `check_in`, `cancel`, `update_asset` | `BookHire`, `CheckOut`, `CheckIn`, `CancelHire`, `SetAsset` |
| | `allocate_bay`, `release_bay`; `book_amenity`, `cancel_booking` | `AllocateBay`, `ReleaseBay`; `BookRoom`, `CancelRoom` |
| `Evidence` | `audit_service.record`, `remove_member` | `Record`, `RemoveMember`; `Author` is `user_id` with its ON DELETE SET NULL |
| | `chain_audit_log_entries`; `verify_chain` | `StartChain` (reads the tail), `ChainNewEntries` (reads the rows), a commit; `BrokenLinks` |
| | `place_hold`, `release_hold`, `erase_tenant_data`, demo removal, the sweep | `PlaceHold`, `ReleaseHold`, `EraseTenantData`, `RemoveDemo`, `StartSweep`, `Sweep` |
| `OfflineQueue` | `enqueue`, `flush`, `remove`, `submitOrQueue` | `Enqueue`, `StartFlush`, `Send`, `Hears`, `Stops`, `Discard`, `SubmitOnline`, `SubmitOffline` |
| | the network, the server, a closed tab | `ServerAnswers`, `Missed`, `CloseTab` |
| `Bulk` | `preview`, `cancel`, `execute` | `Preview`, `Cancel`, `Execute`; then `FlushRun`, whose row lock a second run waits for, and one step a target: `RaiseRent`, `Remind`, `Announce`, `InvoiceNow` |
| | `notification_service.send`, which returns whatever became of the message | `Says`, `SaysRent`, `SaysDemand`: `Delivers` or `FailsToDeliver` |
| | the commit that `webhook_service.dispatch` makes in the middle of a run | `Dispatches` |
| | `issue_due_letters`, `issue_for_tenancy` | `StartDemands`, `SendDemand`, `SkipDemand`, `LoseDemand`; `DemandByHand` |
| | what happens beside them | `SetRent`, `DailyInvoices`, `Pay` |
| `Breaches` | `report`, the detector, `advance` | `Report`, `Scan`, `Advance` |
| | `escalate_due_notifications`, `_alert_platform_staff` | `Chasable`, `Escalate`; `tried` remembers that alerts were sent, not that they arrived |
| `Team` | invitations | `Invite`, `PreviewInvitation`, `AcceptInvitation`, `RevokeInvitation`, `ResendInvitation` |
| | members | `RemoveMember`, `SetUserAccess`, `RequestDeletion`, `CancelDeletion`, `PurgeDeletedAccounts`; a row that is gone is not updated (`Gone`) |

Data is abstracted to what the properties tell apart. Dates are half months in
`RentLedger`, months in `Tenancies`, `Maintenance` and `Bulk`, days elsewhere;
the thresholds of 48 and 72 hours in `Breaches` are two and three days. A hash in
`Evidence` is the list of what went into it, which is what its being collision-free
means; a row's key is its time stamp, since `created_at` is the start of its
transaction. A score in `Applications` is its two weighted parts that answers
move, on top of a constant for the rest.

## 3. Runs

| Run | Question | Bounds | Result |
|---|---|---|---|
| `payments_overlap` | what survives any overlap? | 2 payments, 2 requests and the reconciler, 2 people, 2 invoices, cash and M-Pesa | holds |
| `payments_serial` | what holds of requests one at a time, with crashes, lost callbacks and lagging answers? | 2 payments, 1 request or sweep at a time, 2 invoices | holds |
| `payments_writeoff` | does the reconciler recover a payment Safaricom calls paid? | as serial | violated |
| `payments_number` | does the receipt number keep money from being banked twice? | as serial | violated |
| `disbursements_overlap` | what survives any overlap? | 1 disbursement, 3 requests, 2 payouts, 1 day | holds |
| `disbursements_daily` | does daily settlement pay every day once? | 2 days, 2 disbursements, 2 payouts, amounts 1 and 2, minimum 2 | holds |
| `disbursements_failed` | is a failed period retried by the next pass? | 3 days | violated |
| `subscriptions_overlap` | what survives any overlap? | 2 pages, 1 renewal, 2 requests, 2 days | holds |
| `subscriptions_serial` | what holds of requests one at a time, with crashes, lost answers and repeated webhooks? | 2 pages, 3 renewals, 3 attempts, 2 days | holds |
| `subscriptions_plan` | is a plan only given to who paid for it? | 2 pages, 2 plans | violated |
| `office` | what can go wrong in the office only when requests overlap, answers are lost or copies stale? | 11 scenes, see below | holds |
| `desk` | the same for letting, the offline queue, bulk messages and teams; and do statuses, queued jobs and deadlines settle? | 6 scenes, see below | holds |

Why the bounds are enough. Every property of the payment runs speaks of one
payment, of two requests on the same payment or invoice, or of the order of two
invoices. Two payments let one number be quoted by another row, and two
requests let any two handlers race; the reconciler is a third actor. The
invoices ask for 1 and 2 and payments are of 2, so that a payment settles one
invoice and part of the next, and a second one overpays. The threshold is 1, so
that every cash payment is above it. For disbursements three requests on one
row are two racing requests and a callback; two payouts are one payment and its
retry; a minimum of 2 with takings of 1 and 2 makes a day roll into the next.
For subscriptions two pages let a customer pay an old page after a new one, in
any order with the renewals; periods last a day, so that a renewal is due the
day after a payment. The grace is 0 days in the serial run, so that it can end on
day 2 before the third attempt has failed. Paid pages can take the billing date
back, and the ids of renewals and the charges per invoice are enough for every
such detour: with fewer, `DueIsDecided` fails because the biller runs out of
them. In the serial run webhooks report successes only (`MaxRefusals = 0`); a
reported failure does to the rows what a failed charge of the biller does, and
the overlap run has it. There one failed attempt is enough to lapse.
Symmetry is used only for sets whose members are only compared for equality, and
never in a run with a liveness property.

The scenes of `office` and `desk`:

| Scene | Bounds |
|---|---|
| ledger | 1 tenancy, 2 clerks, 3 requests, 2 months, one amount that covers one invoice and part of the next |
| applications | 2 applicants, 1 guarantor, 2 sessions, 3 requests |
| agreements | 1 agreement, 2 links for the owner and 1 for the agency, 2 sessions, 3 requests, 2 days |
| logins | 2 pages (one with both callers of the refresh), 2 seats, a cap of 1, 3 calls |
| maintenance | 1 repair, 1 vendor, 2 sessions, 4 requests, 2 months |
| deliveries | 1 receipt, 1 webhook, 2 workers, 3 rounds, 2 attempts each |
| hires, parking, rooms | 1 asset, bay or amenity, 2 hires, stays or bookings, 2 sessions, 4 requests, 2 days |
| chain | 2 members, 2 sessions, 4 requests and runs, 2 rows a run |
| holds | a tenant, an application and a sample record, 1 hold, 2 sessions, 4 requests and sweeps |
| tenancies | 1 unit, 2 tenancies, 2 offers, 2 sessions, 3 requests, 3 months |
| queue | 1 job, 2 tabs, 2 failures |
| operations | 1 operation of any kind, 2 tenancies, 2 sessions, 3 requests, 2 months |
| demands | 2 tenancies, 2 sessions, 3 requests, 4 months, so that a first and a final demand fall due |
| breaches | 1 breach, 2 sessions, 3 requests, 3 days |
| team | 3 people of whom 2 manage at first, 1 invitation, 2 sessions, 3 requests, 3 hours |

Each of their safety properties says that something goes wrong only by an
overlap, a loss or a repetition that it names. Two sessions are enough for an
overlap of two handlers, and any two may be the ones: every handler of the module
can begin in either. Three or four requests let the two that overlap come after
one that made the row they meet (an invoice to pay, a link to sign, a job to
complete, a row already chained). A third session that overlaps both could only
add a stale commit, which the properties allow anyway. So these properties bound
their hazards rather than catch them: the race itself is a behaviour of the model
and of the code (section 3 lists what it does), and what is shown is that nothing
else does the harm. One unit, agreement,
asset or repair suffices, because handlers meet through its rows; two applicants
are needed since approving one can reject the other, and two months since arrears
are carried and a finished job can fall on two statements. The queue with two jobs
in one tab was checked as well; order matters only within a tab.

Runs switch deadlock checking off, because ids and days run out and everything
may then be decided.

**Payments, however requests overlap.** `BankedHasReceipt`, `SecondPersonSigned`,
`NeverOverCredited` hold, and a confirmed payment loses that status only to a writer that had loaded it earlier
(`OnlyStaleWritersUnbank`): the code protects itself against late information,
but not against a reader that was early.

**Payments, one request at a time.** Rent settles the oldest debt first
(`OldestDebtFirst`), every push ends (`PendingEnds`), and `Payments` implements
`RentReceived` (`KeepsPromise`): a payment is banked once and for good, and the
credit on the invoices grows with it, by its amount or by what is left to pay.
The refinement maps the four kinds of status to a standing, and the credit to
the sum of `amount_paid`. With overlap it fails: a poll and a callback that
confirm together credit twice, and two confirmations on one invoice lose a
credit.

**Disbursements.** Whatever overlaps, nothing leaves without a review
(`MoneyLeavesAfterReview`), COMPLETED means that money moved
(`CompletedMeansMoneyMoved`), and only a stale request reopens
(`OnlyStaleWritersReopen`). With runs one at a time a disbursement is paid once
unless an answer was lost between Safaricom and the commit
(`PaidOnceUnlessLost`), the daily windows tile the calendar
(`EveryDaySettledOnce`), contain all the rent that was confirmed on its day
(`OnTimeRentIsSent`), and reach every day that earned enough
(`EarningsAreSettled`).

**Subscriptions.** Whatever overlaps, nothing is PAID, and no plan or card is
held, without money at Paystack (`PaidMeansCharged`), and a paid invoice is called
unpaid only by a request that had loaded it before (`OnlyStaleWritersUnpay`: the
biller's failed charge against a webhook). With requests one at a time the lock
follows a lapse, which comes after full dunning (`LockFollowsLapse`); retries raise
one invoice per period, and the billing date is the end of a paid period
(`PeriodsFollowOn`) and moves only when an unpaid invoice is paid
(`OldMoneyMovesNothing`); and every renewal that is due is charged or lapses (`DueIsDecided`). The model also
shows what the code lets happen: an old page paid late takes the billing date
back and a period is billed again; a declined upgrade starts dunning in a period
that is paid for; a failed charge reopens a cancelled subscription.

**The office.** Sound books are made unsound only by a commit over rows that
changed (`OnlyStaleWritersUnbalance`), and even then no invoice is credited with
more than the tenant paid (`CreditIsBacked`). A score lags behind its answers only
when two of them overlap (`OnlyOverlapMisscores`). An agreement that both have
signed stays pending, for good, when the two signings overlap, when a sending
that was cut short is repeated, or when a signed copy cannot be made
(`OnlyOverlapOrLostCopyStrands`). A page by itself never makes the server believe
in a theft (`OneCarefulPageStaysSignedIn`); the guarded route, which refreshes
beside the interceptor, a second tab and a page closed in mid-flight do. A
finished job, by its status, is in the counters of its vendor once, unless its
completion is between its two commits or ended there, requests overlap, or it is
completed again; and disbursements for disjoint periods do not deduct it twice
(`FinishedJobsCountOnce`). A receipt or webhook is told twice only if an
acceptance was lost or a retry did not see another's outcome
(`ToldTwiceOnlyByLossOrInsistence`). A thing is lent twice only by an overlap, except
a bay given ahead of the day (`OnlyOverlapLendsTwice`). An untouched chain verifies
unless runs overlap, an author is removed, or a row that began earlier is
committed later (`OnlyLateOrTwofoldWorkBreaksTheChain`). A held record is erased only by
who looked before the hold was committed, and sample data and security events are
erased regardless (`OnlyAnEarlierLookErasesTooMuch`).

**The desk.** A unit is let twice only by an overlap, by reviving a tenancy that had
ended, or by a spreadsheet that names it twice (`LetTwiceOnlyByOverlapOrRevival`); an
offer is doubled or an answer changed only by an overlap
(`OnlyOverlapReopensAnOffer`); the status column comes back to what the dates say
(`StatusFollowsDates`). A queued job is carried out twice only when an answer was
missed or two tabs flush at once (`OnlyMissedAnswerOrTwoTabsRepeat`), and settles once
the network stops failing (`QueuedJobsSettle`). A tenant is told a second time only
of what a lost transaction had told already, by a session that goes by rows which
have changed, or by a manager who demands again by hand; and when a run concludes,
everybody it does not name as failed was told, with the rent that is now in force,
unless his last message failed in delivery (`TenantsHearOnceWhatIsDone`). When the
deadline of a breach that is open and not notified has passed, the chase of that
deadline is eventually on record, or the breach is closed or notified
(`DeadlineIsChased`). An organisation loses its last
manager only by an overlap or by that manager's own wish
(`OnlyOverlapOrOwnWishLocksOut`).

Met while modelling, and allowed by the properties above because the code allows
it:

- nothing in the back end reads `X-Idempotency-Key`, by which the offline queue
  means to prevent double submission (`src/frontend/src/lib/offline-queue.ts:13`);
  an item parked as "failed" is sent again every 30 seconds;
- `check_out` does not look at the dates or at who has the asset, so it can be out on
  two hires (`rental_service.py:349`); `allocate_bay` looks at today only;
- a user's removal alters the audit rows the chain has certified; verification then
  reports tampering;
- the retention sweep says that every category checks for a hold
  (`retention_service.py:16`); security events and sample data do not, and a hold on
  a tenancy covers nothing that is swept;
- two parties that sign at the same moment leave an agreement that nobody can
  activate; an expired link is never replaced; two drafts of one owner can both
  come into force;
- completing a repair twice doubles the counters of its vendor, unless the first
  completion was cut off before its cost;
- two retries of one declaration can turn SUBMITTED back into FAILED or ABANDONED;
- a webhook whose message is lost at the broker after the commit stays PENDING,
  and no task looks for it;
- accepting a renewal link revives a tenancy that was vacated, over a new tenant;
- approval does not look at a unit's RESERVED status, and candidates it rejects keep
  their leads open;
- the messages of a bulk run leave before its commit: a crash leaves them sent and the
  operation ready to be executed, or cancelled; a flush that fails for one target takes
  the whole run with it, against "failures never abort the run"
  (`bulk_service.py`);
- an invoice run with a webhook subscriber commits RUNNING half way, and an
  operation that crashes then can be neither resumed nor cancelled;
- when the store does not take a notice, the rent is raised, the tenant untold and the
  target reported as failed; and a rent rises at once, whatever date the notice names;
- a first demand is issued once per tenant, for all time, where the docstring of the
  sweep says per tenancy; one by hand does not look for an earlier one;
- a minor breach can be CLOSED without a word of what was done, a dismissed one be
  reopened, and a sweep that commits late chase a threshold again;
- two pending invitations of one number let a removed member back in; revoking an
  accepted invitation overwrites ACCEPTED; who was deactivated cannot take a
  deletion back.

### What the repository says and the code does not do

1. `payments_writeoff`: the reconciler is there to recover payments whose
   callback never arrived (`tasks/celery_app.py:89`), but treats "paid" like
   "still waiting" and writes the payment off after an hour
   (`tasks/scheduled.py:730-738`). A late callback or a poll cannot always save
   it: poll only asks about PENDING rows.
2. `payments_number`: a push confirmed by a poll stores no receipt number
   (`payment_service.py:694`), so the unique index that should keep the same money
   from being banked twice (`src/docs/data-model.md:129`) does not see it.
3. `disbursements_failed`: the daily run counts a FAILED settlement as settled
   (`agency_service.py:685-692`), so its period is not retried by tomorrow's pass,
   as `tasks/scheduled.py:585` says.
4. `subscriptions_plan`: opening a checkout changes the plan of a running
   subscription before it is paid for (`subscription_service.py:156`, against the
   comment at 155), and the next payment of any invoice puts the organisation on
   that plan.

Four more have no run of their own. The model has the behaviour of the code, so that
the promise is no property of it; a property beside it says what does hold.

5. "One tenant with a dead phone number": the failure is recorded against that
   target and the run reports itself as partial (`bulk_service.py:10-13`). A message
   that fails or is skipped in `notification_service.send` (265-281) is a row with
   that status and no exception, so the run counts the target as succeeded
   (`bulk_service.py:219-222`) and reports itself as completed. In the model
   `FailsToDeliver` lets a run conclude COMPLETED over such a target;
   `TenantsHearOnceWhatIsDone` says that nobody else is missed.
6. "There is no state in which the deadline passes and nobody was told"
   (`breach_service.py:13-15`). The sweep records the threshold (370) whatever
   `_alert_platform_staff` (377-395) achieved: alerts can fail, be muted or lack an
   address, and there can be no platform staff; that threshold is not chased again.
   `DeadlineIsChased` says that the chase comes to be on record, and
   `RecordedChasesWereTried` that its alerts were sent; neither says that
   anybody heard.
7. The counters of a vendor are written "in this same transaction" and can never
   drift from the job history (`maintenance_service.py:493-494`,
   `vendor_service.py:217-218`). With a subscriber to the change of status,
   `dispatch` commits COMPLETED first (`webhook_service.py:193`); a crash then leaves
   a finished job without cost, counter or bill. Completing it again repairs it;
   nothing looks for it. `FinishedJobsCountOnce` leaves out just those jobs (`cut`).
8. `owner_expense_allocated` is there so that an owner is not charged twice
   (`models/operations.py:276-277`). `calculate_for_profile` (`agency_service.py:300-316`)
   never reads it: each disbursement deducts every job completed in its period, and
   nothing keeps periods apart when disbursements are made by hand, monthly and
   daily. In the model such periods may overlap, and each charges the job;
   `FinishedJobsCountOnce` says that only overlapping ones do.

## 4. Fairness

Safety runs assume none. `FairSpec` of `Payments` assumes that beat starts the
reconciler again and again and that now and then it gets through
(`task_acks_late` redelivers a task whose worker died; an exception from
Safaricom ends one sweep, not the next), that time passes, and that a request
ends, since its awaits time out after 30 seconds. `FairSpec` of `Disbursements`
assumes that days pass, that requests end, and that the daily run, started every
morning, gets through now and then. `FairSpec` of `Subscriptions` assumes the same
of the nightly biller and of requests. Strong fairness is needed for the tasks: a
request or a crash disables their next step, over and over. Nothing is assumed
of customers, staff, callbacks, or what Safaricom or Paystack make of a push, a
payout or a charge.

`TenanciesFairness` assumes that beat starts the status refresh every night until
one commits (weak fairness of its start, strong fairness of its commit, which
crashes interrupt), and that the preview of an import is confirmed or given up.
`QueueFairness` assumes what `startAutoSync` does in an open tab (a flush on
coming back online, and every 30 seconds), that the server answers what arrives,
and that a flush takes its next step; failures are bounded (`MaxFaults`), so that the
property speaks of a network that works in the end. `BreachesFairness` assumes the
hourly sweep in the same way as the nightly one: weak fairness of its start, strong
fairness of its commit. Nothing is assumed of who advances a breach.

## 5. Proofs

The theorems hold for every value of the constants that satisfies the named
assumptions of the modules; TLC evaluates those assumptions on the instances.
A theorem that names a property of a run proves for every instance what the run
shows on a small one.

### Sums

Totals, credits and earnings are sums over finite sets. `SumsProofs` proves what
the other modules need of `SumOver`: its type, its value on the empty set, what
one element or one changed element contributes (`SumRemoves`, `SumChanges`),
addition, monotony, and `SumTelescopes` for a remainder that falls step by step. The
library's fold is a recursive function chosen by its equation; that it exists is
proved by a smallest counterexample among the subsets of the set, by
`FS_StrictSubsetOrderingWellFounded` and `WFMin`. `LeastNumber`, `CountingUp` and `Descends` are
induction over the numbers, obtained the same way: a theorem of the library that
takes an operator as a parameter cannot be used, but one that speaks of a
well-founded relation can.

### Payments

| Theorem | Statement |
|---|---|
| `Invariance` | `Spec => []IInv` |
| `TypeCorrect` | `Spec => []TypeOK` |
| `ReceiptForEveryBankedPayment` | `Spec => []BankedHasReceipt` |
| `TwoPeopleForCash` | `Spec => []SecondPersonSigned` |
| `CreditWithinTotal` | `Spec => []NeverOverCredited` |
| `CallbacksKeptApart` | `Spec => []OneCallbackAtATime` |
| `UnbankedByStaleWriter` | `Spec => OnlyStaleWritersUnbank` |
| `OldestFirstAlways` | `~Overlap => (Spec => []OldestDebtFirst)` |
| `PaymentsKeepThePromise` | `~Overlap => (Spec => KeepsPromise)` |

None of the properties is inductive. `IInv` adds what a request in flight knows:

- `RequestOK`: a busy request works on a payment id and had loaded the payment
  before it was confirmed. `TypeOK` needs this: a commit adds the id to
  `receipts`;
- `InsertOK`: a request that inserts is alone on its id, and confirms at once only
  what needs no second signature;
- `UpdateOK`: any other request leaves amount, method and recorder alone, so that
  what it checked still describes the row;
- `SignatureOK`: a signature is an approver's, never the recorder's, on money that
  was held; callbacks and polls touch pushes only, which are not cash. From these
  follows `SecondPersonSigned`, through every interleaving of two signers;
- `BooksOK`: the invoices a request read have the totals of the invoices
  and credit within them; so has what it writes, which is an absolute value. This
  is why a race loses a credit and cannot exceed the total;
- `SweepOK`, `RowsOK`: what the reconciler may hold, and what a committed row can
  look like.

The proof goes action by action (`RecordKeeps`, `StkKeeps`, `CallbackKeeps`,
`PollKeeps`, `SignKeeps`, `ResolveKeeps`, `CommitKeeps`, `SweepCommitKeeps`, ...).
`AppliedBounds`, `CreditedRow` and the `Flushed...` lemmas state what the
arithmetic of `InvoiceBook` does to one row.

For requests one at a time, `SerialInv` adds that whoever works is alone (`Alone`),
that what it loaded is still what is committed (`LoadedOK`, `BatchOK`), that an
invoice is PAID exactly when its total is paid (`Accurate`), and that older debts
are settled first. `AllocationOldestFirst` and `AllocationCredits` are about one
run of `_allocate`: the remainder falls as the loop goes on, an invoice gets money
only when the ones before it took all they could, and the credit grows by the
amount, up to the debt. From them follow `OldestDebtFirst`, and the refinement of
`RentReceived`: `CommitBanks` maps the commit of a confirmation to `Bank`,
`CommitOpensOrRefuses` and `SweepRefuses` map the other commits to what becomes of
payments that are not banked, `OtherStepsStutter` the rest to a stutter.

### The ledger

| Theorem | Statement |
|---|---|
| `LedgerIsWellTyped` | `LedgerSpec => []LedgerTypeOK` |
| `CreditIsAlwaysBacked` | `LedgerSpec => []CreditIsBacked` |
| `BooksStaySoundWithoutOverlap` | `LedgerSpec /\ NoNegativeShare => OnlyStaleWritersUnbalance` |

Payments, imports, statements, billing and late fees overlap in any way here, and a
commit writes amounts over rows it may have read long before. `CreditIsBacked`
says nothing of what the sessions have in memory, so it is not inductive. `Covered`
is: take for each invoice any one of the amounts still in sight, the one in the
books or one that a session read; the tenant paid for their sum. A commit moves
each invoice to what the session read plus what it credited, and a session credits
no more than it received (`Earned`), so any mixture after a commit is at most a
mixture before it plus that money (`CommitCovers`). `CreditOK` proves `Earned` of
`_allocate`: `SpreadExists` says that an amount can always be spread, and
`SumTelescopes` that what is taken from it adds up to no more than the amount.

`BooksStaySoundWithoutOverlap` follows what a session made of the books it read
(`SteadyIInv`). Whatever it prepares keeps sound books sound, and committed over the
books it read it leaves exactly what it had in memory (`Merged(was, is, was) = is`, in
`Stems`), for which it may append at most one fee to an invoice (`FlushedFees`). Nothing
is recorded on an invoice that was not raised (`Bare`), and what was raised stays raised
(`Onward`); without these a stale commit could leave lines that a later billing run
adds to. `NoNegativeShare` says that apportioning the service charge gives no tenant a
negative share. It is needed: a negative share is a credit, its slice is negative too,
and it takes from the reserve what may have been drawn already. It holds whenever
the pool is not small against the number of units, and in the run.

The type proof showed that some amounts of the ledger may be negative: the share
that bears the drift of rounding when the pool is small against the number of
units, the reserve fed from it, and a total written back by a late-fee run that read
before a larger fee was charged and paid, from which arrears are carried. The
types of these columns say so.

### Disbursements

| Theorem | Statement |
|---|---|
| `Invariance` | `Spec => []IInv` |
| `ReviewBeforeMoney` | `Spec => []MoneyLeavesAfterReview` |
| `CompletedWithMoney` | `Spec => []CompletedMeansMoneyMoved` |
| `ReopenedByStaleWriter` | `Spec => OnlyStaleWritersReopen` |
| `PaidOnce` | `~Overlap => (Spec => []PaidOnceUnlessLost)` |
| `DailyRunSettlesEveryDayOnce` | `Ways \subseteq {"daily"} /\ ~Overlap => (Spec => []EveryDaySettledOnce)` |
| `DailyRunSendsTheRent` | `Spec => []OnTimeRentIsSent` |
| `DisbursementsAreWellTyped` | `Spec => []TypeOK` |

`SessionOK`, `InsertOK` and `UpdateOK` say what a request in flight may hold: a
release is reviewed, a completion has been paid for, a stored conversation is
one of its own disbursement; an insert is alone on its id; an update works on a
row that exists and forgets no review. `RowOK` and `PayoutOK` tie the rows to what
Safaricom was sent: a payout without a row belongs to a daily run that is about to
insert it. For requests one at a time (`Serial`), `HistoryOK` and `OperationOK` add
that a payout which is neither spent nor lost is the one stored in the row, and
only while the row is PROCESSING or COMPLETED. Up to here the amount of a row is
left open.

`DailyRunSettlesEveryDayOnce` needs `SettledInv`: the daily run rejects nothing, what
it settled lies in the past, one disbursement ends last (`LastEnds`), and a request
that inserts takes up on the day after it (`ContinuesOK`). Both restrictions are
necessary: two runs that overlap compute the same window, and a month prepared
by hand covers days that the daily run settles too.

`DailyRunSendsTheRent` holds however requests overlap and whatever else creates
disbursements. `SentInv` says that the days of a daily row lie before today, and
that its amount is at least what was confirmed on those days and at most what has
been confirmed since (`AmountOK`); a request inserts such an amount or keeps the
one it loaded (`CarriesOK`). Rent dated to a day that is over can only be confirmed
late, which adds to what was earned and not to what was confirmed on the day; the
rest is `SumMonotone` over the days of the period.

The types (`TypesInv`) are proved last, on top of `IInv`: the way, the period and the
amount of a row are chosen when it is inserted, and nothing changes them afterwards
(`SamePayment`). No run checks `TypeOK`, which the theorem covers.

### Subscriptions

| Theorem | Statement |
|---|---|
| `Invariance`, `TypeCorrect` | `Spec => []IInv`, `Spec => []TypeOK` |
| `PaidWithCharge` | `Spec => []PaidMeansCharged` |
| `UnpaidByStaleWriter` | `Spec => OnlyStaleWritersUnpay` |
| `SerialInvariance` | `~Overlap => (Spec => []SerialInv)` |
| `LockWithLapse` | `~Overlap => (Spec => []LockFollowsLapse)` |
| `OneInvoiceAPeriod` | `~Overlap => (Spec => []PeriodsFollowOn)` |
| `NewMoneyMovesTheDate` | `~Overlap => (Spec => OldMoneyMovesNothing)` |

`IInv` follows a charge from Paystack through a session to the rows: a session
calls its invoice PAID only after a successful charge of that invoice (`InvOK`),
an invoice it raised is nobody else's (so that forgetting it, when the request
ends without a commit, takes no one's money back), and a card or plan in a
session has a charge behind it, its own or a committed one (`SubOK`). `SerialInv`
says what the request in flight will leave: it holds the subscription as
committed (`SubAfterOK`), moves the billing date only with the invoice it pays
(`PeriodAfterOK`), and raises an invoice only for a period without an unpaid one
(`InvAfterOK`). `LockOf` is stronger than `LockFollowsLapse`: a lock that outlives a
cancellation must still be due, since a failure that a webhook reports of a
cancelled subscription would otherwise call it PAST_DUE under a lock.

The `Flushed...` lemmas of these modules, and `CommittedRows` and
`AloneCommits`, state what a commit of changed columns over other rows leaves.

### The modules on Sessions

| Module | Theorem | Statement |
|---|---|---|
| `BookingsProofs` | `LendingIsWellTyped` | `BookingsSpec => []BookingsTypeOK` |
| | `OverlapAloneLendsTwice` | `BookingsSpec => OnlyOverlapLendsTwice` |
| | `EvidenceIsWellTyped` | `EvidenceSpec => []EvidenceTypeOK` |
| | `LateOrTwofoldWorkAloneBreaksTheChain` | `EvidenceSpec => OnlyLateOrTwofoldWorkBreaksTheChain` |
| | `EarlierLookAloneErasesTooMuch` | `EvidenceSpec => OnlyAnEarlierLookErasesTooMuch` |
| | `ApplicationsAreWellTyped` | `ApplicationsSpec => []ApplicationsTypeOK` |
| | `OverlapAloneMisscores` | `ApplicationsSpec => OnlyOverlapMisscores` |
| `DeskProofs` | `TenanciesAreWellTyped` | `TenanciesSpec => []TenanciesTypeOK` |
| | `OverlapOrRevivalAloneLetsTwice` | `TenanciesSpec => LetTwiceOnlyByOverlapOrRevival` |
| | `OverlapAloneReopensAnOffer` | `TenanciesSpec => OnlyOverlapReopensAnOffer` |
| | `TeamIsWellTyped` | `TeamSpec => []TeamTypeOK` |
| | `OverlapOrOwnWishAloneLocksOut` | `TeamSpec => OnlyOverlapOrOwnWishLocksOut` |
| | `QueueIsWellTyped` | `QueueSpec => []QueueTypeOK` |
| | `NothingIsDoneTwiceUnheard` | `QueueSpec => OnlyMissedAnswerOrTwoTabsRepeat` |
| | `BulkIsWellTyped` | `BulkSpec => []BulkTypeOK` |
| | `BulkRunsAreHeardOnce` | `BulkSpec => TenantsHearOnceWhatIsDone` |
| | `BreachesAreWellTyped` | `BreachesSpec => []BreachesTypeOK` |
| | `RecordedChasesWereTried` | `BreachesSpec => []ChasesOnRecordWereTried` |
| | `DeskImplementsItsComponents` | `DeskSpec => TenanciesSpec /\ QueueSpec /\ BulkSpec /\ BreachesSpec /\ TeamSpec` |
| | `DeskIsWellTyped` | `DeskSpec => []DeskTypeOK` |
| `OfficeProofs` | `AgreementsAreWellTyped` | `AgreementsSpec => []AgreementsTypeOK` |
| | `OverlapOrLostCopyAloneStrands` | `AgreementsSpec => OnlyOverlapOrLostCopyStrands` |
| | `DeliveriesAreWellTyped` | `DeliveriesSpec => []DeliveriesTypeOK` |
| | `ToldOnceButForLossOrInsistence` | `DeliveriesSpec => []ToldTwiceOnlyByLossOrInsistence` |
| | `RepairsAreWellTyped` | `MaintenanceSpec => []MaintenanceTypeOK` |
| | `FinishedJobsAreCountedOnce` | `MaintenanceSpec => []FinishedJobsCountOnce` |
| | `LoginsAreWellTyped` | `LoginsSpec => []LoginsTypeOK` |
| | `CarefulPageKeepsItsSession` | `LoginsSpec => []OneCarefulPageStaysSignedIn` |
| | `OfficeImplementsItsComponents` | `OfficeSpec => LedgerSpec /\ ApplicationsSpec /\ AgreementsSpec /\ LoginsSpec /\ MaintenanceSpec /\ DeliveriesSpec /\ BookingsSpec /\ EvidenceSpec` |
| | `OfficeIsWellTyped` | `OfficeSpec => []OfficeTypeOK` |

Each component has an inductive invariant of its own, with the same plan: what the
committed rows look like, and what a session may hold in memory compared with what
it read. A property that only a stale commit breaks then follows in three steps:
what a handler prepares breaks nothing that the rows it read did not; if those rows
are still the committed ones, the commit leaves exactly what was prepared (the
lemmas named `Merged...` and `...SavesWhatItPrepared`); steps that are no commit do
not touch the rows. Beyond that plan:

- `Evidence`: a sweep lists its candidates, then reads again for each batch. A
  session erases nothing that the rows it read in the same transaction show to
  be held, and a commit erases what the session erased and nothing else;
- `Evidence`, the chain: a run reads the last hash, then the pending rows, in two
  transactions, so `ChainIInv` follows three versions of the rows (`Later`): a row is
  written, then chained, its author's key stays, and members only leave. Each row has
  one writer (`RowsApart`), and until it commits nobody else touches the row. When
  the rows at the commit are those the run began with, so are those it read in between, but
  for hashes it does not use. The loop over the pending rows is a recursive function;
  `LoopExists`, `LoopHolds` and `LastOf` say that past each row it holds the hash of the
  last pending row up to there, or the tail, which is what `verify_chain` carries to the
  next row (`LinksFollow`), unless a pending row is older than a chained one;
- `Tenancies`: an import previews a spreadsheet and reads again before it writes,
  so the rows of the preview are carried along;
- `Agreements`: a sending takes several commits. It holds a draft, and links that
  nobody has signed, as it saw them; a stranded agreement therefore needs rows that
  changed, a sending cut short or a copy that was lost;
- `Deliveries`: what the other side accepted is compared with what the rows and
  the call in flight say was accepted. A difference needs a lost answer, a stale
  commit or somebody who asks again. For the types, a request or a task counts one
  attempt at most on a receipt or a post, so what it holds in memory counts fewer attempts
  than there were requests and tasks (`RoundBound`);
- `Maintenance`: the counters of a vendor are cardinalities of sets of jobs whose
  cost is recorded, which a completion enlarges by one (`Counted`), and no request
  takes back such a job or moves it to another month (`KeepsFinished`), so that every
  period which charged it contains its month (`ChargedWhenDone`). From cost to status
  leads `CostsFollow`: a job that is finished without its cost is being completed, or
  its completion was cut off. For the types, no counter
  exceeds the number of requests begun, and the rows of a request that still has
  a job to complete count one fewer (`Allowance`): without that, the second
  transaction of a completion could count past it;
- `Logins`: a page whose refreshes do not overlap holds a token that is the
  session's current one, or is about to be told of it (`KeysCurrent`), and that
  nobody else holds (`KeysApart`);
- `Applications`: every handler that moves an answer, or opens an application,
  scores it in the same rows, so what a session prepares is scored as far as the
  rows it read were;
- `OfflineQueue`: as long as no answer to a job was missed and no two tabs flushed
  it, one message at most carries the job, and once it is carried out its answer is
  on the way or its row is gone for good (`CarriedOnce`). The list that a flush works
  through is a recursive function over the jobs in the order they were made;
- `Bulk`: the plan of an operation (kind, targets, new rents) never changes once it
  is on record (`PlanKept`), and only one session can be about to insert it. A run
  remembers of each target it has come to that it failed, heard, or had its message
  fail in delivery (`RunOK`), and went by an operation that waited for it. The property asks for more than that the
  rows are what they were when the session began: they can change and change back
  while a run is in flight, and the run writes what it read in between. `Outdated` says so. TLC
  finds this only with more requests than the run allows; looking for the invariant
  showed it;
- `Breaches`: the hourly sweep writes to the staff before it commits. The committed rows, and
  the rows a session will write, have on record only chases that were tried (`Tried`), and a
  commit takes each column from one or the other (`MergedRegister`). The converse fails: a
  chase whose commit is lost is sent again, which `DeadlineIsChased` relies on.

The composed modules `MCOffice` and `MCDesk` look at one component at a time. A step of
a scene is a step of its component and leaves the variables of the others alone, so
each behaviour of the composition is a behaviour of every component
(`OfficeImplementsItsComponents`, `DeskImplementsItsComponents`); the fairness of the
desk is that of its components. Hence every theorem of the table holds of the
composition that the runs `office` and `desk` check, and `OfficeTypeOK` and `DeskTypeOK`
follow from the types of the components.

### Only model-checked

- Liveness (`PendingEnds`, `EarningsAreSettled`, `DueIsDecided`, `StatusFollowsDates`,
  `QueuedJobsSettle`, `DeadlineIsChased`): fairness is beyond the prover.
- That every action can be taken: a run reports an action that its instance never
  reaches, a theorem about all behaviours does not.

Every other property of the passing runs is a theorem.

## 6. Not modelled

Within the modelled parts: the caretaker's cash limit (it alerts and blocks
nothing), the amount and phone number a callback may overwrite, the link from a
payment to its first invoice, the statement and receipt documents,
notifications, outbound webhooks and fraud scores fired from `_confirm`; the
calendar arithmetic of `_period_end`, the price list, the expiry of trials;
`late_fee_service.waive_late_fee`, which nothing calls; parking and other optional
lines of an invoice, apportionment rules other than by unit;
lease documents and rent changes; the one-time code of a signing page; expiry of
login sessions, passkeys, API keys and one-time codes; inspections; renewal
notices and documents sent in bulk, and who is in the scope of an operation; the
evidence a breach must have to be dismissed or notified; assignments to properties;
back-off times and failure counters of deliveries; prices and
charges of a hire, compliance items, utility accounts; the vault and uploads.

`approval_service` is not modelled because no other service asks it for an
approval. Of parts without a protocol (reporting, search, documents, help, AI,
the screens of the clients) nothing is modelled.

Hazards that the list leaves out for its length: the monthly run also prepares a
disbursement for owners on daily settlement (`tasks/scheduled.py:475`); the
M-Pesa prompt reaches the customer before its row is committed
(`payment_service.py:573`); one unique violation loses a whole day's invoices
(`invoice_service.py:315`).

## 7. Plan

The model could be extended by the one-time codes and by inspections.
