# A TLA+ development of the 2geda Social backend

The repository is the Django / Channels / Celery backend of a social network
that also sells event tickets, runs paid polls and delivers advertisements.
This directory keeps TLA+ models of the parts in which state meets concurrency
(money, seats, votes, reviews, codes, memberships, counters and caches), TLC runs
that check small instances of them, and TLAPS proofs of the main results for every
value of the constants.

    tlc -workers 2 -config SalesRaces.cfg MCTicketSales     # one run
    tlapm TicketSalesProofs.tla                             # one proof module

`PROJECT.json` lists the runs, the mutants, the source lines of every
definition, the findings, the hazards and the theorems.

| Modules | Part of the code | Runs | Theorems |
| --- | --- | --- | --- |
| `TierLedger`, `TicketSales`, `TicketSalesProofs`, `MCTicketSales` | src/tickets: selling the tickets of one event | 5 | 6 |
| `PollVoting`, `PollVotingProofs`, `MCPollVoting` | src/polls: the life of one poll | 3 | 8 |
| `AdCampaign`, `AdCampaignProofs`, `MCAdCampaign` | src/advertisements: one campaign, its delivery and billing | 2 | 6 |
| `MCAccounts`, composing the eight that follow | | 1 | |
| `AccountsProofs` | five of them, as marked | | 5 |
| `ServiceProofs` | the other three | | 3 |
| `Registration` | src/accounts: staged registration, hashing, referral rewards | | in `AccountsProofs` |
| `Credentials` | src/accounts: reset codes, lockout, sessions, a device | | in `AccountsProofs` |
| `Messaging` | src/clients/messaging: codes through ladders and chains of providers | | in `ServiceProofs` |
| `PhoneCatalog` | src/accounts: the phone catalogue and its cached list | | in `AccountsProofs` |
| `Discovery` | src/accounts: connections, locations, people nearby | | in `AccountsProofs` |
| `RuntimeConfig` | src/config: one setting, its cache and its edits | | in `ServiceProofs` |
| `UserPages` | src/accounts: the cached pages of a user, profile edits, deletion | | in `AccountsProofs` |
| `Notices` | src/notifications: creation, batches, dispatch, the inbox | | in `ServiceProofs` |
| `MCCommunity`, composing the ten that follow | | 1 | |
| `DeskProofs` | chats with disputes, and the desk | | 4 |
| `SocialProofs` | five, as marked | | 5 |
| `LiveProofs` | the live side of polls | | 2 |
| `Chats`, and `Disputes`, which extends it | src/chats; src/tickets: disputes and their rooms | | in `DeskProofs` |
| `EventDesk` | src/tickets: sellers, events and payouts | | in `DeskProofs` |
| `Posts` | src/social: a post, its likes, comments, reshares, counters | | in `SocialProofs` |
| `Follows` | src/social: follows and the counters of profiles | | in `SocialProofs` |
| `Displays` | src/displays: a story, its counters and the sweep | | in `SocialProofs` |
| `Medias` | src/medias: uploads, stored files and the avatar | | in `SocialProofs` |
| `Geocodes` | src/social: the addresses of places | | in `SocialProofs` |
| `PollFeed` | src/polls: what the sockets that follow a poll are told, the rate limit | | in `LiveProofs` |
| `PollViews` | src/polls: views and total_views | | in `LiveProofs` |

## 1. Inventory

**Ticket sales** (`tickets/services/ticket_service.py`, `payment_service.py`,
`tickets/tasks.py`). State: `PriceTier.quantity_sold` and `quantity_reserved`,
`TicketPurchase` and `Ticket` rows, the event's totals, a Redis lock per event,
and what the gateway says of a checkout. Operations: `initialize_purchase`,
`verify_purchase` (called by the buyer and by the payment webhook),
`charge.failed`, and the sweep `release_expired_reservations`. Hard: the lock has
a TTL and is deleted by whoever finishes, the status is checked outside the
transaction that acts on it, webhooks are redelivered, one failing decrement
aborts the sweep. Correct when no tier is oversold, nothing unpaid is sold, a
purchase is counted once, and abandoned reservations come back.

**Events, sellers, payouts and disputes** (the rest of `tickets/services`).
State: status, fields and totals of an event, `Payout`, `Dispute` and
`SellerProfile` rows. Operations: create, edit, publish, cancel; request, mark
paid and reject a payout; open, assign and resolve a dispute; apply, approve,
reject and suspend. Hard: all of them check an instance read without a lock, and
an edit saves every column of it. Correct when an amount is paid out once, a
resolved dispute stays resolved and a ticket has one open dispute.

**Accounts**. State: pending registrations, counters, locks and cooldowns in
Redis; `User`, `OTP`, device and `Connection` rows; the discovery cache; the cached
pages of a user. Operations: start, resend and complete a registration; issue and
verify a code; log in and out; reset a password; request and answer a connection; edit
a profile, delete an account; keep a phone catalogue; reward a referral. Hard: a
registration is a Redis payload that requests and the password-hashing task read and
overwrite as a whole; the reset lock expires under its holder; caches are emptied
before the transaction commits. Correct when a code proves the address and name it was
sent for, resets a password once and is guessed a bounded number of times, and caches
say what was, at some time, true.

**Polls** (`polls/services/poll_service.py`, views, consumer, tasks). State: `Poll`,
`PollOption.vote_count`, `Vote`, `VotePayment`, `PollPayout` rows, queued payout
tasks. Operations: cast and remove votes by REST and by socket, pay for votes,
edit, delete and close, the closing sweep, the payout task, views. Hard: counters
beside rows, outdated instances, `skip_locked`, redelivered webhooks and tasks.
Correct when counters cover rows, one voter has one vote in a single-choice poll,
a payment is credited once, and payouts are backed by payments and not repeated.

**Chats**. State: conversations, members and roles, messages, join requests,
sockets and presence. Operations: open a direct conversation, create a group, add,
remove and promote members, request, approve and reject joining, send, edit and
delete messages, read markers. Hard: unlocked checks (two direct conversations,
the member limit, a request both approved and rejected), edits of messages that
are being deleted. Correct when a group keeps an owner and a deleted message
stays deleted.

**Notifications**. State: rows, the batch that groups them, preferences and
mutes, dispatch tasks. Operations: notify (in the caller's transaction or in a
task), dispatch over socket and push, read, hide, erase. Hard: the task may run
before the row commits, or twice; a worker may be lost between sending and
recording. Correct when only what was committed is announced, once, and the flags
and the batch say what happened.

**Medias**. State: media rows and stored objects, the bytes of avatars staged in the
cache. Operations: upload, signed upload and confirmation, the processing task,
deletion, avatar swaps and cleanups. Hard: processing is redelivered, draws a new
storage key at each run and races with deletion. Correct when what is shown as ready
has its file and the avatar is never cleaned up.

**Social**. State: posts, comments, likes, reshares and follows with denormalised
counters, places and their addresses. Operations: toggle, comment, reply, edit, delete,
follow, unfollow, capture and resolve a place. Hard: concurrent toggles; counters
beside rows; edits that save every column; a geocoding task in several steps.
Correct when counters equal rows and an address is of its cell.

**Displays**. State: short-lived posts with views, likes and comments. Hard: the like
counter is moved by the service and by a signal; a view is inserted and counted in two
transactions; a task deletes expired displays. Correct when each counter is a fixed
function of the rows.

**Advertisements**. State: the campaign (status, window, price, counters, amount
spent), creatives, the event log and the daily rollup. Operations: create, edit,
delete, submit, review, pause, resume, cancel; three sweeps; serving; recording
beacons. Hard: transitions check outdated copies, edits save every column,
beacons and their tasks are repeated. Correct when nothing runs unreviewed, an
event is billed once, and log, rollup and charges agree.

**Runtime configuration**. State: settings rows, one cached map of them, a pause per
process after a failed read. Hard: the cache is invalidated before the writing
transaction commits. Correct when only committed values are served, and current ones
soon.

**Clients**. State: the cooldowns of messaging providers that workers share. Hard: a
provider fails half-way, or delivers and reports a failure. Correct when a code
arrives once and no provider of a chain is passed over. Payment gateways, Google and
storage are what the services see of them.

**Search**. Read-only ranking. **Core and utils**. Settings, the celery
configuration, enums, base models.

Interaction: services change Postgres rows in transactions and enqueue celery
tasks; celery (`task_acks_late`, `task_reject_on_worker_lost`, src/core/celery.py:43-44)
delivers a task again when its worker is lost; webhooks of the gateway may be
repeated, overlap with the client's own verification, or be late; consumers and
REST views call the same services; beat starts the sweeps.

## 2. Plan

Written in this order: the seat ledger and the ticket sales that implement it, polls
and their payouts, and campaigns, because money comes first; then the modules around a
user's account; then what users do with each other. A module is self-contained: its
parts meet in it through the rows they share. Where two subsystems really write the
same rows one module extends the other (`Disputes` opens, fills and locks rooms of
`Chats`); `Follows`, `Medias` and `UserPages` each contain the profile edit, of which
each shows what it does to the columns of that module.

`TierLedger` is the one abstract specification; the others state their promise as
invariants, since what the code keeps is a relation between rows and history rather than
a simpler machine.

What is left, in order of interest: the cascade of an account's deletion over posts, follows
and displays; action properties of single parts as theorems
(beside those of votes, campaigns and conversations); abstract specifications for
`Notices` and `Messaging`, whose promises have become small enough to be machines;
liveness of the dispatch and resolver tasks; the smaller omissions listed in section 8.

## 3. How the models read the code

**Steps.** What another thread, worker or server can see in between is a
boundary between two actions. A transaction whose first statement locks or
updates the row it is about is one action; one that reads first, or calls the
gateway in the middle, is several, with the rows it has locked held in
between. An instance that a view read before its transaction is a *copy* kept in
`job` or `edit`, and `save()` without `update_fields` writes back all of it. Row
locks and the checks of the database (unique constraints, `PositiveIntegerField`)
are modelled; Redis keys expire whenever they like.

**Failures.** A worker that is lost is an action (`CrashPurchase`, `AbandonJob`,
`Rollback`, `LoseClose`, `SweepCrashes`, `SweepEnds`, `GiveUp`): its transaction
leaves nothing, its lock key stays. Tasks with `acks_late` run again.
The gateway, the one external component, decides by itself how a checkout ends
and which webhooks come how often.

**Mutants.** A definition that stands just before another with the same
parameters is that definition with a bug. No specification uses it;
section 5 says which property notices when it takes the other's place.

### TicketSales and TierLedger

`call[p]` follows `initialize_purchase` for purchase attempt `p`: `AcquireLock`
(`SET NX EX 30`), `LockTier` (the row lock and the availability check),
`CommitPurchase` or `AbortPurchase` (the gateway opened the checkout or not),
`Unlock` (the `finally`, which deletes the key whoever holds it by then).
`status` and `seats` are the purchase row and the status its tickets share, `sold`,
`reserved` and `totals` the counters. A worker runs `verify_purchase`:
`BeginVerify` is the unlocked status check, `GatewayAnswers` the call,
`Confirm` or `ReleaseReservation` the transaction; `BeginChargeFailed` enters at the
last. `DecrementRejected` is the IntegrityError of a counter below zero.
`SweepList`, `SweepRelease`, `SweepSkip`, `SweepRejected` are the celery sweep.

`TierLedger` says what the inventory promises: a tier is a bounded pool of
seats that are free, reserved or sold, and sold ones never return.
`ImplementsLedger` is the refinement: `Ledger` instantiates `TierLedger` with `sold` for
`sold` and `reserved` for `held`.

The model assumes that the lock lives in a Redis: ticket_service.py:44 opens
`settings.CELERY_BROKER_URL` with the Redis client, while `.env.example:31` sets an
amqp URL there, for which that call fails and nothing is sold at all. The
event's totals are modelled but promise nothing there, since a seller's edit may
overwrite them with an older copy: that is `EventDesk`.

### PollVoting

`poll` is the row, `count` the options' counters, `free` and `bought` the vote rows,
`payment` and `charge` the payments here and at the gateway. `BeginVote` /
`CommitVote` hold the poll's row lock in between, `BeginCredit` / `CommitCredit` that
of the payment. `RemoveVote` and `RemoveOptionVote` are one action each.
`BeginEdit` reads the poll and `SaveEdit` writes all of it, replacing the options
(and, by cascade, votes and payments) if asked to. `BeginClose`, `CommitClose`,
`EnqueuePayout` are the author's closing; `SweepLists`, `SweepCloses`,
`SweepEnqueues`, `SweepEnds` the sweep, of which one runs at a time. `tasks` counts
the payout tasks by state.

Seen on the way, and allowed by the model, without a promise in the repository
that they would break: a sweep may close a poll that its query of identifiers
had skipped as locked, and then enqueues no payout for it (tasks.py:35-52); an
edit from an outdated copy reopens a closed poll; a webhook that comes after the
payout is never paid out; a webhook and an edit may lock in opposite orders, and
Postgres aborts one of them (`Rollback`).

Not modelled: creation, `verify_vote_payment` (no URL reaches it); views are `PollViews`.

### AdCampaign

`row` is the campaign, `creative` whether it has an image, `attach` the queued
`attach_ad_creatives` tasks, `log` the `AdEvent` rows and `rollup` the sum of the
`AdDailyMetric` rows. A request or an edit reads the row (`BeginRequest`,
`BeginUpdate`, `BeginDelete`), checks its copy, and writes later: `Submit`, `Approve`,
`Transition` and `SoftDelete` the columns they name, `Update` all of them. Two
sweeps look again under a row lock (`SweepActivates`, `SweepCompletes`), the third
does not (`SweepPauses`). `Serve` is the delivery query, `Record` the locked
recording of a beacon, run up to `MaxRuns` times for each.

What `Record` does, and the model with it: the view takes a beacon from anybody
(`AllowAny`), and neither it nor the service looks at a showing or at the campaign's
status, so what is reported of a paused or cancelled campaign, or of one that nobody
reviewed, is recorded and billed (`RunsOnlyReviewed` is about the status and about who
is shown the campaign, not about reports); a beacon without `dedupe_key` is counted each
time its task runs. The column
`amount_spent` has two decimals and a bid for impressions is divided by a
thousand, so `Cost` rounds: below 5.00 per thousand an impression costs nothing, at
5.00 it costs twice the price.

Abstracted: targeting, daily and per-user caps (they only narrow whom a campaign is
shown to), days, changes of cap and budget, bids below zero (the serializers do not
refuse them; `PricesKnown` assumes none), Django's admin forms, and media that disappear
after they were attached. Every campaign has a placement: the serializers refuse an
empty list.

### Registration

`pendings` is the payload under an identifier's Redis key; each call reads it and
writes it back later, as does `hash_pending_password`. A code is the number of the
message that carried it, so `sent` says what each vouches for. `RegInv` tells that
whatever overwrites whatever, a payload pairs its name with a code sent for that
name to that identifier, and an account follows from such a payload. A late hashing
task may bring back the password of an earlier attempt of the same identifier: the
model shows it, `PasswordsKept` does not exclude it. A repeated reward task pays again
(`MaxRewards`); only its account must exist.

### Credentials

One user's reset codes with the three guards of a verification: the Redis lock that
expires (`verifier`), the row lock until the reset commits (`rowHolder`), the UPDATE that
asks for an unused row. What a refused reset wrote is rolled back, what it counted
(`guesses`) is not. Sessions and the device row change in the same calls.

### Messaging

`sending[c]` is the delivery task of a code: a ladder of channels, and for each the
chain of providers, which `candidates()` reads in two passes over the shared cooldowns
(`ReadHot`, `ReadCold`). A provider may deliver and report a failure. A provider whose
cooldown moved between the passes may be left out or asked twice, which is why
`NobodyDropped` speaks of runs without `wavered`, against the comment "deprioritised, not
dropped" (failover.py:63-64).

### PhoneCatalog, Discovery, RuntimeConfig, UserPages

`PhoneCatalog`: a creation counts and inserts under the lock of the user's row; updates
and deletions lock nothing. An update saves every column of the entry it read, the mark
of deletion included, so one that races a deletion brings the entry back and nobody
counts it: `undeleted` names those entries, and the limit is stated without them,
because with them it does not hold. A list is cached under whatever version there is by
then. `Discovery`: the report of a location and the tasks write the table and several
Redis keys one command at a time; a command may fail, which is logged, and a step may be
the last of a lost worker. A result found around a location names only people who
reported one; whoever asks from nowhere with distance 0 is shown everyone
(connect.py:53-58), and no property is about those results but that they leave out the
asker. `RuntimeConfig`: `get_config` is three steps; the admin's form empties the cache
before its transaction commits, the list action after, and either may fail to, in
silence (runtime.py:84-89). `CacheFresh` is therefore conditional (`crossed`): the
comment that an edit "must take effect on the next request, not in five minutes"
(config/signals.py:14) holds of the list action alone, and only when the cache does its
part. `UserPages`: the three caches of one user, contents numbered by the change that
made them. The history variables name the races after which something outdated stays:
`outrun` (a row changed under a cached or an arriving old copy), `rewound` (the list's
version was set back), `reverted` (an edit saved an older password), `revived` (an edit
re-inserted a deleted account, which accounts/views.py:411-414 calls permanent).

### Notices

One recipient and one source. `Happens` starts a creation, within a caller's transaction
or in a task; `Enqueue` may come before `Commit`; `Load`, `Send`, `Record` are the dispatch,
each of which a lost worker repeats from the start. That notifications of high priority
ignore mutes is left out: every caller of `create` gives a normal one (payouts, which do not,
insert their rows without it). `Hide` is the soft deletion of one,
`EraseAll` the queryset deletion of all that are not hidden, with the batch that pointed at
one of them.

### Chats and Disputes

A consumer handles one frame or event at a time; `handler[s]` is the frame between its reads,
its writes and what it does after the commit: it joins the conversation itself, reads the
members, packs the event and tells one user after the other. No row is locked. A write that
breaks a uniqueness constraint raises through the consumer and drops the socket
(`disconnect` does not run, so `online` stays); so does a server that dies, and nobody does
the rest. In `AskAdd` the names in the frame are strings and the members' ids are UUIDs
(consumers.py:1011, chat_service.py:115-122): the filter of those already present removes
nothing, and naming one fails the whole insert. An event may also be dropped by the channel
layer (`untold`), and the event of a conversation with a message carries a UUID that the
layer cannot pack, so that telling of it always raises (`Packs`). `Disputes` adds the REST
calls that open a room for a buyer and a seller, seat moderators in it and lock it. The model
shows two direct conversations of a pair, groups beyond the limit and two disputes of a
ticket; what stays true, and is checked, is ownership, membership, unread counts, what is past
and who hears what. `OrdinaryMembersListen` leaves out the pairs in `untold`: what it says of
the others is that no membership written while a socket connects, or while a handler is
telling others, is missed.

### EventDesk

A seller's application, one event, its payouts. Each call keeps the copy it read in
`clerk`; an edit saves all of it. A purchase is only its PUBLISHED check, a row, and the
verifications that add to the event's totals; the rest of it is `TicketSales`. As there, a
verification begun before another ended adds the price again (ticket_service.py:157-194), and
so does one after a negative answer or a failed charge released what was paid: `books` keeps
what was sold and what was added again apart, and a payout is bounded by both together,
because a bound by what was sold alone does not hold. `past` records what happened, so
that the invariants compare rows with history. That several payouts may together exceed
the revenue (a second request after a paid one starts from the whole of it) is visible in the
model; no statement of the repository excludes it.

### Posts, Follows, Displays

Calls read without locks and write rows and, by the signals' F() updates, counters in one
transaction. In `Posts` and `Follows` an edit saves counters read earlier (`drift`,
`overwritten`); the second deletion of a gone like or reshare still moves the counter
(`drift`), while a second unfollow raises and rolls back. Deletions of posts and comments
only mark rows, so comments_count and replies_count count comments ever made, although
docs/websocket-events.md:200 and :220 let them go down. In `Displays` a like is
counted by the service and by the signal, hence two for every like. The deletion of an
account, whose cascade takes likes, views, comments and reshares along, is in none of the three.

### Medias, Geocodes

`Medias`: an upload task draws a new storage key at each run and saves the whole row; a
signed upload is confirmed by the client; an avatar's bytes wait in the cache, are stored
and dropped, and the avatar is swapped under a lock of the profile. `restored` marks the
profile edit that puts back an avatar it read before. The owner may delete the media that is
the avatar: the profile goes on naming a row marked deleted and the file is removed, so
`FilesStay` is about media that are not deleted. `Geocodes`: a place is captured in its
post's transaction; after the commit its task is queued, or is not, if the broker refuses or
the server dies (`Enqueue`). Reading, looking, asking, caching and saving are separate steps;
a task that raises starts again `MaxRetries` times and is then given up (`TaskRaises`), one
whose worker is lost always does (`LoseWorker`); the cache may fail at each look and write.
`givenUp` names the places left pending without a task.

### PollFeed, PollViews

`PollFeed`: what a socket that follows a poll is told. The rows of the options carry UUID
objects (poll_service.py:225-228). `send_json` raises on them, so the first frame of
`connect` ends the consumer (`Leaves`), and so would the acknowledgement of a vote; msgpack
cannot pack them for the channel layer either, and the broadcaster only logs that. A socket
gets past its first frame only when the poll has no options or is deleted (`SeesNone`), which
`bared` remembers; polls/tests/test_consumers.py:28-41 gives the options ids that are strings.
`poll.closed` carries strings and arrives: after the commit of a closing over HTTP, before
the commit of the sweep's; it may fail, be dropped, or its worker be lost before it
(`unheard`), and the sweep may roll back or an edit reopen the poll (`undone`). `hits` is the
counter of the rate limit in the cache, which a first hit sets without looking again, or fails
to set. `PollViews`: look, insert and count are three statements; the edit writes an outdated
total back; `together`, `rewritten` and `uncounted` name what may go wrong. Deletion of the
poll's rows is left to `PollVoting`.

## 4. Runs

| Run | Instance | What it shows | States |
| --- | --- | --- | --- |
| `sales_races` | 2 purchases (1 and 2 seats) of one tier with 3 seats, a second tier, 2 workers, every gateway outcome | types, the inductive invariant, no leaked reservation, nothing unpaid is sold | 510,743 |
| `sales_rush` | 3 buyers of one seat each, 2 seats, 2 workers | no oversale; `TierLedger` is implemented | 1,026,973 |
| `sales_progress` | 2 purchases, 2 seats, 1 worker, fairness | calls and jobs end, overdue purchases released | 56,015 |
| `sales_counted_once` | as races | violated: two verifications count one purchase twice | |
| `sales_sweep_stuck` | as progress | violated: an overdue purchase is never released | |
| `poll_ballots` | 2 voters, 2 options, 1 payment of 2 votes, 2 workers, both kinds | counters, credits, single choice, closed polls | 223,902 |
| `poll_money` | 1 voter, 1 option, 1 payment, 1 worker, 1 edit, fairness | payouts backed and not repeated; polls close; payouts follow | 156,696 |
| `poll_unvote_paid` | as ballots | violated: an unvote deletes paid votes | |
| `ad_desk` | 2 workers, a keyed impression and a keyless click, each run twice, clock to 2 | log, rollup, charges and review agree | 1,021,608 |
| `ad_terminal` | as desk | violated: a cancelled campaign comes back | |
| `accounts` | eight parts, two threads each (below) | codes, passwords, caches, catalogue and notifications keep what they promise | 750,352 |
| `community` | nine parts, two threads each (below) | memberships, counters, payouts, files, addresses and live feeds keep what they promise | 291,463 |

The bounds. Every race in this code is between two actors and one row, so two
workers and two purchases (or votes, or copies) produce it; a third buyer in
`sales_rush` is the one who loses a seat to a double release. Quantities 1 and 2 make a
release of one purchase large enough to take another's seats. `BatchSize = 1`
makes the sweep leave work behind. `Outcomes` is how a checkout may end: paid in full, in
part, or not. In the polls, `MaxCount` caps free votes by an
option's counter, which never comes down after some removals, and `MaxEdits`
caps edits; without edits `poll_ballots` affords two voters and two options, and with
one `poll_money` affords the payouts. In `AdDesk.cfg` the window is ahead, open and over
as the clock passes; the window `<<2, 1>>` is there for edits to be refused;
`Cap = Budget = 1` exhausts the campaign at the first event of each kind. One price
keeps it small; the proofs cover all of them. Symmetry is used in runs
without liveness only (`sales_rush` also permutes its identical
purchases). Deadlock is not checked: all buyers served, a deleted poll and a
campaign at the end of time are ends the code really has.

`accounts` and `community` are compositions of parts that write disjoint rows, so that
one state space would be their product without an interleaving that matters. The initial
states choose the `part` that moves and the others stay as they began, so the run is
the sum of its parts, each explored in full, and every part is one disjunct of the
composed `Next`. What really shares rows is one part (`talk` is `Chats` with `Disputes`).
The threads `t1`, `t2` and the users `u1`, `u2` are shared names, so that one symmetry group
serves all parts: no constant and no definition tells `t1` from `t2` or `u1` from `u2` (the
places `u1` and `u2` lie in one cell). `ChatPastKept` is an action property that treats
them alike and is judged on every step, so symmetry is sound for it.
Two threads with two to nine calls produce each race listed under the hazards, and
limits are made small enough to be met: one guess per code, two entries in the catalogue,
one actor in a batch's preview, groups of two to three, two votes per window, two runs
of an upload, one retry of a geocoding task (three in the code, where nothing but the number
differs), one lost worker. `MaxFrames = 5` is a connection of both
sockets, a room, and two frames or calls that overlap in it (six, with a third, pass as well,
in a state space five times the size); `MaxDeskCalls = 9` takes a seller from the application to an event
that is published, bought by two, over, and paid out; `MaxFeedCalls = 3` is a closing or a
sweep with two votes, or an edit, a vote and a closing. `MaxVersion = 4` lets a list's version
move on and be set back; one spot tells who reported where they are from who did not; two
providers make a chain. Two messages or conversations are not needed where frames are about
one.

Fairness, and why the code gives it. `FairSpec` of `TicketSales`: requests go on until
they return (`WF CallStep`, `WorkerStep`), Redis expires keys (`WF LockExpires`), beat
starts the sweep every five minutes (`WF SweepList`, `SweepStep`); a purchase
that is listed again and again is at some time reached with its row unlocked
(`SF SweepRelease \/ SweepRejected`; without it `skip_locked` could always find it
locked). `PollVoting`: transactions end (`WF JobStep`), the sweep runs on (`WF
SweepStep`), it does not find a poll locked for ever, nor is it lost each time it does
not (`SF SweepLists` when it lists the poll, `SF SweepCloses`), tasks are taken
from the queue (`WF TaskChecks`) and not every delivery loses its worker (`SF TaskPays`).
No fairness is assumed of buyers, voters, gateways and webhooks. For
`AdCampaign` no liveness is claimed: the beat entries of its sweeps are
commented out (src/core/prod_settings.py:121-134).

## 5. What would break each property

| Property | Mutant | The bug |
| --- | --- | --- |
| `IInv` (sales) | `RowUnlocked` | no `select_for_update` on the tier |
| `NoLeakedReservation` | `CancelKeepingSeats` | a release forgets `quantity_reserved` |
| `SoldWasPaid` | `GatewayAnswersAnyAmount` | the amount is not compared |
| `NoOversell` | `AvailableUnreserved` | availability ignores reservations |
| `ImplementsLedger` | `CancelUnchecked` | the decrement may go below zero |
| `WorkEnds` | `DecrementRetried` | a failed release is retried at once |
| `OverdueReleasedIfHeld` | `SweepReleaseUnsaved` | the sweep does not save the purchase |
| `CountersCoverVotes` | `RemoveUncounted` | a removal decrements without a vote |
| `PaidRowsBought` | `PaymentUnlocked` | the webhook does not lock the payment |
| `IInv` (polls) | `BeginVoteOnClosed` | no check that the poll is open |
| `SingleChoiceOnce`, `ClosedTakesNoVote` | `PollUnlocked` | casting does not lock the poll |
| `PayoutPerTask` | `PayableAgain` | the task does not look for a payout |
| `PayoutBacked` | `CollectedPending` | pending payments are paid out |
| `DueCloses` | `CloseUnsaved` | closing does not save the status |
| `PayoutFollows` | `TaskLost` | tasks are acknowledged before they run |
| `RollupMatchesLog` | `ApplyToPaying` | only billed events reach the rollup |
| `NeverOvercharged` | `RecordCountsFirst` | counters move before the duplicate check |
| `RunsOnlyReviewed` | `AllowedLoose` | a draft may be paused, and then resumed |
| `IInv` (ads) | `ServeAnyStatus` | delivery does not filter on the status |
| `RegInv` | `HashedOwn` | the hashing task hashes the raw password of its copy, which an earlier run has erased |
| `CredInv` | `MayCompareLate` | a code past its expiry is still compared |
| `MessagingInv` | `ReadHotOnly` | a provider on cooldown is dropped |
| `CatInv` | `MayInsertOneMore` | the limit is off by one |
| `DiscInv` | `RequestSetsFirst` | the Redis sets are written before the row |
| `ConfigInv` | `EmptyIntoForm` | the form's value goes into the cache before the commit |
| `UserPagesInv` | `DeleteKeysNotMe` | the signal forgets the key of /me |
| `NoticeInv` | `WantedAnyhow` | the dispatcher ignores what was sent already |
| `DisputeInv` | `MayRemoveAnyone` | an admin may remove the owner |
| `OrdinaryMembersListen` | `SubscribedLate` | a socket subscribes to its user's events only after it has joined the conversations |
| `ChatPastKept` | `InsertableBack` | an insertion takes the row of a member who left |
| `DeskInv` | `SellableAny` | a purchase does not check that the event is published |
| `PostInv` | `MayReplyToAny` | a reply may answer a reply |
| `FollowInv` | `FoundAnyway` | an unfollow whose row is gone counts all the same |
| `DisplayInv` | `CreatedAlways` | a view that exists is counted again |
| `MediaInv` | `DropBlobLater` | the staged bytes are kept when a run ends |
| `GeoInv` | `Uncached` | only the cache is asked for a known address of the cell |
| `FeedInv` | `ListeningLate` | a socket joins the group only after its first frame |
| `ViewInv` | `UnseenByAll` | the lookup does not ask for the viewer |

## 6. Proofs

Every safety invariant that a run checks is a theorem, and so are the action properties
of the passing runs. The proofs hold for every set of purchases, tiers, voters, options,
payments, beacons, members, conversations, messages, media and places, any workers and
threads and any bounds; the named `ASSUME`s of each module are all they rest on: natural
quantities, prices and bounds, constants that relate as the code makes them (a chain and
a ladder are not empty, a dispute's buyer and seller are two people), and finiteness of
what is counted (`ReadersFinite`, `DisplayThreadsFinite`, `HappeningsFinite` and the
like). Each component is proved on one plan: lemmas that count rows; types, one lemma
per group of actions; one lemma per remaining conjunct of the invariant that says what a
step does to it; then `Init => IInv`, `IInv /\ [Next]_vars => IInv'` and the theorems.
Lemmas of the form "where a row, a job or a log entry of the next state comes from"
(`StepEffect`, `BallotsChange`, `JobOrigins`, `RowOrigins`) keep the case analysis in
one place. Ticket sales, polls and campaigns have a proof module of their own; the
smaller components share five, one after the other, each under a heading.

In most components the invariant that the run checks is inductive: where it was not, the
conjunct that it needs was added to it, under a name and with what it says of the code, so
that TLC checks it on the instances as well.

**TicketSales.** `NeverOversold` needs more than the counters: that the seats sold
fit into `sold`, and `sold + reserved` into the tier, is inductive only with
`ReservingFits` (an open reservation has room and has the tier to itself, which
is the row lock, not the Redis lock: no conjunct mentions `lockHeld`).
`NothingLeaks` needs `FreshRows` and `WorkedRows`, so that a job finds the row its
purchase committed. `SoldMeansPaid` needs `ConfirmSawPayment`: the answer read
outside the transaction stays true, because a paid checkout stays paid.
`LedgerRefined` shows that every step is a step of `TierLedger` or leaves the
counters alone: `Ledger == INSTANCE TierLedger WITH ... held <- reserved` makes the
mapping, and `ImplementsLedger` is `Ledger!Spec`.

**PollVoting.** `VoteHolds` and `CreditHolds` are what the two row locks give between
the steps of a transaction; from the first follow the action properties
`OneVoteEach` and `ClosedStaysClosed`, from the second `CreditedOnce`. `ChargeFits`
ties the payment row to the gateway, so that what a payout sums up was paid.
`PayersHaveNotPaid` strengthens `PayoutPerTask`, which is not inductive: a task about
to pay has to be counted as if it had paid.

**AdCampaign.** `CopiesBehind` (a copy never has more spent or counted than the
rollup) makes `NeverOvercharged` inductive under edits that write old copies back.
`JobsAfterApproval` (a request, sweep or copy that presupposes approval exists only
after it) does so for `RunsOnlyReviewed`, and `LogFromRuns` (log entries are told
apart by the run that wrote them) for `RollupMatchesLog`.

**EventDesk.** Every call acts on a row read earlier, so what holds of rows must
hold of the copies in `clerk`: `RevenueBacked` covers the revenue in both, measured by what
the confirmations ever added (`Booked`), and
`DeskRemembers` says that an approval, publication or end that a row shows or a call once
read did happen. With them `PayoutsEarned` and `SoldWhatWasPublished` are inductive, one
lemma per call. What is due of a payout is at most the revenue because the commission is a
percentage (`RatePercent`).

**Follows.** `FollowersExact` is inductive as it stands for all steps but the profile edit,
and for that one because it sets `overwritten` whenever its copy's counters are
not the current ones. The lemmas count: adding or removing one row changes the
cardinality of one set of followers and one of followed by one.

**PhoneCatalog.** The limit needs `InsertsAlone`: whoever is between its count and its insert
holds the lock alone and has room, which deletions, that lock nothing, can only enlarge, and
updates only by entries in `undeleted`.

**RuntimeConfig.** `CacheFresh` needs `ReadersFresh`: a reader about to store a map stores that
of the table, unless an edit ended while it, or a cache that did not delete, held another
(`crossed`).

**Credentials.** `CodesResetOnce` needs `RowsHeld` (at a code's row there is one transaction at
a time, whatever the Redis lock does) and `FreshCodes`; `GuessesBounded` needs that the
Redis counter is not below the number of comparisons until the code expires.

**Registration.** `CopiesVouched` says of every place where a payload can lie (the key, a call,
a hashing task) that its code and its password were given for it; a step only moves copies
between such places, so one lemma (`CopiesStay`) serves all steps. `CallsPrepared` carries
what a call has checked.

**Discovery.** `TasksFounded`: whoever writes a Redis set or a response has written, or seen,
the row first, and rows stay. With it nothing in Redis runs ahead of the tables, wherever a
worker is lost.

**UserPages.** What a reader carries to a cache is the row, unless a change has outrun it
(`ReadersCurrent`): this makes `CachesCurrent` inductive. `LocksApart` (two transactions
never have one row, and one that commits has saved both of its rows) does so for
`GoneForGood`.

**Messaging.** What a run has still to ask and has asked are sets of places in the chain, of
which it takes the least; that there is a least one is the only fact about natural numbers, and
comes from `WFMin`. Until the second pass, the first stands unless a cooldown moved
(`NobodyDropped`, first conjunct).

**Notices.** `KeysInOrder` is the life of a key: until its creation is written or queued
there is no row or no task of it. `DispatchInStep` counts pushes against what a task
still has to do, `BatchHeld` is the row lock of the batch, under which what was read of
it stays true. The lemmas speak of values (`KeyFine` of one row, task and its counts;
`Honest`, `Held`, `Ordered`), so that an action has to say only what it writes.

**Chats, Disputes.** `TalkStep` and `DeskMoves` say what any step may do to a membership, a
request, a message, a conversation or a dispute; every action is shown once to be such a step,
and each conjunct, as well as `ChatPastKept`, follows from that alone. What a frame has read and
not yet written about is in `FramesAimed` (`Aimed`), `CallsAimed` and `FreshUnseated`: the
target of a removal is not the owner, since ownership does not move between its check and
its write. `OrdinaryMembersListen` needs the states of sockets and handlers as well: a
conversation written while a socket reads is told by the handler that wrote it, which either
still has that user to tell, or has told, or died and left the pair in `untold`.

**Posts.** `ReadsStand`: a parent that was looked at before the transaction stays a comment at
the top, because comments are only marked; keys not yet given are nobody's.
**Displays.** Inductive as it stands: only a live display makes a claim, and none comes back
to life; views being counted are the rows less the counter.

**Geocodes.** `OneAddressPerCell` is not inductive, since an address travels between task,
cache and rows. `RivalsCrossed` speaks of all of them (`Around`); nobody begins to ask while an
address of the cell lies in a row, and who begins while it lies elsewhere is recorded in
`crossed`. `TasksInStep` ties a task to its row and its questions to its runs, for
`AskedOncePerRun` and `NoneForgotten`.

**Medias.** `KeysAhead` and `WornOnce` say why a repeated run meets nobody: its key is new, and
an image is swapped in once, since its bytes are dropped before the swap. With
`DroppedAreGone` they carry `FilesStay` and `AvatarKept`.

**PollFeed.** Inductive as it stands, once it is spread over sockets and calls: a consumer's
step moves its own entries only (`SocketMoves`), and each conjunct follows from that. A socket
that is not `late` had joined when the end was announced or written, so that an announcement
that reaches the group reaches it, or is marked as `unheard`; `admitted` is covered by the
counter and the hits that it lost (`LimitHolds`).
**PollViews.** A sum of rows, finite by `ViewIInv`, each of which is counted,
about to be, or its server stopped.

Only model-checked: liveness (`WorkEnds`, `OverdueReleasedIfHeld`,
`DueCloses`, `PayoutFollows`), since it needs fairness and ENABLED, which the
prover does not handle; and what the runs refute (section 7). Sums over data are counted as
cardinalities of sets of rows, and one that adds quantities (the tickets of a purchase, as in
`CountedOnce`) would need induction over a set, whose theorem takes an operator as its
parameter. No module declares a RECURSIVE operator. The theorems of a component are about
its own specification; in the composed runs a part takes the steps of that specification or
none, so they hold there too.

## 7. Findings

Four statements of the repository do not hold of its code; each is the one
property of a run.

- `CountedOnce` (ticket_service.py:157). docs/tickets-api.md:187 calls
  `verify_purchase` idempotent, "without double-counting inventory". Two overlapping
  verifications both add to `quantity_sold`. What remains true: no oversale
  (`NoOversell`), no leaked reservation; the tier loses a seat it could sell.
- `OverdueReleased` (tickets/tasks.py:54). docs/tickets-api.md:195 says that overdue
  purchases are found and released. After a double release the decrement fails each
  time. `OverdueReleasedIfHeld` is what is kept.
- `PaidVotesStay` (poll_service.py:171). docs/websocket/polls.md:96 says that `unvote`
  is for free polls; it deletes paid votes and leaves the payment successful.
- `TerminalIsFinal` (advertisement.py:114). `ALLOWED_TRANSITIONS` gives completed and
  cancelled campaigns no successor, and a test is named for it; an edit or request that
  read the campaign earlier moves it back.

Other comments and documents that the code departs from were met on the way. They have no
run of their own, since a property of a passing run states what remains true:

- docs/websocket-events.md:200 and :220 let comment counters fall with a deletion; it only
  marks the row and no signal follows (utils/models.py:34-37) (`CountersExact`).
- "Keeps the first BATCH_PREVIEW_LIMIT" (notification_services.py:379): the newest come
  first (`BatchHonest`).
- "must take effect on the next request, not in five minutes" (config/signals.py:14): the
  form empties the cache before it commits (`CacheFresh`).
- "deprioritised, not dropped" (failover.py:63-64): a cooldown that begins or ends between
  the passes drops or doubles a provider (`NobodyDropped`).
- "returns the existing unresolved dispute rather than creating a duplicate"
  (docs/tickets-api.md:205): two calls that overlap each open one (`RoomsSeated` holds of both).
- polls/tests/test_consumers.py:28-41 gives the options ids that are strings, and so shows
  frames and broadcasts that with the UUIDs of the rows never arrive (`OnlyBaredPollsSpeak`).
- "Permanently deletes ... cannot be undone" (accounts/views.py:411-414): an edit in flight
  inserts the account again (`GoneForGood`).

## 8. Hazards and what is not modelled

`PROJECT.json` lists what is hard to test in this code at its lines, each with the
properties that watch it. Some of what it lists the code simply does, without a statement of the
repository that says otherwise: a `note` then says what the property leaves out (a history
variable names the race) and what it still covers, and where it covers nothing of the hazard no
property is named. Four need a word:

- The rounding of `amount_spent` (events.py:41) is in the model as `Cost`; what
  follows from it is arithmetic, and no property is about it.
- A closed poll may stay without a payout task (polls/tasks.py:51). The model
  shows it; nothing in the repository promises otherwise.
- Several payouts of one event may add up to more than its revenue
  (payout_service.py:47); `DeskInv` bounds each.
- Two direct conversations of one pair, two disputes of one ticket, a group beyond its
  limit and a referral rewarded twice are behaviours of the models; the properties state
  what remains true beside them.

Not modelled: search (it keeps no state); storage, e-mail and push adapters (I/O around
services); administration forms, serialization and permissions; the cascade of an
account's deletion over its likes, views, comments, reshares and follows; the socket
consumers of notifications and social, which only relay; KYC review, categories and
reports; feeds and trending lists, which are cached for a minute or two and never
invalidated; media variants and image scaling; targeting and caps of campaigns;
`mark_completed`, `SellerService.suspend` and `verify_vote_payment`, which no URL
reaches; `notifications/services.py`, which a package of the same name shadows. What the
settings say of celery, autocommit and beat appears in the crash and redelivery actions
and in the fairness.
