# RollCall, verified

RollCall is a Telegram bot (Python, one asyncio process, SQLite or Postgres)
with a web page and a REST API beside it. A group starts a *rollcall*; members
answer IN, OUT or MAYBE; with a cap on IN the next ones wait and move up.
Around it grew schedules, money, absences, identities and administrators. This
directory holds TLA+ modules of the program, the TLC configurations that check
them on small instances, and TLAPS proofs. The modules are translated from
`src/rollCall`.

## Inventory

| part | state | operations | hard because | module |
|---|---|---|---|---|
| rollcall (`models.py`, `services/voting, proxy, admin, settings, web, common`) | four lists, cap, guests' owners | votes, guest votes, admin moves, deletions, caps, web votes | every path keeps the lists consistent by hand; promotions and demotions | RollCallLists |
| tables (`db.py`) | `users`, `proxy_users`, `rollcalls` with position columns | one transaction per row | an operation is several transactions; memory changes first | RollCallStore, RollCallFaults |
| counters and web guests (`services/common, voting, web`) | `user_stats`, `proxy_owners` | counted by each path; leftovers of a web guest dropped | who is counted, whose entry is dropped | RollCallHistory |
| outbox (`chat_outbox.deliver`) | block time, queue, lock per chat | every call the bot makes | 429 answers, waits, timeouts | ChatOutbox |
| panel (`chat_outbox.coalesce`, `handlers/lifecycle`) | in-flight entry, panel message | draw, redraw, retry | votes fall between reading the lists and the end of a draw | PanelRefresh |
| numbers (`rollcall_manager`, `handlers/lifecycle`) | list of rollcalls, panel by number | start, end, cancel, tap, refresh | renumbering while calls are under way | ChatPanels |
| questions (`handlers/voting, proxy, admin, ghost`) | four tables of pending questions | ask, confirm, refuse, prune | answered after its rollcall closed or moved | AskFirst |
| starting and ending (`rollcall_manager`, `services/rollcalls`, `handlers/lifecycle`) | `rollcalls` rows beside the list in memory | start, end, cancel, confirm, give a reason | each is several transactions and waits for a lock | RollCallRegistry |
| reminders, one-time starts (`check_reminders.py`) | loop per chat, `finalizeDate`, `reminder`, `scheduled_rollcalls` | remind, auto-close, fire | timers racing people, restarts | RollCallClock |
| recurring starts (`check_reminders.py`) | template stamps, two schedulers | tick, claim, catch up | one start per occurrence, missed ones | TemplateSchedule |
| templates (`services/templates`, `handlers/templates`, web) | rows with recurrences and closing fields | save, schedule, pause, delete | partial saves over rows that changed meanwhile | TemplateDesk |
| ghosts (`services/ghost`, `handlers/ghost`, `periodic_jobs`) | records, marks, selections | review, forgive, sweep | four roads to one review | GhostReview |
| penalties (`handlers/penalty_panel`) | panel sessions, claims | pick, apply, done, reverse | taps wait for the lock | PenaltyPanel |
| dues (`services/dues`, `handlers/dues`) | ledger, funds, closures | settle, cancel, pay, waive, reset the season | money kept in rows that must add up | DuesLedger |
| identity (`services/identity`) | links of people and guests | merge, unmerge, verdicts, automatic merge | history moves between owners | IdentityLinks |
| statistics, badges (`db.py`, `services/stats, badges`) | nothing of their own but milestones | attendance, streaks, milestones | six readers of one fact | Standings |
| web sign-in (`api/routes/tg_verify`, `weblogin`, `principals`) | verify rows, links, codes, principals | issue, confirm, poll, redeem | one-time use from two sides | WebSignIn |
| web administrators (`api/web_admin, auth`, `services/admin`) | `web_admins`, re-check cache | claim, grant, revoke, check | Telegram is asked with an await | WebAdmins, WebAccess |
| push, presence, process (`runner.py`, `uptime.py`), migration, browser scripts | | | | not modelled |

The parts meet in three ways. A handler (bot command, button, web route, REST
route) takes the chat's write lock (`RollCallManager.get_chat_write_lock`), calls
a service, releases the lock, and then announces: every Telegram call goes
through the outbox and may wait a minute. The services change the rollcall's
lists in memory, which is the copy everyone reads, and write the rows behind
it. The panel is drawn from memory whenever a handler gets round to it. What
follows an ended game (dues, ghosts, statistics) reads the rows it left.

What makes this code hard to get right, and hard to test:

- **Order of arrival.** Five services move people between four lists, and each
  keeps the lists, the cap and the line consistent by hand.
- **Memory first, rows after.** An operation is several transactions; a write
  may fail, or the process may die, between any two.
- **Names that move.** People and panels address a rollcall by its number,
  which is its position in a list, and Telegram calls end after the list has
  changed. A guest is a name, and names are merged.
- **Many roads.** A game is settled, reviewed, ended or a template saved from
  the chat, from a button, from the web and by a timer, each with its own code.
- **A slow outside world.** Telegram refuses, delays or loses calls; what was
  read before a call is old after it.
- **Time.** Minute ticks, restarts and edits race for the same stamp.

## Modules

How they compose:

- `RollCallStore` extends `RollCallLists` and implements it;
  `RollCallFaults` and `RollCallHistory` extend the store and run its traces,
  the one to any point, the other to the end. `RollCallLists` implements the
  abstract `SignupLine`.
- `AskFirst` extends `ChatPanels`: questions over the same list of rollcalls.
- `RollCallClock` extends `RollCallRegistry` and implements it: whatever the
  loop and the schedules do to the list is a step of the registry.
- `TemplateDesk` extends `TemplateSchedule`: the scheduler under everything an
  admin does to its template.
- `PenaltyPanel` extends `GhostReview`: a fourth road to the same review.
- `Standings` extends `IdentityLinks`: what every screen counts over the names
  that were merged.
- `WebAdmins` extends `WebSignIn`, and `WebAccess` joins the two.
- `ChatOutbox`, `PanelRefresh` and `DuesLedger` stand alone. What they share
  with the others is a vote (a counter in `PanelRefresh`) or the lists of an
  ended game (the values of `Lineups` in `DuesLedger` and `GhostReview`).

Modules have definitions headed **"Slip:"**. They are not part of a
specification: each is the way a plausible mistake would write the definition
after it (a forgotten guard, an off-by-one), and `PROJECT.json` records which
property breaks when the slip takes that definition's place.

### RollCallLists, SignupLine

`rc` is the `RollCall` object: `inList`, `outList`, `maybeList`, `waitList`,
`inListLimit`, `proxy_owners`. One operator per list operation (`AddIn`,
`AddOut`, `AddMaybe` of `models.py`; `FillWaitlistSlots` of
`services/common.py`; `SetWaitLimit` of `services/settings.py`), one action per
service: `VoteIn/VoteOut/VoteMaybe`, `GuestIn/GuestOut/GuestMaybe`, `SetLimit`,
`DeleteUser`, `SetUserStatus`, `WebVote`, `Restart`. None of these awaits, so
each is one step. A member is a user id, a guest a name; comments and clock
times change no list and are left out. MAYBE has no position column, so
whatever reads the rows back may reorder it (`Reloads`).

`SignupLine` is the promise without lists: one line of people, the first `cap`
of them going. Its steps are joining, leaving, a new cap, and one person
standing in for another.

### RollCallStore, RollCallFaults, RollCallHistory

`db` is the rows of `users` and `proxy_users` (status, owner, the three position
columns), the order they were inserted in, and the saved cap. An operation is a
*trace*: for every row it writes, the memory the write is attempted in and the
memory and tables after it. `RollCallHistory` runs traces to their end and adds
`bumped`, whom the last operation counted in `user_stats.total_in`
(`record_promotion_stats`, the votes). `RollCallFaults` stops them at any write
(`Raise`, `MoveFails`, `WebFails`, the last two with the clean-up their services
do) or kills the process between two writes (`DiesMidway`).

An admin deletes a member by id (`IdDeleted`, who must be on a list), and a guest
or whatever was typed by name (`NameDeleted`). A name is looked up in the tables
alone (`Named`, `db.delete_user_by_name`): the guest of that name, without one
the member of that username, without one the member of that first name if only
one has it. `Username` and `FirstName` say which members a name could mean; a
username has one owner. What finds no row, or fails, is answered "not found" and
reads nothing back (`Refused`). The delete in `set_user_status` goes by id and its
failure is passed over: the move goes on from the lists read back (`MovedKept`).

### ChatOutbox

`deliver` for one chat. `queue` is the sends that `_queued` counts, the holder
of the chat's lock first; `blocked` is `_blocked_until`. The actions follow a
send between its awaits: `Deliver` (decides whether the chat is recovering),
`DirectPosted/Refused/Failed`, `Turn` (the lock holder looks at the clock: gives
up, sleeps or calls), `Wake`, `TurnPosted/Refused/Failed`. A call that failed may
have been posted.

### PanelRefresh

`coalesce` and `_trail` around `_render_panel`, for one rollcall. `entry` is the
`_inflight` record, `draw` the draw it runs, `aside` a draw that passes coalesce
by. `shows` says how many votes each message shows, `asking` how many votes were
saved whose handler has not asked for a redraw yet.

### ChatPanels, AskFirst

The chat's rollcalls (`open`, ids in order), the panel table by number
(`panels`), the panel column by id (`saved`), the messages (whose list each
shows, whose buttons it has) and the Telegram calls under way with what their
handler remembers. Closings by every road: `Close`, `CloseOnWeb`,
`Settle`/`Settled`. `strays` records closings that went round the bookkeeping or
overlapped a draw; the properties say which of them they assume away, and the
list of disagreements below says what happens then.

`AskFirst` adds the questions asked before a list is changed: of a voter absent
too often (`_pending_reconf`), of who adds such a guest
(`_pending_proxy_add`), of an admin who deletes or moves somebody
(`_pending_deletes`, `_pending_overrides`). `pending` is the four tables,
`prompts` the messages whose buttons stay in the chat, `acts` what was confirmed
or needed no question and now waits for the chat's lock, `status` who is on
which rollcall's list. A question remembers a rollcall by id, an older one by
its number, as in the code; the answer finds the rollcall again after the lock.
For the properties each question has a number in the order of asking (`asked`),
and each change says whose button had it made (`tapped`): an answer takes the
question that stands under its key, which need not be the one tapped. Names that
could mean two people are the matter of `RollCallFaults`; here a name is a person.
Web pages and the token API change the same lists and ask nobody.

### RollCallRegistry, RollCallClock

The rows of `rollcalls` (`status`, `cancelled`) beside the manager's list in
memory (`list`), and who changes them: `/rc`, `/erc`, `/xrc`, the "are you
sure?" buttons, which wait for the lock (`taps`), and the reason an admin is
asked for before a cancellation (`reasonFor`). Every transaction of an end or a
cancellation may fail or be the last before a death (`mishaps`, `cut`);
`counted` is how often the participants' `total_rollcalls` were raised.

`RollCallClock` adds time: the loop per chat (`loop`, off, asleep or where in a
pass, with `snap` the copy of the list it walks), the close time and reminder in
row and memory (`row`, `mem`), one of the three one-shot messages
(`afterOpen`), and the one-time schedules (`once`, `fetched`, `fires`). A pass
sends messages between reading a rollcall and closing it; the list changes
meanwhile. `promise` and `owed` remember what an admin was told, for the
properties.

### TemplateSchedule, TemplateDesk

One template's schedule columns (`row`), the processes that tick (`ticks`, with
the row each read and when), an admin's edits, and a clock of slots. The
calendar operators are those of `check_reminders` (`MatchesRecurrence`,
`IsDueNow`, `MissedWithinDays`, `StaleOccurrence`); `LastFired` is
`_last_fired_after_schedule_edit`; `Claim` is the compare-and-swap on
`last_scheduled_date`. A tick acts on the row it read up to `MaxHold` slots
earlier; a process may die between the stamp and the rollcall (`lost`). `waived` is
the last day whose slot had passed when the schedule was set, which nobody expects to be
made up.
Saying "the row of this template was not edited during the tick" is `Fresh`.

`TemplateDesk` is the desk that row lies on: `/set_template` (which may complain
in the chat, with `draft` what it will save afterwards), the web form, `repeat=`,
`/schedule_template`, the web's schedule form, the ticks, Pause and All of the
`/schedules` panel (`ticked`), the deletion and the name being used again.
`fields` says when what is started closes (an event day and time, or an offset);
`Merged` is the `COALESCE` of a save that leaves a field alone.

### DuesLedger

Games (`game`), their closure (`closure`), what the ledger charges and credits
per game and person (`charge`, `credit`), per person for no game (`other`), the
fund likewise (`gameFund`, `fund`), the group's settings, the collector prompts
in the chat (`prompts`, `cards`). The code only reads sums of rows, so rows are
kept as sums. Operations do not await between rows, so they do not interleave;
but each row is a transaction, and an operation of several rows may stop after
any of them. `Settle`, the correction of a share, the cancellation of a
settlement or a game, the collector's change, late charges, payments, waivers,
penalties, fund entries, the season reset and the switch are actions.

### GhostReview, PenaltyPanel

An ended game (`game`), absences a person answers for (`count`, the
`ghost_records`), absences noted per game (`marks`, the `ghost_events`), and the
roads of a review: the chat's question (`prompts`, `chosen` with its copy
`saved`), `/mark_absent` (`listed`), the web page, and the daily sweep
(`AutoForgive`). A count, its event, a forgiveness and the closing of a game are
transactions of their own, and each failure is logged and passed over; so the
writes of one handler (`Write`) and of one sweep may be missing in any part. A
handler or sweep with a part missing is a *lapse* (`lapses`), and so is one that
the process dies in: the rest of its writes is missing and a restart follows.
For the properties, `unrecorded` keeps the absences counted without their event,
`forgave` what the sweeps gave back per game and person, and `broken` the sweeps
that left a game open. `PenaltyPanel` adds the panel (`_sessions`), the lock its taps wait for
(`held`, `waiting`), closed books (`closed`), and the reversal of the no-shows of
a cancelled game, claimed once (`claimed`).

### IdentityLinks, Standings

A guest name is merged into a member or another name (`link`), called no name
(`discarded`) or a person of its own (`standalone`), or a pair is dismissed.
History is not rewritten: readers follow one link. The automatic merge joins
spellings that differ in case or blanks. Members' `ledger` entries are folded by
each reader in its own way, and are modelled that way. A link row is keyed by
the exact spelling its writer used, and found by small letters; which spelling a
row has is nondeterministic where the code does not fix it.

`Standings` adds the ended games (`games`), no-shows marked on them (`ghosted`)
and the milestones announced (`stamps`), and one operator per reader of
attendance: the board, the wrap-up, a member's card, the sessions page, the
streaks.

### WebSignIn, WebAdmins, WebAccess

`WebSignIn`: the deep link with its Confirm tap and its poll (`verify`, `asked`,
`polls`), the link an admin issues (`link`), the personal code (`mycode`), the
widget, and the principal each sign-in records beside a thread at boot
(`unbound`, `principals`). `WebAdmins`: rows and roles (`grants`, `owners`), the
switch of `/set_admins` (`locked`), who administers the group in Telegram
(`telegram`, external), the request each person has in the air between the
question to Telegram and what its answer makes the code write (`call`), and the
tokens whose issuer is re-checked with a cache (`recheck`).

## Runs

A property that joins several is a conjunction of named ones, given in
parentheses; each is stated and commented in its module.

| run | what it asks |
|---|---|
| MCRollCallHistory | With every write succeeding, do the lists stay disjoint, capped and without idle slots (`ListsOK`), in order of arrival (`FairLine`, with `KeepsOrder`), nobody sent back unasked (`NoUnaskedDemotion`)? Are rows and memory the same rollcall (`StoreOK`: types, `CacheMatchesStore`, `PositionsDistinct`), do the rows implement the lists (`ImplementsLists`), and is everybody who comes to be IN or is promoted counted once (`CountersFollowLists`, except by an admin's move)? |
| MCRollCallFaults | After any failed write or death: are the tables readable and a death alone harmless (`FaultsOK`: `FaultTypeOK`, `CrashesAreClean`), and does nobody lose a row but the operation's subject, a web guest whose member voted, and whom a deleted name means, which for a guest on the lists is a member only after a write failed (`OthersKept`)? |
| MCChatOutbox | Under refusals, failures and give-ups: nothing twice, first in first out, no spinning (`OutboxOK`), every send ends (`EveryoneFinishes`)? |
| MCPanelRefresh | Does the coalesced panel come to show every vote, is a failing panel retried once, do redraws end (`PanelOK`: `SettledPanelIsCurrent`, `TwoFailuresStop`; `PanelSettles`: `CoalescedPanelShowsEveryone`, `RedrawsEnd`)? |
| MCChatPanels | Does renumbering keep panels, buttons and votes with their rollcall (`ChatOK`: `PanelsOwnTheirNumber`, `SavedPanelsKept`, `VotesLandWhereTapped`, `ButtonsMatchList`)? Does a confirmed change land in the rollcall it was asked about or nowhere, and is it what the tapped question offered, person and list too, or something the tapper asked for later, does nobody absent too often come IN from the chat unasked or come back after a removal by confirming, and does no lost question lock a voter out (`AskedFirst`: `LandsWhereAsked`, `NobodyInUnasked`, `NotBroughtBack`, `NobodyLockedOut`)? |
| MCTemplateSchedule | One start a day (`OncePerDay`); one per occurrence, none too late, none missed, none after the last day, and what is opened closes when the template said, and a save keeps the schedule it does not name (`DeskKept`: `SpacedOut`, `NotTooLate`, `MissedIsMadeUp`, `ExpiryHonoured`, `OpensWithItsClose`, `SavesSpareSchedule`)? |
| MCRollCallClock | Is the list the active rows (`ListIsTheActiveRows`), a played game counted once (`CountedOnce`), every confirmation, auto-close and one-time start about its own rollcall (`ActsAsDecided`: `ConfirmedOnly`, `ClosesItsOwn`, `FiresOnce`), each promised close watched and each reminder sent once (`ClockOK`), every due rollcall closed in the end (`AutoCloses`), and does all of it implement the registry (`RegistrySpec`)? |
| MCDuesLedger | Do ledger, fund and closures balance and is the right collector credited (`BooksOK`: `BooksBalance`, `CollectorCredited`), is a game without a closure charged to nobody (`ReopenedIsClean`), is the fund not overdrawn by a closing (`ClosingSparesFund`), and is a season that ended left alone (`OldSeasonKept`)? |
| MCGhostReview | Is every counted absence on record but those whose event was not written (`GhostsOK`: `CountOnRecord`), do all sweeps together forgive a game once, once more after each sweep that left it open, and never after its review (`SweepForgivesOnce`), and is every game reviewed in the end (`EndsReviewed`)? |
| MCPenaltyPanel | Under writes that fail: one reversal of what is on record, one tier per player, one closing (`PenaltiesOK`: `ReversedOnce`, `OneTierEach`, `PanelFinalOnce`); no charge after the books closed, none of the marked forgiven (`LateTapsAreSafe`: `NoChargeAfterClose`, `SparesItsGhosts`)? |
| MCIdentityLinks | Do links stay one hop (`OneHop`) and carry earlier merges along (`MergeCarriesAll`); is what was paid paid, to the person (`PaidInFull`, `PaidToThePerson`); do all screens agree, no game get lost, suggestions and verdicts stand (`StandingsOK`: `OneVerdict`, `RejectedStays`, `AlikeAreOffered`, `ScreensAgree`, `SessionsMatch`, `NoGameLost`, `StreaksFit`, `ToldOnce`), and are milestones real (`MilestonesAreReal`)? |
| MCWebAccess | Does a code sign in one browser, as the person it names, with one principal (`SignInsOK`); do tokens act only for those entitled a moment before (`AdminsOK`: `ActsWhileEntitled`); does a group that has owners keep one (`OwnersKept`)? |

All twelve answer yes, on the conditions the properties state; where the code
does not do what one would expect, the property excepts it by name and the list
of disagreements says so.

### Bounds, and why they are enough

- *History*: two members (symmetric) and a guest, caps 0 to 2, `MaxPos` 4. Two
  over the cap shows the order of a demotion, two waiting the order of a
  promotion, and no operation looks at more than its subject, the head of the
  waitlist and lengths. A bucket can be left and re-entered behind the others,
  so that `MAX + 1` differs from a count. No definition reads `bumped`, which
  the VIEW leaves out.
- *Faults*: a member and a guest around a cap of one, one failing write; deaths
  are not bounded. Two names: the guest's, which is the member's first name too,
  and the member's username. In *History* both members have the guest's name as
  first name, so that it means neither while both have a row.
- *Outbox*: three sends, one an upload, two seconds of starts, `MAX_WAIT` 2 and
  answers of 0 (malformed) and 3 (more than a send will wait for).
- *Panel*: three votes (one to draw, one during the draw, one during the redraw),
  three messages, three failures in a row, one draw beside coalesce.
- *Panels*: two rollcalls, so that one is renumbered, two messages, two calls
  under way: the property is about pairs, a call and a closing. Questions: two
  of one kind, about one person, or two where deletions are asked for (two
  questions with one number, about two people); one change waiting; taken where no panel
  could be posted: they share with the panels the list of rollcalls alone, and
  each kind has its own table. The web does not change a list while a question
  stands.
- *Schedule*: a week of three days looked back on for two (the code: seven and
  two), three slots a day with a window of one, seven days, so that a biweekly
  schedule has two starts and a weekly one three, and a weekly slot late in day 0, whose
  earlier slots may pass before it is set; months of two and four days,
  so that day 3 is once the month's last; two changes, and a third that saves a
  waiting draft or makes a deleted template anew; two processes (symmetric), a
  row held for one slot. A template that has closing fields or was deleted gets
  one schedule, daily, and is watched for two days (`Plain`, `FewDays`): what its
  start opens is decided within one.
- *Clock*: two rollcalls in a chat that holds two, one mishap, one moment after
  the first, one schedule. `Bound` keeps taps and schedules apart from the
  clock, which they meet only through the list, and that is what `RegistrySpec`
  is about.
- *Dues*: two games, two members, a guest, a fee of 3 with a step of 2 (so that
  rounding leaves a rest), five operations of which one belongs to no game: a
  settlement, its cancellation and the next with something in between.
- *Ghosts*: one game, a member and a guest, reviewed after one day and looked
  back on for two; one lapse. Games share no state but a person's count.
- *Penalties*: one game, one member, one panel with a tier of each kind, one
  lapse, two calls waiting, so that one overtakes a closing.
- *Identity*: four spellings (two differ in case, one in blanks, one is only
  alike) and a member, three changes, one death: a chain of two merges and what
  undoes it. Three scripted games, one over at first; a milestone at two.
- *Web*: two people, of whom one has a token, one code, one link, two personal
  codes, two turns of Telegram, a verdict believed for one tick. Sign-ins are
  taken before administration (`Apart`), one kind at a time (`OneKind`): they
  share identities and principals, which only grow.

Deadlock is checked where the system cannot stop; `CHECK_DEADLOCK FALSE` is set
where a bound (votes, messages, questions, the clock, moves) or a deleted
template ends it.

### Fairness

- `ChatOutbox`: time passes, the event loop runs whoever holds the lock and
  whoever wakes (asyncio runs every ready task), and every call is answered, for
  the HTTP client times out. Nobody is obliged to send.
- `PanelRefresh`: a handler that saved a vote goes on to ask for the redraw, the
  settle timer fires, and every Telegram call ends; nobody is obliged to vote, to
  ask for a panel or to close. `CoalescedPanelShowsEveryone` assumes that no two
  draws in a row fail: the code retries once and then waits for the next request.
- `RollCallClock`: the loop, once started, goes on with its pass and wakes from
  its sleep, and time passes. Nobody is obliged to tap, and nothing obliges a
  loop to be started: that is what `AutoCloses` and `PromisesAreWatched` test.
- `GhostReview`: days pass and the daily job runs, each while nobody switches
  the tracking; nobody is obliged to answer. `EndsReviewed` holds since fewer
  sweeps lapse (`MaxLapses`) than the window has days: a game that every sweep of
  its window fails to close is never reviewed.
- `AskFirst`: `memory_prune_loop` comes to drop an unanswered question; nobody is
  obliged to answer it.

All other modules state safety only and have no fairness.

## Proofs

Seven modules hold the proofs, one per group of components, and `DataLemmas` what
they share: what `RemoveFirst`, `Append`, `\o`, `SubSeq`, `Head` and `Tail` do to
the elements and the length of a sequence, and what a sum over a finite set
becomes when one value changes. Every theorem is about the specification itself,
with its constants arbitrary, under the assumptions its modules name; the MC
modules' bounds play no part. Each invariant was first checked by TLC on the run
of its component.

Induction theorems whose parameter is an operator cannot be used here. Where a
proof needs induction it argues with sets, or with a least counterexample: a
non-empty set of natural numbers has a least one (`Smallest`); a family of subsets
of a finite set that is closed under adding one element is all of them
(`SubsetsOneLess`). So `SumAnyFirst` shows that a sum does not depend on the order
the fold takes, and `CountByParts` that a table may be counted by rows or by
columns; `Recursion` that a function on 0..n which is given by its first value and
a step exists and has the type of its step, which `Saves` and `Among` rest on;
`OrderedSame` and `OrderedConcat` say when a list follows an order.

A caution for whoever extends the proofs: Zenon as installed accepts a goal
`A \subseteq B \cap C` when it has only `A \subseteq C`. No leaf here rests on that:
such goals are avoided, and all modules were also checked with every `\subseteq`
given to Zenon in its expanded form, `\A x : x \in A => x \in B`.

### The lists and the tables: `RollCallProofs`

For any members, guests and caps:

- `Invariance`, `TypeCorrect`, `ListsCorrect`: `Spec => []ListsOK`, one place per
  person, the cap held, no idle slot;
- `NoDemotion`: `Spec => NoUnaskedDemotion`;
- `ImplementsSheet`: `Spec => FairLine`, so the lists implement `SignupLine`.

`ListsOK` alone is not inductive without the types, and its parts need each
other: `AddOut` promotes one person only, which leaves no idle slot just because
there was none before and one slot came free; `AddIn` keeps people on one list
because nobody waits while there is no cap. One lemma per list operation
(`AddInSound`, `LeaveLineSound`, `FillSound`, ...) says that it takes a sound
rollcall to a sound one; the step proof has one case per action and cites them.
`LeaveLine` may leave an idle slot, at most one (`AlmostFull`), which its callers
fill again. For `NoDemotion` one lemma per operation says whose name it may add
to the queue: `AddQueues`, at most the voter's own, `LimitQueues`, somebody IN
only under a lower cap, the others nobody's. For the refinement each operation is
shown to be one of the line's steps, read off what it does to who is IN and to
the queue as a sequence.

The assumptions: members and guests are disjoint, caps are natural numbers and
"no cap" is not one, the three owners differ; the guest entry a web vote drops is
never the member who votes (`PeopleAssumption`); the value for "no row" is no row
(`RowAssumption`); guests go by their names, and a username is one member's
(`NameAssumption`).

For the rollcall over its tables, with any members, guests, caps and mixes of
operations and restarts (`HistorySpec =>`):

- `StoreCorrect` (`[]StoreOK`): rows, positions and the saved cap are the lists in
  memory, one position per person;
- `StoreImplementsLists` (`ImplementsLists`, the specification of `RollCallLists`),
  and `StoreKeepsPromises`: hence `[]ListsOK`, `NoUnaskedDemotion` and `FairLine`;
- `CountersCorrect` (`CountersFollowLists`).

With writes that fail and deaths between any two of them (`FaultSpec =>`):

- `FaultsCorrect` (`[]FaultsOK`), and `OthersStay` (`OthersKept`).

The inductive invariant is that of the lists and `Kept`: the tables can be read
(`Table`: a row is inserted once, and has a position in its bucket and in no
other), no two people share a position and nobody waits without a saved cap
(`Tidy`), and each list in memory is the rows of its bucket in the order of their
positions (`InOrder`), MAYBE but for its order. An operation is a trace of writes, so
the steps argue about traces of any length: `WriteMoves` and its neighbours say
what one write does to a bucket, `SavedIn` what the first k of them have done.
What makes the rows right in the end is a relation of the lists before and after
an operation to the people it writes, in their order (`Follows`): whoever is not
written stays where they were, and whoever is written enters behind all who stay.
That is what `MAX(pos) + 1` gives; a lowered cap, which puts people in front of
those who wait, breaks it, and this is why the code rewrites the waitlist's
positions then (`ReorderWaitlist`). `Lands` puts both together: the trace is
readable at every write and ends with memory and tables that stand for each
other; each operation has a lemma of that form, and a reload in the middle
of one (a deletion, a forced status) reads back its own rows since a list ordered
by positions is unique (`InOrderOnce`).

The counters rest on the lists' lemmas: what an operation counts is a part of
whom it took from the waitlist (`Counts`), and a web vote's fill seats the same
people whatever order MAYBE was read back in (`SameLineAs`). With failures the tables
need not stand for the lists any more, so `FaultInv` keeps only what survives a
write that fails (a rollcall in memory, readable tables) and `Kept` while none has;
`Spares` says that a call's trace, whatever memory it starts from, never drops a
row but the one it may cost, at any write it can stop at. Whom a name means is
read off the tables at the call; that a listed guest's name means no member before
a write fails is `CacheMatchesStore`, which then still holds: who is listed has a
row.

### Schedules: `TemplateScheduleProofs`

For any schedules, calendar, window, bounds and number of processes:

- `StampBetween`, `StartedOnce`: `Spec => []OncePerDay` for the schedule alone,
  and `DeskStartsOnce` for the desk;
- of the desk, `DeskSpec =>`: `SpacedOut` (`OccurrencesOnce`), `NotTooLate`
  (`NoneTooLate`), `MissedIsMadeUp` (`MissedMadeUp`), `OpensWithItsClose`
  (`ClosesAsSaid`);
- `KeptOnPostgres`: where a save leaves the expiry alone, which on SQLite it does
  not (`~Sqlite`, as in the run), `DeskSpec => DeskKept`, the property the run
  checks.

`OncePerDay` alone is not inductive: that the compare-and-swap protects a day
holds only because no path, in particular no edit of the schedule, ever moves the
stamp back or ahead of the clock (`LastFiredFacts`), and because days do not run
backwards (`DayFacts`). The desk's invariant, `DeskInv`, adds why the stamp is
where it is (`KeptInv`): each weekly slot of the last days was started, lost to a
crash, waived when the schedule was set (`waived`) or is still within the
catch-up; and that a set of closing fields is whole or absent (`FieldsInv`). What
a tick does is judged only while the row is as it read it (`Fresh`); a tick with
an old row is among the disagreements below.

### Dues: `DuesLedgerProofs`

For any games, people, fees, subsidies, steps and amounts:

- `BooksInvariant`, `CleanWhenReopened`: `Spec => []ReopenedIsClean`;
- `EarlierSeasonsKept`: `Spec => OldSeasonKept`;
- `BooksAddUp`: `Spec => []BooksOK`, the charges of a settled game pay for its
  cost less the subsidy or plus the rounding, and its collector alone is
  credited; `ClosingKeepsFund`: `Spec => ClosingSparesFund`.

The argument is the order of the rows: a settlement writes its closure first, a
cancellation deletes it last, so wherever either stops, what was written or is
left belongs to a closure (`BatchKeepsBooks`, `CancelKeepsBooks`). For the sums,
`BooksInv` states per game what its rows add up to while it is closed (`Sums`),
and each operation is shown to change a sum by what it wrote. Whose turn it is to
collect is chosen by `Min` and `Max` over finite sets, of which nothing is
needed. `DuesAssumption` says games and members are finite sets of numbers.

### Games from start to review: `GameProofs`

For any number of rollcalls, admins, schedules and failures:

- `RegistryListInvariant`, `RegistryCountInvariant`: the list in memory is the
  active rows in the order they were created, and who played is counted once;
- `ClockImplementsRegistry`: `TimedSpec => RegistrySpec`, step by step in
  `LoopStep`, `ScheduleStep` and `ClockStep`, and `ClockKeepsTheList`: hence the
  two invariants hold of the clock;
- `ClockCorrect`: `TimedSpec => []ClockOK`, and `ClockActs`:
  `TimedSpec => ActsAsDecided`.

The registry's invariant adds that rows are created in the order of their ids (a
new rollcall goes to the end, and a load sorts) and that a cancellation mark is
on an ended row unless a broken cancellation left it: without it, an end could
count a game marked cancelled. The clock's `ClockInv` adds what a pass of the
loop still knows of the rollcall it holds (`LoopInv`: its copy of the list is of
rollcalls there were, and while it visits one it stands inside that copy), that a
reminder set in memory or in a row is owed (`ReminderInv`), that a close time
somebody was promised is in both (`PromiseInv`), and that a one-time schedule
fires once (`OnceInv`).

For any games, people, line-ups, tiers, panels and bounds:

- `GhostsOnRecord`: `Spec => []GhostsOK`, and `SweepsForgiveOnce`:
  `Spec => SweepForgivesOnce`;
- `OneTierOneClosing`: `PanelSpec => []PenaltiesOK`, and `LateTapsSafe`:
  `PanelSpec => LateTapsAreSafe`.

`CountOnRecord` bounds each person's count by the sum of the recorded no-shows
and the absences counted without their event; `WriteStep` says of the writes of
any handler, as far as they got, that the two sides move together. What the
sweeps gave back is explained by `SweptOnce`: each sweep that forgave a game
either broke off in it or closed it, and a closed game is not opened again.
`PanelInv` says what a call that waits for the lock still
knows: sets it means to charge contain what its panel charged already, a waiting
Done is its panel's only one, and counts stay below the no-shows recorded less
those taken back, plus those counted without a record. `GhostReview` assumes finitely many games.

### Who people are and how they sign in: `PeopleProofs`

For any names, spellings, members, scripts of games and balances, and whatever
merges, games and payments follow each other (`StandingsSpec =>`):

- `OneHopHolds`, `OneVerdictHolds`, `IdentityTypeCorrect`;
- `MergesCarryAll` (`MergeCarriesAll`), `PaymentsReachThePerson`
  (`PaidToThePerson`) and `PaidInFullHolds` (`PaidInFull`);
- `StandingsCorrect` (`[]StandingsOK`: all screens agree, no game is lost,
  suggestions and verdicts stand) and `MilestonesReal` (`MilestonesAreReal`).

A merge keeps `OneHop` because it first follows the target and then re-points
whoever led to the merged name; the automatic merge does neither, and
`AutoMergedRows` says what it leaves: rows of its own, which `OneHop` excepts.
`PaidToThePerson` follows since a payment resolves one link, and one hop is then
all there is.

That the screens agree needs no induction over steps but a count done in two ways.
Each screen's number is shown to be the number of *rows*, pairs of a game and a
name on its list, that are credited to one person (`Own`, `Folded`, `Credited`).
The board adds them up by person, the profile by spelling, the sessions page by
game, and `CountByParts` says that these are one number. The inductive invariant
(`StandingsInv`) is what the counting rests on: links of one hop, one verdict per
pair, games and ledger well typed, a milestone told once. `MilestonesAreReal`
follows since what is announced is a card of the games over (`ReachedIsShown`),
`PaidInFull` since the balance that `pay_in_full` reads is the sum of what was
entered for each of a person's names (`BalanceOfNames`), and a payment changes it
by what was paid (`SumChange`). The assumptions: finitely many people, names that
are no members, guests of the games over at first are names known by then
(`StandingsAssumption`), looking alike is symmetric, and a spelling's rank
tells small-letter names apart (`IdentityAssumption`).

For any people, codes and links: `SignInsCorrect` (`AccessSpec => []SignInsOK`),
`AdminsCorrect` (`AccessSpec => []AdminsOK`) and `OwnersStay`
(`AccessSpec => OwnersKept`). The sign-in invariant has a part per way in
(`DeepLinkInv`, `IssuedLinkInv`, `MyCodeInv`) and says for each poll, tap and
message in the air whom its code stood for; `AdminInv` says how long ago Telegram
or a row entitled whoever a cached verdict or a call in the air speaks for.

### What the bot posts: `OutboxProofs`, `ChatProofs`

For any sends, votes, failures and waits:

- `OutboxCorrect`: `Spec => []OutboxOK`, nothing twice, in the order of the queue,
  no spinning. The queue is the end of the line of all that ever queued
  (`QueueInv`), so who is posted stands before whoever still waits;
- `PanelCorrect`: `RefreshSpec => []PanelOK`. `DrawIsCurrent` says which votes the
  draw under way has read or that another one was asked for, `TriesCounted` how
  many failures lie behind it.

For any rollcalls, messages, calls and questions:

- `ChatCorrect`: `AskSpec => []ChatOK`, hence panels, saved panels, votes and
  buttons keep with their rollcall, in the composition with the questions;
- `WhereAsked`, `InByYes`, `GoneStaysGone`: `AskSpec =>` `LandsWhereAsked`,
  `NobodyInUnasked`, `NotBroughtBack`, the three safety parts of `AskedFirst`.

`ChatInv` says what each Telegram call under way knows of its rollcall: the number
it computed is still that rollcall's unless one closed meanwhile, and the message
it is about shows it unless one closed outside the bookkeeping as well. `AskInv`
adds that no change that waits for the lock carries a warning, that each key has
one question, that questions are numbered as they are asked and the one that
stands is the newest of its key (`Numbered`), and that every change made by a tap
is what the tapped question offers or takes its place (`ActsTapped`).
`LandsWhereAsked` reads the last at the step that performs the change.

### What stays with TLC

Liveness, which is out of the prover's reach with ENABLED and fairness:
`EveryoneFinishes`, `PanelSettles`, `AutoCloses`, `EndsReviewed` and
`NobodyLockedOut`, the last of which is the only part of `AskedFirst` without a
theorem. Every other property of a run is stated by a theorem; `DeskKept` for a
database that leaves the last day alone, as in the run.

## Where the code and its texts disagree

Four that contradict a text of the repository plainly:

- `addIn`/`addOut`/`addMaybe` and the cap change memory before they write the
  row; when the write fails, the person is told so, the lists keep the change,
  and the repeated request is answered as already done without a write.
  `tests/test_write_failures_surface.py`: "a failed DB write must never be
  reported to the user as success".
- A web IN under the name of a guest an admin entered overwrites the owner with
  0, and a member of that name who then votes on the web has the admin's guest
  deleted. `services/web.py` says it "belongs to that admin [...] and is left
  alone".
- `web_end_rollcall`, `web_cancel_rollcall` and the token API's end never call
  `_close_panel_bookkeeping`: the closed panel stays under its number, and the
  next rollcall is drawn over it.
- On SQLite an edit of a template replaces its row and names every schedule
  column but `schedule_expires_at`: the last day is gone. `db.py`: "preserve
  existing schedule columns".

Rollcalls and panels:

- A guest whose row was not written is still on the list; an admin who deletes
  them deletes the member whose username or only first name is theirs, and both
  are off the lists read back. `db.delete_user_by_name`: "to avoid
  wiping the wrong account". `OthersKept` excepts it (`Means`).
- `services/admin.set_user_status` promotes through `addOut`/`addMaybe` and does
  not count the promoted, though `record_promotion_stats` says "Every path that
  promotes calls this".
- A web OUT or MAYBE guest is not given the owner 0 mark, so the member's later
  web vote leaves that entry behind.
- A cap that fails to save, followed by a restart, leaves waiters in a rollcall
  without a cap, where a later IN puts one of them on two lists.
- A death between the demoted rows and `reorder_waitlist` brings the demoted back
  behind those who were waiting.
- `deliver`: the last send to give up pops the chat's `_blocked_until` although
  that time has not come, and the next send goes out at once; queued sends may
  give up for the spacing alone, with no refusal left.
- `/panel` and Refresh draw beside `coalesce`: a vote saved during the send of a
  fresh panel is missing from it until something else asks for a redraw.
- `_render_panel`, start and the reposts after an end file the message under a
  number computed before the Telegram call (`strays` "overlap"); Refresh and Back
  take the buttons of a number computed before theirs; `/settle_dues` renumbers
  the panels only after its announcement (`strays` "settle").
- `memory_prune_loop` may drop a chat's lock between its release and its waiter's
  wake-up: two writers then hold two locks.

Questions:

- Yes on an older question of `/set_status`, or of `/delete_user` with the same
  number, does what the admin's newest question asks, about another person;
  `handlers/ghost.py` says "Exactly the member and the rollcall the admin
  confirmed".
- The REST vote and the web vote never ask a member absent too often, though
  `services/voting.py` says adapters do ("REST 409 + token").
- A question whose post fails blocks `/in` for up to an hour.
- A member who is IN, taps IN, and is removed before the lock is taken comes back
  IN unasked.
- `/sif` or `/delete_user` for a number no rollcall has stores no id, and lands
  in whatever has that number at the answer; the guest question is dropped before
  it is checked who answers it.
- Skip on an older question for a reason cancels the rollcall of the admin's
  newest one.

The clock:

- An end that fails after counting counts the participants again when repeated.
- The auto-close does not look at the close time again after it waited for the
  lock; a time moved meanwhile is closed at the old one.
- `_dm_non_responders` uses a number that may be stale; a failing "cancel time"
  leaves memory without the close time its row has.
- A failed read of the active rollcalls is cached as none.
- Two one-time schedules made in the same second share one hidden template; a
  death after the claim loses the start.

Schedules and templates:

- A tick acts on rows read at its start: it may start a schedule that was
  switched off or a template deleted and made anew, or switch off one whose last
  day was just moved.
- The stamp is a calendar day: two processes on either side of midnight both
  claim one weekly slot, the second as its catch-up.
- Re-enabling a schedule whose last day has passed is undone by the next tick;
  enabling one that was never set switches it on and starts nothing.
- A rollcall started by hand with `repeat=` is counted after its announcement;
  a tick in between starts a second one.
- "All selected" on `/schedules` leaves daily schedules unticked, for it asks for
  a day they do not have; ticks are per chat, so that Pause also pauses what
  another panel ticked; an old panel or "Yes, delete" acts on a template made
  anew under the name.
- A tick that read a missed weekly slot before the schedule was switched off and
  on again, or moved and moved back, still makes up for it.
- A weekly slot set after its time stamps today (`stale_occurrence_date`);
  moving it to later the same day then loses that day's start, for the stamp
  never goes back (`_last_fired_after_schedule_edit`: "Never earlier than what's
  stored"). The stamp also becomes the anchor of a biweekly schedule.
- A `/set_template` that first complains saves the fields it read before,
  undoing an edit on the web and remaking a template deleted meanwhile.
- `/schedule_template` refuses a day that is not before the event's in the week;
  saving the event day afterwards, by command or on the web, does not.
- A catch-up, or a start late in its window, whose event is past closes only at
  next week's event and overlaps the next opening.

Dues:

- A settlement card kept on screen closes a game from before the season reset,
  which then cannot be cancelled; the REST switch does not stamp the epoch.
- A UPI prompt answered after its game ended names the collector of whatever game
  is current.
- A read that fails in a cancellation answers "nothing charged", and the closure
  goes while the charges stay.
- "Full" on the payment panel pays the balance at the tap, not the one shown; a
  turn to collect is used up though the batch failed; an import repeated after a
  failure enters its first rows again.

Ghosts and penalties:

- An absence is counted in one transaction and noted in the next
  (`apply_marking`): when the second fails, the person answers for an absence no
  game shows, which a cancellation does not take back either
  (`CountOnRecord` and `ReversedOnce` count these).
- A game the daily sweep forgave but could not close is forgiven again by the
  next sweep, the next day's or, if the day's stamp was not written, one a minute
  later, though the sweep is meant to count it as attended once
  (`SweepForgivesOnce` counts these).
- A session may be reviewed twice by two roads; Apply tapped twice charges twice;
  a charge that fails still records the absence.
- A game with guests alone is never listed; a half cancelled game that is then
  ended normally stays cancelled.

Identity and statistics:

- The automatic merge of a spelling others were merged into leaves a chain of
  two, and the milestone is then announced under the middle name; `OneHop` and
  `MilestonesAreReal` except it. Merging back after it leaves a name an alias of
  itself, which the profile and the balance read twice; `ScreensAgree` and
  `PaidInFull` except it.
- Two spellings that differ in case share a link, and `get_dues_balance` counts
  it twice; `combined_ghost_count` and `identity_stats` read one exact spelling; a
  payment typed under a member's alias may rename the ledger's row.
- A member and a merged guest name both IN in one game count twice on the board
  and the wrap-up and once in the streaks; group totals count spellings apart; a
  dismissed pair's key cannot tell an id from a name of digits; a milestone may be
  announced again after a merge changed its key.

Web access:

- A role read that fails makes `revoke_admin` take the last owner away, though
  its text says never; a fresh database has no `role` column until its second
  start.
- An answer "member" to a check begun while the group was locked removes a row
  granted after it was opened.
- A verify row that is not written leaves a page polling in vain; a code consumed
  whose answer is lost, a link whose private message fails, and a personal code
  replaced before its message is sent are gone.

## Not modelled

- Push notifications and presence: best effort, read by nobody. The migration
  script and the browser scripts: outside the running process. Start-up,
  supervision of the polling task, backups and outage announcements: see the plan.
- Parsing of commands, wording of answers, drawings: no state another part relies
  on.
- Reads that fail, which mostly answer "nothing there", and the manager's loading
  of a chat.
- Clock: two of the three one-shot messages, and the due time of a one-time start
  with its hidden template.
- Dues: reports, exports, who typed an entry and under which spelling.
- Identity: the cap on suggestions, combined ghost counts. Standings: vote totals,
  ties and page limits, response times, peak hours, late drops.
- Templates: the content other than the closing fields; input that is refused
  leaves no step; rows with half an event slot, which only older versions wrote,
  are not among the initial states. `/start_template` and the button after an end
  change no schedule and are a start like any other.
- Questions: caps and the waitlist, which are `RollCallLists`' (OUT and MAYBE are
  one value here); names are matched exactly.
- Web access: signatures, rate limits, the Mini App's tokens, expiry of tokens;
  `set_admin_source`, which nothing calls; one group, one request per person in
  the air.

## Plan

Still to model: outages of Telegram as the polling supervisor sees them
(`runner.py`, `uptime.py`); failing reads and the manager's cache; late drops and
response times; the due time of a one-time start.

Still to prove: what the tables hold after a restart that follows a failed write
(`FaultInv` says only that they can be read), and what of `DeskKept` SQLite keeps.
