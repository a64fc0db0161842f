# A TLA+ model of the ZKBio Time client

The package `src/biotime` is a Go client of the REST API of ZKBio Time, a
time-attendance server.  It is small, but it is shared: one `Client` serves any
number of goroutines, logs in on their behalf, walks tables that change while
they are read, and verifies its writes against records that others write too.
This directory states what makes that correct and checks it.

Sources are quoted as `file:line`; a file without a directory is in
`src/biotime`, and README.md with a line number is `src/README.md`.

## Inventory

| Component | State | Operations | Interacts with | What makes it correct |
|---|---|---|---|---|
| **Authentication session** (`client.go`) | `token`, `unproven`, `freshRejections`, `loginErr`/`loginFailed` under `tokenMu`; the mutex `loginMu` | `ensureToken`, `refreshToken`, `recentLoginFailure`, `Login`, `SetToken`, `storeToken`, `markAccepted`, `recordLoginFailure` | every request of every goroutine; the login endpoint; an application that supplies tokens | one login per expired token, two useless ones in a row at most, none in the window, no lost supplied token, no call that hangs |
| **HTTP exchange** (`client.go`: `exchange`, `send`, `readCapped`, `encodeBody`) | the encoded body of one call | one request, at most one resend with a fresh token | session, server, the caller's reader | a body is whole or an error; the resend is the same request |
| **Options, query building** (`options.go`, `client.go`: `New`; `pagination.go`: `buildQuery`) | configuration | apply, resolve, render filters | all | order of options is irrelevant, the server hears the page size |
| **Paginated walk** (`pagination.go`: `iterate`, `nextQuery`) | per walk: the current query, the queries seen, the page and the position on it | fetch, yield, follow a link | the consumer's loop body (callback), the live table | an end that says "complete" is complete, no query twice |
| **Lookup by code** (`employees.go`: `GetByCode`) | candidates counted | compare, count, give up | the walk | each of three answers is true |
| **Punch exports** (`transactions.go`: `TransactionFilter`; README.md:505) | the window's two ends, the caller's last `EndTime` | begin a run, fetch a page, continue from there | the walk, the zone, terminals that upload late | no punch is left behind |
| **Decoding and errors** (`pagination.go`, `resource.go`, `errors.go`) | none | `Page`, `detail`, the 9.0 envelope, `newError`, `Error.Is` | the session (what suspends), every caller | a failure is never data |
| **Verified writes** (`employees.go`: `Create`, `Update`, `verifyFlags`) | the record in hand | write, read back, judge | other writers, the administrator | success means applied; an accepted write is not lost and not repeated |
| **Times and dates** (`types.go`, `client.go`) | the client's zone; a member's `naive` mark | decode, `localize`, encode, `Client.DateTime`, `Client.Date` | the server's wall clock | what is read and written back stays what it was |
| **Lenient values** (`types.go`: `FlexInt`, `Ref`, `FlexFloat`, ...) | none | conversions | decoders | the number the text names, or an error |
| **Custom attributes** (`types.go`: `extraFields`, `mergeExtra`) | none | split a record, merge a payload | decoders, writes | nothing dropped, nothing sent that was not meant |
| **Other services, record types, logging, example** | none | one request each | exchange | |

What is hard about it:

* *interleaving*: a token expires once and fifty goroutines have it refused; a
  caller sets a token while a login is under way; `recentLoginFailure` and
  `markAccepted` read under one lock and act under another, or under none;
* *lost answers*: a login that succeeded and whose answer is lost looks like
  one that failed, a write likewise;
* *limits*: the second useless token in a row suspends the login, the thousandth
  candidate ends a lookup, the byte after the cap fails a response; one too many
  or one too few is invisible in a test;
* *a moving table*: rows come and go between two pages, links lead anywhere, and
  terminals upload punches whose time is past;
* *partial failure*: the write is done and its verification fails; status 200
  carries a failure; an early end looks like a complete export;
* *numeric edges*: the two hours, and the midnight, that a zone skips or repeats;
  the integers a float64, or the int of a small host, does not hold.

The hazards of PROJECT.json are these, one by one, each at its line.

## Modules

| Module | What it is |
|---|---|
| `Session` | the session against a server that answers anything |
| `SessionProperties` | what it promises, and the inductive invariant |
| `LoginThrottle` | the abstract specification: what callers may rely on |
| `SessionProofs` | proofs about `Session` |
| `SessionServer` | `Session` composed with a server that keeps tokens and an application that supplies one |
| `SessionServerProofs` | proofs about that composition |
| `Walk` | one walk, against a server that answers anything, with its properties |
| `WalkProofs` | proofs about `Walk` |
| `ListServer` | `Walk` composed with a live, paginated table and two consumers: an export and `GetByCode` |
| `ListProofs` | proofs about that composition |
| `ZoneTime` | instants, wall clocks and `time.Date` in a zone with one transition |
| `Clock`, `ClockProperties`, `ClockProofs` | reading, writing back and sending times and dates |
| `PunchWindows` | the abstract specification of an incremental export: windows, terminals, the promise |
| `PunchExport` | the export as it is made, page by page; it implements `PunchWindows` |
| `PunchProofs` | proofs about `PunchWindows` and `PunchExport` |
| `Responses` | what one response becomes, member by member |
| `Numbers` | `FlexInt` and `Ref` over scaled-down widths |
| `Attributes` | a record split into fields and `Extra`, and a payload merged from them |
| `Exchange` | `New`, a query, a body and its replay |
| `Codecs` | these last four and `ClockProperties` side by side, one at work in a behavior |
| `CodecsProofs` | proofs about `Responses`, `Numbers`, `Attributes` and `Exchange`, and that `Clock` is a part of `Codecs` |
| `EmployeeWrite` | concurrent verified writes and an administrator |
| `EmployeeWriteProofs` | proofs about them |
| `MC*` | the instances TLC checks |

An operator that carries the name of another one and a suffix, such as
`StrikeLate`, is a *mutant*: the same step with a plausible bug.  It is not
used by any specification.  PROJECT.json says which property finds it.

### Session

A process is a goroutine, one call at a time.  `pc` says where it is: before a
lock (`ensure`, `refresh`), inside `loginMu` (`gate`, `judge`, `strike`, `drop`,
`login`), at the server (`sent`, `resent`, `explicit`), or in `markAccepted`
between its read and its write lock (`mark`, `accept`).

| Action | Code |
|---|---|
| `Begin`, `LockEnsure` | `ensureToken`: the token in use, or the lock and a second look |
| `LockRefresh` | `refreshToken` up to the decision; the snapshot `fresh` is `t == rejected && unproven` |
| `ReadGate`, then `Refuse` or `Admit` | `recentLoginFailure`: the copy under the lock (`remain`), and the comparison outside of it |
| `Strike`, `Drop` | the count of refused fresh tokens, and the suspension at the limit |
| `LoginGranted`, `LoginRefused`, `LoginFailed` | what `Login` makes of the answer when called under `loginMu` |
| `CallLogin`, `Explicit...` | `Login` called by the application: no `loginMu`, no suspension |
| `SetToken` | at any moment |
| `Accepted`, `Unanswered`, `Unauthorized` | `exchange` with the answer in hand; the second 401 ends the call |
| `MarkRead`, `MarkWrite` | `markAccepted` |
| `Tick` | the clock behind `loginBackoff` |

The suspension is a countdown (`gate`) in place of the time of the failure and
the clock.  `freshRejections` stops at `MaxFresh`, because the code only asks
whether it is zero and whether it is below the limit.  Two variables are
history: `spent`, the automatic logins that were granted since one was of use,
and `quiet`, what is left of the suspension the automatic login earned.

`LoginThrottle` forgets goroutines, tokens and locks: a login is pending or not,
`spent` and `quiet` are as above.  `Session` implements it with
`pending <- \E p \in Procs : pc[p] = "login"`.

`SessionServer` adds `issued` and `alive` tokens and an answer that travels
(`reply`): the server decides in one step, the client consumes in another, and
`Lose` may come between.  The client's half of each of these steps is a
`Session` action, so every behaviour of it is one of `Session`.  `Supply` is an
application that got a token elsewhere and calls `SetToken`, at any moment;
`racing` notes who held `loginMu` then.  The login of that goroutine, and no
later one, may replace the supplied token: the server has answered it, or will,
and `storeToken` stores what it is given.

### Walk and ListServer

`at` is the place in `iterate`: fetching, handing over rows, or over.  `Yield` is
`yield`, which may return false at every row; `LastPage`, `DeadEnd` and
`TurnPage` are the three ways on from the end of a page (no link; a link that is
no URL, from a page without rows, or to a query already used; a new query).
`Overlay` is `nextQuery`.  A query is a partial function of parameters, because
`url.Values.Encode` sorts its keys: the string in `seen` stands for it.

In `ListServer` the server is the one the comments describe: by page number, in
ascending order of identifier, with rows appended and deleted between any two
pages, links that repeat the filter or carry the page alone, codes that match
exactly or as a prefix, and a 404 for a page that deletions have emptied.
`Export` is the body of `Collect`, `Match` and `Pass` the body of the loop in
`GetByCode`, which compares a candidate before it counts it.  A deletion moves
the later rows forward, past the end of the page fetched last: no client of
page numbers can help that, and `LossIsBounded` says what it costs, one row each.

### PunchWindows and PunchExport

The caller follows README.md:505-517: each run asks for the punches from the
`EndTime` of the last complete run to an `EndTime` that lies `Margin` in the
past.  The ends are instants; `q.time` sends the wall clock the zone shows for
them, and the server compares it, inclusively, with the wall clock of a punch.
A terminal uploads a punch up to `Delay` after it was made.  The zone may set its
clock back or forward in the middle of all that.

| Action | What it stands for |
|---|---|
| `Punch`, `Upload`, `Tick` | a punch on a terminal, its arrival on the server, time; no punch outstays `Delay` |
| `Begin` | the caller makes a `TransactionFilter` with `StartTime = from`, `EndTime = till` |
| `Deliver`, `Complete`, `Abandon` | rows are handed over; the walk ends without or with an error |

In `PunchWindows` a run may be handed any punches of its window, and is complete
when it has those that were there when it began.  In `PunchExport` it is a walk
over pages in the order `punch_time,id`, to which `FetchPage` applies the window
as it is at that moment; `WindowsSpec` says that it implements `PunchWindows`.
`PagesStandStill` is the second step of the recipe.

### EmployeeWrite

A call is sent, perhaps resent after a 401, executed or not, answered in part or
not at all, verified, and read back.  The server applies the flags it knows and
drops the rest; the administrator edits and deletes.  An answer reports flags at
the top level or in a nested `attendance` object, where a member that is missing
reads as off and as reported (`employees.go:120`): `guessed` keeps track of those,
and the two verdicts are stated up to them.  History variables note how often
the write was executed, whether its record reached the caller, whether the
employee ever had all requested values at once, and whether anybody else touched
it.

### Clock

Time is a count of hours, which stand for the seconds of the program: no zone
has a transition between two of them.  Beside the count a time has a part of a
unit, one of `Fractions`, as the layouts of `types.go:36-39` read it and
`resolve` keeps it; neither layout that writes has a place for it, and `Marshal`
cuts it off. A zone has one transition, which is as many as one timestamp can be
near to, and any offsets before and after it.  `InZone` is `time.Date` of the Go
library, on which `resolve` and `NewDate` rest: it looks up the offset as if the
digits were UTC and corrects itself once.  It is external; the values that
`types_test.go:510-532` pins for `America/New_York` are those it gives.  A
member of a record is recorded by the server in any of the layouts, or sent by a
caller who has an instant (`SendInstant`), read by a service (`Unmarshal`,
`Localize`), written back (`Marshal`), and so on.

### Codecs

Five parts that keep nothing between calls, one at work in a behavior.  They are
`Clock`, as above, and these:

* `Responses`.  A body is its form (an object, blank, null, HTML, other text) and,
  for an object, the state of each member a decoder looks at.  `DecodePage`,
  `DecodeRecord`, `Decode`, `Outcome` and `Suspends` are the decision structure of
  `Page.UnmarshalJSON`, `detail.UnmarshalJSON`, `request`, `collection.one` and
  `Login`.  The record types are abstracted to readable with an identifier,
  without one, or unreadable, and to whether they keep members they do not declare
  (`keeps`): an employee, a terminal or a transaction goes through `extraFields`,
  which refuses the literal `null`, a department, an area or a position does not.
* `Numbers`.  A number is an exact count of fractions.  `Float64` rounds it to
  the nearest float64, ties to even; `FlexInt` reads it plainly, or by way of a
  float64, and then fits it to the int of the host.  `RefOf` and `RefText` are
  `Ref` read and written.
* `Attributes`.  A member is known by how its name relates to the declared fields.
  `FieldsOf` is `encoding/json`, which does not mind the case of a name; `ExtraOf`
  is `extraFields`, which does; `Merge` is `mergeExtra`, under
  `EmployeeParams.MarshalJSON`.
* `Exchange`.  `Option` and `Resolve` are `New`; `Call` is `buildQuery` and
  `encodeBody`; `Unauthorized`, `Answered` and `Unanswered` are `send` and
  `readCapped` with a first 401, any other answer, or none.  An int64 wraps,
  because `readCapped` adds one to the cap.

## Runs

| Run | What it asks | What it shows |
|---|---|---|
| `session` | `LoginBudget`, `NoLoginInWindow`, the inductive invariant `IInv`; `EveryCallReturns`; `ThrottleSpec` | whatever the server answers, at most two useless tokens in a row, no login of any goroutine in the window, no call stuck on the mutex |
| `session_server` | `OneLoginPerExpiry`, `NoFalseSuspension`, `ExpiryIsInvisible`, `SuppliedStays` | with right credentials an expired token costs one login, however many goroutines had it refused; callers never see it; an expiry alone suspends nothing; a supplied token stays, but for a login it raced with |
| `strikes` (violated) | `SuspensionNeedsTwoTokens` | finding 1 |
| `walk` | `AsksOnce`, `CompleteIsWhole`, `InOrder`, `Terminates` | no query twice, no silent early end, no gap, an end over any links |
| `list_server` | `LossIsBounded`, `LookupVerdict`, `ScanIsBounded` | an export over a growing table is whole, and a deletion hides one row at most; the three answers of `GetByCode` are right |
| `codecs` | `FailureIsNeverData`, `AnswerIsRead`, `UnconfirmedIsNamed`, `SuspendedByVerdict` | for every combination of members: no failure is taken for data; no good answer is withheld, but for a record with an attribute `msg` that is no string; unconfirmed are exactly the writes answered without a record; nothing but a reason given in JSON, or a plain text beside 401 or 403, suspends the login |
| | `IntIsTheNumber`, `RefIsKept` | an integer is exact, or off by the rounding of a float64; nothing wraps; a reference written back names the same object |
| | `AttributesComeBack`, `NothingIsDropped` | `Extra` can be sent back as it was read, the password hash never is, and no value is overwritten in silence |
| | `OptionsInAnyOrder`, `CapIsExact`, `ReplayIsTheSame` | options commute; a body is whole or an error, at the largest cap too; a resend carries the whole body again |
| | `RoundTrip`, `NoDrift`, `SentComesBack`, and the types `CTypeOK` | digits down to the second survive wherever the zone has them, on both sides of UTC; a fraction is read, and cut off when it is written; nothing drifts |
| `no_list` (violated) | `NoListIsAnError` | finding 2 |
| `blank_write` (violated) | `WriteReturnsARecord` | finding 3 |
| `employee_write` | `OkIsConfirmed`, `VerdictIsRight`, `RecordIsKept`, `WrittenOnce`, and the types `WTypeOK` | success means the flags were all set at one moment; an accepted write is never lost to its caller, but for a blank read-back, and never repeated |
| `earlier_of_two` (violated) | `EarlierOfTheTwo` | finding 4 |
| `date_of_instant` (violated) | `DateOfTheInstant` | finding 5 |
| `punch_export` | `ExportIsLossless`, `AgainOnlyAtTheSeam`, `PagesStandStill`, `WindowsSpec` | no punch is left behind, late uploads, failed runs and clock changes notwithstanding; what a run repeats is at a seam; the pages of a run do not shift |

### Bounds, and why they are enough

* `session`: two goroutines and three tokens are one more token than the limit of
  two strikes; a window of two ticks can be entered, half over and over.  What
  more goroutines could add is covered by the proofs, which bound nothing.
* `session_server`: three goroutines (two that wait behind the one that logs in),
  up to two expiries, one lost answer and one supplied token, hence five tokens.
  Safety only, so goroutines and tokens are symmetric.  `strikes` needs one
  goroutine and no supplied token.
* `walk`: two parameter values besides "absent", so that links can lead forth,
  back and in circles; pages of at most two rows, so that a page can be empty,
  left in the middle, or finished.
* `list_server`: five rows on pages of two are three pages, the last one short;
  a limit of four candidates is reached at the end of a page and passed on the
  next; two deletions can come on one page or on two, and hide two rows.
* `codecs`: every combination of the members of a response; float64s of three
  significant bits, fractions of a quarter, an int64 of five bits and hosts with
  an int of four and of five, so that each width is exceeded by the numbers up
  to 20 and a float64 does not hold all integers of an int64, as in the program;
  three members, so that one can repeat another in between; bodies one byte
  below, at and above caps, up to the largest integer.  `Powers` goes to 256
  there, beyond which no number of the instance needs it; the proofs set no end
  to it.  Of times: offsets from -2 to 2 hours, a transition at each of twelve
  hours in days of four hours, texts three rounds deep, gaps of up to a whole
  day, and one fraction besides none, which is enough to be kept or lost.
  `earlier_of_two` and `date_of_instant` run `Clock` alone, in zones on one side
  of UTC.
* `employee_write`: two writers, one employee that may be absent, two flags (the
  first and a later one), one edit or deletion.
* `punch_export`: nine hours, in which three runs fit; three punches on pages of
  one row; a delay of one and a change of the zone by two hours, and the smallest
  margin beyond both, four.  With a margin of two, `ExportIsLossless` without its
  premise is violated.

`CHECK_DEADLOCK FALSE` is set where a run of the system really ends: a walk that
is over, a response that is decoded, calls that returned, a member that was
written back `MaxTexts` times, an export at the end of the day.  The session
never ends, and is checked.

### Fairness

`FairSpec` of `Session`: weak fairness of each goroutine's own steps (a runnable
goroutine is run) and of the arrival of an answer (`send` bounds every exchange
with the client's timeout, so an exchange ends with an answer or a failure); and
strong fairness of acquiring `loginMu`, because `sync.Mutex` hands the lock to a
waiter that has waited for a millisecond and so starves nobody.  Nothing is
assumed about what the server answers, and nothing about `Begin`, `CallLogin`,
`SetToken` or the clock.  A client made with a timeout of zero and a context
without deadline does not satisfy the second assumption.  `FairSpec` of `Walk`:
the fetch ends for the same reason, and the consumer's loop body returns.

## Proofs

All by TLAPS, for every value of the constants, from the named assumptions in
the modules (`Free` is no goroutine, `NoToken` is no token, limits are positive
numbers, and so on) and from the hypotheses that the theorems below name.  Every
invariant of every passing run is a theorem, and so is every action property and
every refinement; `TypeOK` of `Session` and of `PunchWindows` are theorems that
no run needs.  In each module the invariant that is inductive is one definition,
the lemma `Step...` of an action says that the action preserves it, and the
theorem `...Inductive` puts these together.

* `SessionProofs`.  None of the properties is inductive by itself: `LoginBudget`
  says nothing of the token that has been issued and not yet refused.  `IInv`
  adds to the types that a goroutine is inside the critical section exactly when
  it holds `loginMu` (`LoginExclusive`), that every useless token but the last
  has a strike (`Count`: `spent <= freshRejections + 1`, and strictly less
  while a login is pending), and that whoever holds the mutex past the gate
  has seen the suspension (`Window`).  `Inductive` proves it action by action;
  `TypeCorrect`, `BudgetKept` and `WindowKept` follow, and `Implements` proves
  that every step is one of `LoginThrottle` or a stutter.
* `SessionServerProofs`.  `ServerIsASession` proves `SSpec => Spec`, so that all
  of the above holds beside a server that keeps tokens.  `OneLoginPerExpiry`
  counts tokens that no goroutine can see; its invariant `SInv` says what each
  goroutine has been told (`Told`: the token it carries to `refresh` has
  expired, one resent is not the first) and who owes what.  `Paid`: while nobody
  logs in, the logins are covered by the start, the expired tokens other than
  the one in the cell, and the lost answers; the holder of `loginMu` has one
  payment more, which the login spends.  `Blamed`: without lost answers, each
  strike is for an expired token of its own.  `Owned`: whoever holds `loginMu`
  while a valid supplied token is in the cell held it when that token came.
  `LoginsAreShared` and `SuppliedTokenStays` need no more; `SuspendedForCause`
  and `OneExpiryIsInvisible` assume `MaxFresh > 1`: with a limit of one, a
  single expired token suspends the login, as it should.  The code's limit is
  two (`client.go:38`).
* `WalkProofs`.  The invariant says that the query about to be asked is new, and
  that what was served is what the consumer has followed by the rest of the page.
  `NeverAsksTwice`, `NothingDropped` and `HandedInOrder` follow.
* `ListProofs`.  `ListIsAWalk` proves `LSpec => Spec`.  `LInv` adds which page
  the current query asks for (`Follows`), that a page with a link was full
  (`Full`), that rows are served in ascending order (`Rising`), and the account
  of the losses (`Behind`): the rows still in the table up to the last one
  served are no more than the rows served.  So the walk missed no more of them
  than were served and then deleted (`MissedFew`), whatever the order of fetches
  and deletions. `Counts` does the same for the candidates of a lookup.  The
  assumption is `QueryAssumption`: the caller's filter does not itself begin at
  a later page. `LossKept`, `ScansAreBounded` and `LookupsAreRight` follow.
* `EmployeeWriteProofs`.  `WInv` is one predicate of each writer, `Good`: the
  stage of its call (`Stage`), what its answer told (`Heard`), what the server
  still has (`Stored`: as requested for the known flags until somebody else
  writes), and the three properties of calls that are over.  A step of one
  writer is harmless for the others (`Bystander`) because whatever it changes of
  their employee is noted in `disturbed` and `agreed`.  `WritesOnce`,
  `OkMeansWritten`, `VerdictsAreRight`, `AcceptedIsKept` and `WriteTypes`
  follow.
* `ClockProofs`.  The arithmetic of `time.Date` is in the lemmas `ExistingKept`,
  `SkippedMoves` and `TwoMoments`; the invariant `CInv` says that each text is
  what reading and writing back makes of the one before, so that no text but the
  first has a fraction.  `RoundTripKept` and `SentReturned` follow, both down to
  the second and for any `Fractions`, and `ClockTypes`.  `NothingDrifts` assumes
  that no zone skips more than a day, as none has by one transition: then a text
  stays what the first round has made of it (`RestStep`).
* `PunchProofs`.  `ExportIsLossless` says nothing of the run under way, nor of
  punches still on a terminal.  `PInv` adds that both ends lie `Margin` in the
  past (`Ends`), that what was in the window when the run began is all there
  will ever be (`DueIsAll`), and where the punches handed out come from
  (`Inside`, `Earlier`).  The arithmetic is in three lemmas: an earlier wall
  clock was shown at most the repeated time later (`WallOrder`), so a punch that
  an end does not exclude is older than the delay and has been uploaded
  (`Settled`); and a wall clock on both sides of an end is one of the repeated
  hour (`ShownTwice`). `PunchInductive`, `PunchTypes`, `NothingLeftBehind` and
  `RepeatedAtTheSeam` follow. For `PunchExport` the theorems assume `Safe`, that
  `Margin` is beyond the delay and the repeated time of every zone: that is what
  the recipe asks for, and with less a punch that arrives late shifts the pages.
  `Walked` says that what was handed over is what sorts before the page under
  way; from it `WalksAreRuns` proves `XSpec => WindowsSpec`, and `PagesAreStill`
  that pages do not shift. `PagesAreLossless` and `PagesRepeatAtTheSeam` carry
  the two promises over.
* `CodecsProofs`.  `ClockIsAPart` proves `CSpec => Spec` of `Clock`, so that what
  `ClockProofs` says of a member holds of the run; the other parts have one
  invariant each.  `RInv`: a concluded response is
  what kind, status, body and type of record decide; the properties are then
  case analyses of the decoders.  `AnswersAreRead` and `VerdictsSuspend` carry
  the exception their properties state; `UnconfirmedNamed` is an equivalence
  (`HoldsNoRecord`), in both directions.  `AInv`: `Extra` is what was read, plus
  what was added.  `NInv`, with what it takes to prove it: a float64 is within
  half its spacing of the number (`Rounded`), so `FlexInt` is exact wherever it
  does not go by way of one.  The widths are any powers of two:
  `PowerAssumption` says what `Powers` holds, and `WidthAssumption` that the
  widths are among them and that there are enough for the numbers the texts
  name; 2^53 for the significand, 2^63 for an int64, and 2^31 and 2^63 for the
  hosts satisfy both.  That the spacing of a float64 is one of `Powers` needs
  the least element of a set of naturals (`LeastOf`, from `WFMin` of the
  library).  `EInv`: the options applied so far make one client, in whatever
  order, and each request sent is the call's. `Exchange` assumes that the
  default cap is smaller than the largest int64, on which `readCapped` adds one;
  a cap given by an option may be the largest, and is lowered by one.

Only model-checked:

* liveness, `EveryCallReturns` and `Terminates`, which rest on fairness and
  `ENABLED` and are out of the prover's reach;
* the violated properties, each by its counterexample;
* the assumptions on constants, which TLC evaluates for the instance of every run.

What no proof covers is what the models leave out: a theorem about `Numbers` is
one about Go's integers and floats only as far as the definitions are those of
the code and of `strconv`.

## Findings

1. *One token can be two strikes* (`client.go:393`).  The login that follows the
   first refusal fails, the refused token stays in the cell, and its next refusal
   counts as the second token in a row.
2. *An object that is no list is an empty page* (`pagination.go:127`), if it has a
   `code` or a `msg` and nothing else, as a login page's JSON has.
3. *A blank 2xx answer to a write is a zero record without an error*
   (`client.go:478`).  A blank read-back has the same root: `ReadBlank` of
   `EmployeeWrite` puts the zero record in place of the one the write was answered
   with, so the identifier of a new employee is lost beside the verdict "not
   reported", against the comment of `verified` (`employees.go:287`).
4. *The repeated hour resolves to the later instant* (`types.go:228`) in every
   zone at or east of UTC; the comments and README.md:495 say earlier, and the
   test that pins it is about New York.
5. *A skipped midnight turns a date into the day before* (`types.go:152`) in zones
   west of UTC that change at midnight: a date sent for that day, and one read
   and written back, is off by one.

Disagreements noted while modelling.  No run shows them; where a property would be
violated by one, it states the exception:

* a failure envelope whose `data` is an object fails to decode in `Page` before
  `request` looks at its code (`pagination.go:120` against README.md:284);
* a login refused with a plain-text body suspends the automatic login
  (`errors.go:204` against the comment of `Login`, `client.go:302`, and
  README.md:188: "only the server's own verdict counts"); `SuspendedByVerdict`
  names it;
* a record with a custom attribute `msg` that is no string is a decode error
  (`resource.go:54,57`), although the comment at `resource.go:60-63` says that a
  record may carry attributes of these names; `AnswerIsRead` names it;
* a write of an employee that is answered with the literal `null` is a plain
  decode error (`employees.go:156`, `types.go:558`), and not matched by
  `ErrWriteUnconfirmed` (`errors.go:34`), as that of a department, an area or a
  position is; `HoldsNoRecord` tells them apart by `keeps`;
* a fraction of a second is read (`types.go:36-39`, `types.go:228`) and not
  written (`types.go:92`, `types.go:100`): a timestamp that is written back, or
  an instant sent with `Client.DateTime`, is truncated to the second;
  `RoundTrip` and `SentComesBack` say so;
* the float path of `FlexInt` (`types.go:334`) accepts a fraction too small for a
  float64, such as `1.00000000000000001`, rounds a large integer that is written
  with a point, and reads one below the int64s as the least of them, against
  "never silently truncated" (`types.go:315`); `IntIsTheNumber` states what holds;
* a nested attendance object that lacks a member reports it as off
  (`employees.go:120`), so a flag requested off passes as confirmed, and one
  requested on as ignored;
* a member spelled like a declared field in another case sets the field and is an
  attribute as well, because `extraFields` compares names exactly;
* `TransactionFilter` and README.md:513 ask for an `EndTime` in the past, without
  saying how far: it has to lie farther back than a terminal keeps a punch to
  itself and the hour the zone repeats, which is the premise of
  `ExportIsLossless`.

## Not modelled

* *The scanner of JSON text* (`objectMembers`): byte by byte; a model would repeat
  it, and `fuzz_test.go` compares it with `encoding/json`.  `Attributes` begins
  with the members it finds.
* *Headers, addresses, redaction, logging*: pure functions of a call, no state.
* *`FlexFloat`, `FlexString`, `Secret`*: the number `strconv` reads, and texts.
* *The remaining options and filter fields*: one checked assignment each.
* *Contexts*: a cancelled call is one that failed.  That a goroutine waiting for
  `loginMu` does not heed its context is listed as a hazard.
* *Values decoded outside the services* keep their digits and are left out of
  `Clock`.
* *An explicit `Login` that is refused while a valid token is in use*
  (`client.go:336`): `Session` has the step (`ExplicitRefused`), but what the
  comment promises of "every request in that window" reads either way, so no
  property states it.
* *Record types and the example program*: data declarations and a command line.

## Plan

The model is where the code is, and the safety properties are proved.  What is
left, in this order:

1. The untimed core of `EveryCallReturns`: that a state in which every goroutine
   waits for `loginMu` is unreachable follows from `LoginExclusive` and can be
   stated and proved as an invariant; liveness itself stays with TLC.  Likewise
   a variant for `Terminates`: over finitely many queries, `AsksOnce` bounds the
   fetches.
2. `LoginThrottle` on its own: what a caller may conclude from the abstract
   specification, without reading `Session`.
3. `LookupVerdict` and `ExportIsLossless` under deletions: how far the verdicts of
   `GetByCode` bend when rows go away, stated as a number of rows as in
   `LossIsBounded`.

A new question joins a run of the same module, or takes the place of a violated
property that was settled in the code.
