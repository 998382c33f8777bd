# A TLA+ model of the Perun ICP backend

The repository is the Go backend that lets go-perun open, fund, dispute and
close two-party payment channels on the Internet Computer.  The on-chain half
of a channel is the Perun canister; its source is not in the repository
(`userdata/` has a binary and its Candid interface).  This directory models the
Go half, and of the canister and the ICP ledger what the Go code relies on.

## The system

| component | state | operations | talks to |
|---|---|---|---|
| Adjudicator (`channel/adjudicator.go`) | none between calls; one call's progress | `Register`, `Withdraw` (`Progress` is a stub) | canister: `dispute`, `conclude`, `withdraw`, `query_state`, `query_events`; opens a subscription |
| Event subscription (`connector/subscribe.go`, `events.go`) | a goroutine, the buffered channels `events` and `panicErr`, a closer | `run`, `Next`, `Close` | canister: `query_events`, every 4 s |
| Event parsing (`connector/adjudicator_eventsub.go`, `utils.go`) | none | `parseEventsAll`, `ParseEventsConcluded` | used by the two above |
| Funder (`channel/funder.go`, `funder_events.go`, `connector/services.go`) | `connMutex` of the package; one call's progress | `Fund` | ledger: `transfer`; canister: `transaction_notification`, `deposit`, `query_events` |
| File system wallet (`wallet/wallet.go`) | seed, next nonce, open accounts with use counts; the file | `NewAccount`, `Unlock`, `LockAll`, `IncrementUsage`, `DecrementUsage`, load, save | the disk |
| Timeout (`connector/timeout.go`) | an instant | `Wait`, `IsElapsed`, `MakeTimeout` | the local clock |
| Encoding (`channel/backend.go`, `connector/serialize.go`) | none | `Sign`, `Verify`, `CalcID`, `MakeNonce`, `MakeBalance` | |
| Canister agents (`connector/icperun`, `connection.go`) | none | RPC stubs | the network |

What is hard here: two participants work on one channel at the same time; an
RPC may fail after it was executed; `query_events` is answered by one replica
that may lag behind (`query_state` is not: `icperun.go:188-204` sends it as a
replicated call); a goroutine polls independently of the call that waits for
it; two funders share a mutex; a nil dereference or a crash may end the process
between any two steps.

What makes each component correct: an answer `nil` of the adjudicator means
what the caller takes it to mean, for its own version and its own money, and
every call returns; a funder that returns nil has its money in the channel, no
path leaves the mutex locked and no call waits forever; the wallet's file
counts the usages of its accounts after any crash, and no used key is ever
generated a second time.

## Modules

    PerunCanister   <--  AdjudicatorEvents  <--  PerunCanisterProofs (TLAPS)
                              ^     ^
                              |     +--  AdjEventSub
                         Adjudicator

    Adjudicator  <--  MCAdjudicator (TLC)
                 <--  AdjudicatorProofs  <--  AdjudicatorRefinement  (TLAPS)
    AdjEventSub  <--  MCAdjEventSub (TLC)
                 <--  AdjEventSubProofs  (TLAPS)
    FsWallet (TLC)   <--  FsWalletProofs  (TLAPS)
    Adjudicator implements ChannelSettlement, AdjEventSub implements
    AdjudicatorSubscription, Funder implements ChannelFunding and
    FsWallet implements KeyStore (all four abstract).

    FundingCanister <--  Funder  <--  MCFunder (TLC)
                                 <--  FunderProofs  (TLAPS)

    DisputeTimeout (TLC)  <--  DisputeTimeoutProofs  (TLAPS)

    AdjudicatorEvents  <--  EventParsing  <--+
                            Encoding      <--+--  MCConversions (TLC)
                                                    <--  ConversionsProofs (TLAPS)

**PerunCanister** and **FundingCanister** are operators on a record, one pair
`Can...`/`On...` per canister method: a caller's step applies them to its
variable.  An update call is atomic since a canister executes one message at a
time.  They are external: what they say is taken from how the Go code and its
tests use the answers.  `dispute` needs an unsettled channel and a strictly
newer version (`adjudicator.go:459`); `conclude` of a signed final state works
at once, that of a registered one after its challenge duration; a refusal is
answered in band (`errors.go:21`).  The funded amount includes one fee
(`funder_test.go:61-71`).  Only accepted states are told apart by version: two
different states of one version are not, as both participants sign only one.

**AdjudicatorEvents** says what the Go code sees of the canister's event log:
the answers of `query_events` (a prefix of the log, at most `MaxLag` events
behind) and what `parseEventsAll` makes of one.

**Adjudicator** has one action per RPC or select case of the source function
that `pc[p]` names.  `Register` and `Withdraw` share `ensureConcluded`;
`op[p].kind` says which one the call returns to.  A call that an RPC fails and
an answer of `query_events` that misses events both count as a fault
(`Sees`), of which a run has `MaxFaults`; so "no fault any more" means that RPCs
succeed and that the replicas asked have caught up.

| action | code |
|---|---|
| `Reject`, `Begin` | `Register`, `Withdraw`, `checkRegister` (`checkRegisterFails`), `ensureConcluded` up to the first RPC or subscription |
| `Dispute` | `dispute`; the wait that follows is `waitForDisputed` |
| `Conclude`, `QueryAndMatchEvents` | `isConcluded`, `queryAndMatchEvents` |
| `QueryState`, `TimeoutElapsed`, `ConcludeDispute`, `QueryConcluded` | `checkDisputes`, in this order |
| `ReceiveEvent`, `ContextDone`, `ReceivePanicErr` | the cases of the two wait loops |
| `Withdraw` | `withdraw` |
| `Poll`, `RunDone` | the cases of `AdjEventSub.run` |
| `Cancel`, `Expire` | environment: a context's deadline, a challenge duration |

A subscription belongs to the wait it was opened for; a dropped one has no
effect any more and is forgotten.  `isConcluded` opens its subscription before
`Conclude`, the other two waits after their RPC: the model keeps that order,
and the run *adjudicator_eventwait* rests on it.  A query is answered from a
prefix of the event log, at most `MaxLag` events behind.  The query's start
time is left out: it is in seconds, events are in nanoseconds, so it excludes
none (`subscribe.go:57`).  The wait for a dispute timeout ends at any moment or
never, as `checkDisputes` hands an absolute time in nanoseconds to a function
that wants seconds from now (see DisputeTimeout).  A channel's balances are
assumed to be such that the allocation pattern of the parser matches; what
happens to others is in EventParsing.

**AdjEventSub** is the subscription with its own life, as `Subscribe` hands it
to a watcher that has `Next` and `Close` only.

| action | code |
|---|---|
| `Poll`, `Report`, `Send`, `RunDone` | `run`: a poll that finds events or fails, the send to `panicErr`, one send to `events`, `finish` |
| `NextCalled` | `Next` up to its select, on a subscription that is open |
| `NextReceives`, `NextReturnsEvent` | the case of an event; `closer.Close` and the return |
| `NextReturnsNil` | the closed channel, or the case of the closer |
| `Close`, `Cancel` | `Close`; the end of the context |
| `Party`, `Expire` | environment: the canister, used by the parties |

A failed parse counts as a failed poll, since both send to `panicErr` and go on
polling.  A poll that finds nothing and a `Next` on a closed subscription change
nothing and are no steps.  Two things that no text of the repository denies are
visible in the model: `Close` does not end the goroutine, and a subscription
ends with its first event, so that a watcher has to subscribe again.  In
Adjudicator all events of a poll arrive in one step; here they arrive one by
one, which its wait loops cannot tell apart, as they take them one by one.

**AdjudicatorSubscription** is the promise behind it: only logged events, one to
a caller at most, none to two callers, none to a `Next` called after the closing.

**ChannelSettlement** is the promise: the registered version only grows, the
outcome is fixed once, participants are paid for the outcome they asked for,
and a successful answer is true when it is given.

**Funder** has one action per RPC and per acquisition of `connMutex`.
`ProcessOf` says who shares a mutex and a fate: `FundAll` of the tests runs all
funders in one process, two users run two.  A panic ends the process
(`ProcessEnds`), as does `Kill`; the ledger and the canister stay.
`NotifyTransferToPerun` may be answered with no amount, and `deposit` with a
refusal; the code dereferences the first and ignores the second.  A poll that a
lagging replica answers counts as a fault, like one that fails: either uses up
a turn.  So does an answer whose events cannot be parsed (`Unparsable`), because
the matches of the three patterns differ in number or a number does not fit 64
bits (`funder_events.go:47-66`); unlike a failed query, this ends `Fund` with an
error at once (`funder.go:112-115`), also on a channel that is funded.  Which
texts the canister writes is not in the repository, so any answer may be such a
one.  `EvaluateFundedEvents` sums the totals of all events of one's own
address, a fold over the log.

**ChannelFunding** is its promise, without RPCs, mutex, replicas or processes:
money moves from the wallet to "underway" by a transfer, which a call makes once,
and from there into the channel in whole transfers; a call succeeds only when it
has paid and its participant's amount is held.

**FsWallet** has one action per method, and two for `save`, because
`os.WriteFile` truncates before it writes.  A failed save panics, which is a
`Crash`.  `inUse` and `used` are history: the usages that completed calls have
left, kept apart from the wallet's own counts so that the two can differ.

**KeyStore** is its promise, without nonces, memory counts or the two halves of
a save: a use is counted and all keys of the wallet are on disk, or neither; a
new key is none that was ever in use; a wallet whose file cannot be read may be
replaced, under a seed without a history.

**DisputeTimeout** has the clock as a variable.  `EventTimeout`,
`CheckDisputes` and `NextEvent` are the callers that make a Timeout: with a
duration in seconds, with the timeout of the registered state, and with the time
of the event that `Next` returns (`subscribe.go:153` and `165`), the last two in
nanoseconds.  Nothing in the repository waits for the Timeout of such an event,
but a watcher may.  `MakeTime` multiplies modulo the width of an int64.  `Wait`, `TimerFires` and `ContextDone` are the call and the
two cases of its select; `Dispute`, `Cancel` and `Tick` are the environment.
`kind`, `sec`, `made`, `began` and `ended` remember what was asked for and when,
so that the properties can compare it with what was done.

**EventParsing** is the parser on the text of the events.  The index that picks
an event is found among the versions and used in the lists of matches of all
patterns, and the list of allocations holds only those whose two balances have
exactly two groups of digits.  A list of matches is the set of the events that
match, with the place of each counted from the front; a text has at most three
groups, which no pattern tells from more.  Its logs are those of PerunCanister, each version
with its own split of a constant total, one of `Splits`.

**Encoding** has the conversions as operators: what `NewParams` and
`StateForChain` refuse (`marshals` says whether the application data can be
encoded; the data is not signed), the bytes that `CalcID` hashes and those that `Sign` and
`Verify` use.  `Power` is the value of a byte's place and `ByteLen` the number of
bytes without leading zeros; SHA-512 is taken for injective.

**MCConversions** drives both: it grows a log, or picks one input of Encoding,
which the properties compare with every other one.

## Runs

| run | instance | shows |
|---|---|---|
| adjudicator_safety | 2 participants, one with deadlines, versions 0..2 with 2 final, 2 calls each, lag 2, 2 RPCs that fail or are answered by a lagging replica, one request without all signatures, one with a bad nonce | `TypeOK`, `IInv`; no call succeeds before the conclusion (`SuccessAfterConclusion`) or for another version (`SuccessMeansOwnVersion`); nil of `Register` and `Withdraw` means registered and paid |
| adjudicator_live | versions 0..1 with 1 final, 2 calls each, lag 2, 2 RPCs that fail or are answered by a lagging replica, one participant with deadlines and one without | `ImplementsSettlement`; `EveryCallReturns` of a call with a deadline; `CooperativeCloseIsPaid` of one without, once both faults are spent |
| adjudicator_eventwait | versions 0..1, no faults, no deadlines | violated: the wait of `isConcluded` may never see its event |
| eventsub | 3 callers, versions 0..2 with 2 final, lag 2, 2 failed polls | `TypeOK`, `IInv`, `SendNeverBlocks`, `OwnEventsNotTaken`, `NewestAndConclusionFirst`; `ImplementsSubscription`; `NextReturns` and `EventWakesNext`: a waiting `Next` returns after `Close`; after an event or the end of the context, unless two polls have failed; `GoroutineEnds`: so does the goroutine, with nobody reading |
| funder | 2 funders of one process, one with deadlines, amounts 1 and 2, money for two and one transfers, 2 calls each, 3 turns, lag 2, 2 RPCs that fail, see an old log or are answered with events that cannot be parsed, 1 kill | `TypeOK`, `IInv`, `MutexHeldAtCanister`, `FundedIsHeld`; `EveryFundReturns`, `DepositIsNoticed`; `ImplementsFunding` |
| funder_panic | 1 call each, 1 failed RPC | violated: a transfer error is not returned |
| wallet_usage | 2 seeds, 3 accounts, 2 uses, unreadable files | `TypeOK`, `IInv`, `UseCountsSurvive`, `UsedKeysAreNotReissued`, `UnlockedKeyMatches`; `ImplementsKeyStore` |
| wallet_persisted | 1 seed, 2 accounts, 1 use | violated: unused accounts are persisted |
| timeout | 1 waiter; seconds of 3 units, an int64 of 5 bits, durations 0, 1, 5, 6 and 31, of which the last two overflow, a registered state's timeout and its event's time, a clock up to 25 | `TypeOK`, `IInv`; a duration is waited for to within a poll interval (`DurationIsWaited`); `EveryWaitEnds` |
| timeout_timepoint | the same | violated: the wait of `checkDisputes` ends before the timeout of the registered state |
| conversions | versions 0..3, a total of 12 with groups of one digit to the base 3, split in five ways; bytes below 3, nonces of two bytes, balances up to 9 | `ReadableLogsAreRead`, `OtherBalancesHideEvents`; `ChannelsAreIdentified`, `SignaturesVerify` for all pairs of inputs |
| conversions_nonce | the same | violated: two nonces may give one identifier |

*Bounds.*  Two participants is the number the code supports (`CalcID` and the
allocation pattern take two).  Three versions give an older, a newer and a
final state, so that a call can be overtaken by a peer's dispute and then by a
conclusion.  Two calls allow a retry and a `Register` followed by a `Withdraw`.
Two faults reach every error path of the adjudicator, also the second failed
poll that blocks the goroutine, and a lost reply followed by a stale answer.  A
lag of two hides a dispute together with the conclusion that follows it.  `MaxIters` is 15
in the code; what counts is the last turn, and that fewer queries fail than
there are turns.  With three accounts there is one in use, one that is not, and
a nonce to generate anew; with two seeds, a wallet that replaced another.  In
*timeout* a nanosecond is a unit of the clock, and the scaled int64 overflows at
sixteen units as the real one does at 292 years; waiters do not interact, so one
is enough.  With groups of one digit to the base 3 and a total of 12, a version's
balances have one and three groups, two and three, three and two, or two and two
in two ways; a log of four versions has every mixture of these, and readable
versions with different balances.  With bytes below 3 and balances up to 9, a
balance has from none to three bytes, so that the second of two balances can
start at any byte.
Deadlock is not checked: every caller may have made its calls, or wait for
something that the peer need not do.

*Fairness.*  `Step(p)` is weakly fair: a goroutine that can go on does, and an
RPC is answered or fails.  `Poll(p)` is weakly fair: the ticker of the
subscription keeps firing and an RPC that fails for good is not assumed.
`Cancel(p)` is weakly fair: a context with a deadline expires.  Nothing makes
`TimeoutElapsed` happen, or a participant begin a call.  In AdjEventSub
`Run` and each `NextStep(c)` are weakly fair, for the same reasons.  In
DisputeTimeout the clock runs (`Tick`), a goroutine that can go on does
(`Step(w)`, and within `MaxLateness`), and a deadline expires (`Cancel(w)`).  The lock of
`connMutex` is strongly fair, since `sync.Mutex` hands itself to a waiter that
has waited for a millisecond.

*Mutants.*  Next to each action stand the variants a plausible bug would
produce (`Dispute_IgnoringAnswer`, ...).  PROJECT.json names for every property
the mutant that violates it.

## What the violated properties say

* `ConclusionEventArrives` (`adjudicator.go:181`, "here we wait for a conclusion
  event to arrive").  The subscription is opened before `Conclude`.  If its
  first poll finds a dispute event, the goroutine delivers that one and returns
  (`subscribe.go:119-124`); the wait discards it and nothing else ever comes.
  Without a deadline the call hangs.
* `TransferErrorIsReturned` (`funder.go:160`).  `TransferToPerun` reads
  `blockNum.Ok` before it looks at `err`, and `TransferIC` returns nil with
  every error.
* `OnlyUsedArePersisted` (`wallet.go:33-35`).  `save` writes all open accounts,
  used or not.
* `TimepointIsReached` (`timeout.go:30-31`, "Timeout can be used to wait until a
  specific timepoint is reached by the blockchain").  `checkDisputes` hands over
  a timestamp in nanoseconds where `MakeTimeout` wants seconds from now; their
  product with 10^9 wraps.  The wait may end at once, and a conclude sent then
  is refused; or it may be much too long.
* `NoncesMakeIDsUnique` (`types.go:43`, "Nonce makes a channels ID unique by
  providing randomness to the params").  `MakeNonce` copies the bytes of the
  nonce, without leading zeros, to the beginning of the array: n and 256n have
  the same bytes, so two channels that differ only in these have one identifier.
  In the same way `CalcID` leaves out the `App` and every participant after the
  second (`backend.go:119-122`), although "Params holds the fixed parameters of a
  channel and uniquely identifies it" (`types.go:67`).  How much two channels of
  one identifier can differ is exactly `SameEncoding`, which is proved
  (`SharedIdentifiers`); `ChannelsAreIdentified` is the half of it that protects.

One more text has no run, as what it says depends on the canister:
`adjudicator_test.go:50-51` says "Register should be idempotent".  Any refusal is
`ErrFailDispute` (`adjudicator.go:459-461`), and a canister that wants a strictly
newer version, as PerunCanister assumes, refuses the second `Register`.

Two facts that no text of the repository denies, so that they are stated as
they are and hold: an event whose balances are below 1_000 or from 1_000_000 on
is not seen by the parser, and next to one that is, makes it panic
(`OtherBalancesHideEvents`); balances are signed without a length, so that the
bytes determine a state only among those whose balances have the same byte
lengths (`SignaturesVerify`).

## Proofs

TLAPS proves the following for every value of the constants that satisfies the
assumptions `ChannelAssumption`, `AdjudicatorAssumption`,
`SubscriptionAssumption`, `FundingAssumption`, `FunderAssumption`,
`WalletAssumption`, `TimeoutAssumption`, `ParsingAssumption` and
`EncodingAssumption` (numbers are numbers, functions have their domains, the
final version is the last one, a base is at least 2, a uint64 has more than one
byte).

*AdjudicatorProofs*: `Spec => []IInv`, and from it `[]TypeOK`,
`[]SuccessAfterConclusion`, `[]SuccessMeansOwnVersion`,
`[]RegisteredOwnVersion`, `[]WithdrawnIsPaid`.  None of these is inductive by
itself: that a call is about to succeed says nothing of the canister unless one
knows what an event it was given proves.  So `IInv` says that the log and the
registered version agree (`LogConsistent`: every version of the log is at most
the registered one, and a conclusion in it is the conclusion of the registered
version), that a subscription holds only events of the log
(`DeliveredIsLogged`), and what a call knows at each of its locations
(`CallInv`).  A stale answer shows a prefix of the log, of which all this holds
as well; so the proof does not depend on `MaxLag`.  The proof has one lemma for
each action.

Of every step, `ChannelAdvances` says what it may do to the channel on the
canister: the registered version never falls, a settled channel stays as it is,
no event is lost, and payments stay and are made of a concluded channel only.
The last needs the invariant, since `CallInv` is what keeps a call from
withdrawing before `ensureConcluded` has seen the conclusion.  Two statements
across time follow, the nested `[](... => []...)` of their theorems:
`SuccessesAgree`, that a call let through with a version excludes, now and ever
after, one let through with another; and `PaymentsAgree`, that a channel that
has paid anybody stays concluded with the version it had then.

*AdjudicatorRefinement*: `Spec => ImplementsSettlement`, with `IInv` to tell
that a conclude accepted by the canister is a `Conclude` of ChannelSettlement
and that an answer is true when it is given.

*PerunCanisterProofs* has the lemmas both rest on: what no message to the
canister undoes (`Evolves`), that a visible log holds only logged events, and
that the parser selects at most one conclusion before at most one dispute, each
the newest of its type.

*AdjEventSubProofs*: `Spec => []IInv`, and from it `[]TypeOK`,
`[]OwnEventsNotTaken`, `[]SendNeverBlocks`, `[]NewestAndConclusionFirst`, and
`Spec => ImplementsSubscription`.  The invariant follows the way of an event
(`Fifo`): of the events a poll parsed, the first `Consumed` ones are with the
callers, the next ones in the buffer, the last ones still to be sent.  As there
are two at most, a buffer of three never fills; as the parsed events differ, no
two callers get the same; `CallerInv` adds that a caller who has got an event
finds the subscription closed.

`NoEventIsLost` reads `Fifo` as a balance: of the parsed events each is with a
caller, in the channel or still to be sent, in one place only, and the goroutine
has sent them all when it returns.

*FsWalletProofs*: `Spec => []IInv`, and from it `[]TypeOK`,
`[]UseCountsSurvive`, `[]UsedKeysAreNotReissued`, `[]UnlockedKeyMatches`.  The
invariant says that the memory shows the usages as they will be after the save
under way (`MemoryInv`) and the file as they are now (`DiskInv`): a completed
write turns one into the other, and a crash drops the first.  That used nonces
are below the file's counter is what makes a crash harmless that takes the
counter back.

`Spec => ImplementsKeyStore` maps the open wallet, the file if it can be read,
and the history.  A usage counts when its save is over, so the step that changes
the memory's count is invisible and the one that completes the file is `Use` or
`Release`; `SaveInv`, a conjunct of `IInv`, says what the file holds before each
half of a save, and that a save that counts no usage is that of a new wallet,
with no accounts.  `Create` finds a seed without a history because
the seed is new.

`ReleasedForGood` is proved of KeyStore, where a key is taken out of the store
with its last use and a new key is one without a history, and inherited through
the refinement: a key once used that is no longer in use is in neither memory nor
file ever again.

*FunderProofs*: `Spec => []IInv`, and from it `[]TypeOK`,
`[]MutexHeldAtCanister`, `[]FundedIsHeld`.  A funder whose sum reaches its
amount has an event of its own in the log, because a sum over no events is 0
(`SumReaches`); an event is logged by a deposit that credits at least a whole
transfer (`WholeTransfers`); and holdings never shrink.  So one event is proof
enough, although the totals that are summed up are cumulative.  The mutex is
free exactly when nobody is between its Lock and its Unlock, whatever fails in
between.

`Spec => ImplementsFunding` maps each location of `Fund` to whether the call has
paid.  A panic and a kill fail several calls at once, also the one that has just
transferred: its money is underway and stays there.  A nil answer is true because
of the conjunct of `IInv` behind `FundedIsHeld`.  `NoTokenIsLost` is then proved
of ChannelFunding and inherited: some number of whole transfers accounts both for
what a participant has paid and for what is underway or in the channel.

`FundedForGood` is inherited in the same way: holdings shrink by no step of
ChannelFunding, so what is true when `Fund` answers nil remains so.  `CallsPayOnce`
bounds what retries cost: a participant's balance falls by one transfer and its
fee for each call of `Fund` at most.  Inductive is that it has made no more
transfers than `Allowed`, the calls so far less the one that has yet to transfer.

*DisputeTimeoutProofs*: `Spec => []IInv`, and from it `[]TypeOK`,
`[]DurationIsWaited`.  The invariant bounds the next look at the clock by one
poll interval after the due time or the call, and the clock by the goroutine's
lateness after that.  That a registered timeout is no earlier than the challenge
duration makes the time of its event a natural number.

*ConversionsProofs*, the parser: `[]ReadableLogsAreRead` and
`[]OtherBalancesHideEvents`.  They rest on a lemma about the logs (`LogsGrow`, with
the inductive invariant `EvIInv`), which says nothing of the Go code.  In a channel's log, and so
in a prefix of it, the events of one type come in the order of their versions
(`VersionsGrow`).  The highest version is therefore that of the last match, its
index is the length of the list, and it is within the list of allocations exactly
when every event of the type has made it into that list; then the two lists are
the same and the balances are those of the same event.

*ConversionsProofs*, the encoding: `SharedIdentifiers`, `IdentifiesEveryChannel`
and `VerifiesEverySigned`, for any parameters and states, and from them
`[]ChannelsAreIdentified` and `[]SignaturesVerify` of the run.  `Power` is a
recursive function; what is needed of it (`PowerLaws`, `PowerSum`) is proved from
the least number for which it would fail.  A number below `Power[L]` is
determined by its L lowest digits (`DigitsUnique`), so numbers of one width are
told apart.  Written without leading zeros, a number followed by another one is
the number `Joined` (`LittleEndianJoined`), and a nonce copied to the beginning of
the array is the nonce shifted to the full width (`NonceBytes`), which gives
`SameNonce`.  Fields of fixed length are found again in a concatenation, also
around one of any length (`FourFields`).

*Only model-checked*: liveness (`EveryCallReturns`, `CooperativeCloseIsPaid`,
`NextReturns`, `GoroutineEnds`, `EventWakesNext`, `EveryFundReturns`,
`DepositIsNoticed`, `EveryWaitEnds`), which rests on fairness.  Every other
property of a passing run is a theorem.

## Not modelled

* The contents of states, allocations, signatures and nonces in the state
  machines, beyond whether they are accepted; of the text of events, all but
  what tells the patterns apart; logging.
* `Progress` (returns nil), sub-channels (rejected by `checkRegister`),
  `QueryHoldings` and `RegisterEvent` (nobody calls them), `ExpiredTimeout`.
* Several channels: they meet only in `connMutex`, which Funder has.
* A wallet in memory only; keys handed out before `LockAll` zeroes them, of
  which the wallet keeps no record; two wallets on one file; overflow of the
  32-bit use count.
* The memo of a transfer: a hash of a channel and a participant of fixed length.
* Addresses, assets, wire accounts, connection set-up, test helpers: no state
  that changes.

## Plan

Done: PerunCanister, Adjudicator and AdjEventSub, Funder, FsWallet,
DisputeTimeout, EventParsing and Encoding, all with proofs; the adjudicator, the
subscription, the funder and the wallet with abstract specifications that they
implement.  What is left:

**ChannelLifecycle**: funding, registering and withdrawing one channel,
composed of the canister's two halves.
