# Cosvian: TLA+ models, checks and proofs

Cosvian is a Cosmos SDK chain whose own logic is a USD-denominated fee system, a token factory, and price feeds that keep the CSV per USD rate the fees are computed with. This directory models that logic, checks it with TLC on small instances, and proves its main safety properties with TLAPS for all values of the constants. `PROJECT.json` maps each definition to the source lines it stands for, lists the runs, the mutants that show each property can fail, the findings, the hazards and the theorems.

Run a check with `tlc -config MC_Fees.cfg MC_Fees` and a proof with `tlapm FeesProofs.tla`.

## The system

| component | state | operations | talks to |
|---|---|---|---|
| `x/fees` | params (fee table, guard rails, wallets, mode, message lists), fees module account | ante chain per transaction, `MsgChargeFee`, `MsgUpdateParams`, genesis | bank, oracle, the zero-gas ante chain of `app/ante.go` |
| `x/oracle` | one price, CSV per USD | `MsgSetPrice`, `SetCSVPerUSD` from the feeds | read by fees |
| `x/token` | metadata, symbol index, creator index, creator count, sequence, params | create, mint, burn, params, genesis; look-ups and paged listings | bank |
| `x/icqcontroller` | active channel per connection, pending correlations | channel callbacks, `SendKVQuery`, acknowledgement, timeout, genesis | IBC core; calls the consumer |
| `x/osmosisicq` | params, last/next update, last result, query IDs | `BeginBlock` scheduler, `OnKVResult`, params, genesis | icqcontroller, oracle |
| `x/pricefeed` | params and port, nothing per packet | channel callbacks, request and response packets sent and received, acknowledgements, timeouts, genesis | IBC core, oracle |
| `x/treasury` | locked rewards (storage is stubbed, module not wired) | lock, unlock, distribute | bank |
| `x/conversionpool`, `x/registry`, `x/cosvian` | params only | scaffolding | - |
| `app` | - | wiring of the ante chain, IBC routes, genesis order, export | all |
| `cmd`, `hermes`, `relayer`, `scripts` | - | process start-up and relayer configuration | - |

What is hard here: the fee path is a chain of roundings, fallbacks and two classifications with different names, in which a failure of a late step must undo the early ones; the token stores keep the same fact in several keys; and the price feed is asynchronous: packets are lost, late, answered out of order or wrongly, on channels that open, close and replace one another, while governance changes the params and the chain may be restarted from exported genesis. What makes each part correct:

- fees: a fee is what the table asks at the oracle's rate, it is taken only from an account that has to pay, every configured wallet gets its share, and nothing is paid that did not come in;
- token: one token per symbol in any spelling, IDs never reused, exact indexes and limits, supply within what was promised;
- token queries: every way of looking a token up gives one answer, and a listing read in pages shows every token once although the chain goes on between two pages;
- ICQ feed: each query settled exactly once by its own answer or timeout, no correlation without a packet or packet without correlation, no connection mapped to a channel that cannot carry a query, queries paced, a price that keeps its sign and that arrives;
- Band feed: the price in force was brought by a response taken as a success or by another writer, it keeps its sign, and no packet that is refused holds up those behind it.

## Modules

| module | models |
|---|---|
| `FeeTable` | decimals, table rows, estimate, guard rails, tolerance, shares (`fee_calculator.go`, `oracle_adapter.go`, parts of `keeper.go`) |
| `Fees` | EXTENDS `FeeTable`: classification, the two ante chains, distribution, `MsgChargeFee`, params, price, genesis |
| `Token` | `x/token` with the bank's balances and supply |
| `TokenRegistry` | abstract specification of x/token: one register of tokens; `Token` implements it |
| `TokenQueries` | EXTENDS `Token`: look-ups by ID and symbol, listings, and a client that reads one page by page, by offset or by NextKey |
| `TokenHistory` | `Token` with the IDs ever handed out, for one finding |
| `KeyedStore` | stores as functions over their keys |
| `Decimal` | the division of LegacyDec, for both feeds |
| `IcqController` | EXTENDS `KeyedStore`: `x/icqcontroller` and what IBC core guarantees it |
| `OsmosisIcq` | EXTENDS `IcqController`: composition of scheduler, controller, host, relayer and oracle |
| `QueryLedger` | abstract specification of the queries; `OsmosisIcq` implements it |
| `Pricefeed` | EXTENDS `KeyedStore`, `Decimal`: `x/pricefeed`, its channels and packets, and the oracle with its other writers |
| `MC_Fees`, `MC_Token`, `MC_TokenQueries`, `MC_Icq`, `MC_Pricefeed` | instances for TLC |
| `FeesProofs`, `EstimateProofs`, `TokenProofs`, `KeyOrderProofs`, `TokenQueriesProofs`, `OsmosisIcqProofs`, `PricefeedProofs` | theorems and proofs |

### Fees

State: `params` (absent before `InitGenesis` of x/fees, which comes after genutil delivers the genesis transactions), `csvPerUSD`, `bal` (bank balances in ucsv) and `last`, what the last step did. `DeliverTx` is one transaction as `BaseApp.runTx` executes it: the ante chain `FeeAnte`, `DeductFee`, `BaseAnte` in the order `app.go` gives it, all or nothing, then the message, whose writes are kept or reverted by themselves. A message that does something else may fail after the ante chain passed, hence the second disjunct. Decimals are integers in units of 1/`Prec`; `Mul` rounds half to even and `TruncateInt` truncates, as LegacyDec does. Addresses that do not parse are `NoAddr`; memo and message contents are reduced to what the classification distinguishes. Simulation mode and events are left out, the refusal of malformed JSON memos too (it only refuses).

`BaseAnte` is the chain of `app/ante.go`. `registerIBCModules` installs it through `setAnteHandler` in `app/wasm.go`, before `app.go` reads the application's handler and puts the fee decorators in front of it, so that the handler of the SDK's own auth module, which deducts fees, never runs. The chain of `ante.go` has an infinite gas meter, moves no coins and looks at no allowance: a granter named in a transaction pays. `FlatFee` is about this wiring: its mutant is a chain that deducts as well.

`Prices` have any sign, because the guards of the ICQ feed let the first answer, or any answer under a deviation of zero, pass whatever its sign: `GuardRailsHold` and `QuoteAccepted` say that with a positive minimum in the params the fee path stands it. The bank is external: transfers and the blocked addresses of `app_config.go`.

`WalletsPaid` is an exact account of one fee: every user and wallet gains its shares as they are after the fallbacks, the payer loses the fee, and what is left lies with the fees and treasury accounts. `PaysTheTable` compares the fee with what the table asks, clamped between the guard rails as amounts (`DueCSV`). The code clamps gas prices and drops their fraction, which accounts for one unit per gas above the maximum in the property. Gas 0 has no guard rail: a negative price then asks less than nothing, and the smallest fee is the only one that passes. Where the table asks nothing of a category that is not free the code accepts any fee, and the property has no upper bound. It takes the category that `ClassifyTransaction` gives; whether that is the one the documents mean is not stated, as they contradict each other (`draft.md` on minting). `QuoteAccepted` compares an estimate with the validation in the same state; a quote that has become stale is validated like any other fee, which is what `PaysTheTable` bounds.

### Token

A token ID is its sequence number, a symbol is mapped to lower case by `Lower`, the denom is the lower-case symbol. `CreateToken` is the whole handler: basic validation, reserved symbols, uniqueness, limit, sequence, record, indexes, counter and initial mint. `Mint` has the one condition the code has. `ExportImport` is a restart from exported genesis: the bank keeps its balances, x/token its params. `carried` remembers the supply at that moment for the supply property, `FixedSupply`, which is about the messages of x/token: other modules that mint through the bank, such as x/mint for the native denom, are not among the writers. `RegistrySpec` says that all of this acts as one register (`TokenRegistry`): the abstract action that enters a token asks the tokens there are for a clash of IDs or symbols and counts those of the creator, where the code asks an index, a counter and a sequence. Name, decimals and description are left out; `CreationFeeAmount` is never charged.

### Token queries

`TokenQueries` adds a client to `Token`. A query is answered from one committed version of the stores, so that a page is one step, and tokens are created between two pages. Listings walk the keys in byte order; the keys end in the ID as text, `token_%03d`, and `Before` is that order computed from the numbers: digit by digit, a prefix first, so that `token_1000` lies between `token_100` and `token_101`. `Page` and `More` are the loop of `TokensByCreator` and `AllTokens`. A response has a NextKey while there is more, and the API documentation gives a client two ways to go on: hand it back as the Key of the next request, or set the next Offset, but not both. Both clients are in the model (`scan.by`). The handlers read no Key from a request, so that the one that follows NextKey asks for the first page again; `scan.parity` makes such a request a step, not a stutter. `NoneMissed` and `LookupsAgree` are about both clients, `SeenOnce` and `PagesAdvance` about the one that counts offsets, and the run `scan_ends` shows that the other never comes to an end when its first page does not show all.

### ICQ price feed

`IcqController` has the channel ends, send sequences and commitments of IBC core beside the two maps of the module. A commitment carries the host's reply until the acknowledgement is relayed. Core's guarantees: a packet is acknowledged or timed out once, acknowledgements need an open channel and come in order on an ordered one, a timeout needs an expired packet or a closed channel and closes an ordered channel without a callback. A callback that returns an error reverts its transaction, so `HandlePacketAcknowledgement` is not enabled on a reply that fails.

`OsmosisIcq.BeginBlock` advances the time by one unit and runs the scheduler with both queries; `OnAcknowledgementPacket` runs the controller, the decoder and the guards to the oracle; `Faults` chooses what may go wrong in an instance: the counterparty closes, the client is down, packets expire, the host answers badly, genesis is imported.

What becomes of an answer depends on two constants. `ConsumerWired` says whether `SetKVConsumer` was called on the keeper that is routed; nothing in the repository calls it, not even the keeper's test whose comment says that it wires a consumer. `Extractor` says what finds the value in an acknowledgement: the `"stub"` of the default build, which never finds one; the decoder of the `"icq_async"` build, which unmarshals an `Acknowledgement` with `encoding/json`, leaves its oneof unset and so takes every well-formed acknowledgement, `{"result":...}` too, for one without a value, and fails on other bytes; or the function that a `"test"` sets with `SetTestAckExtractor`, which may find a value, none, or fail. The theorems hold for all of these. The runs `icq` and `icq_live` have the consumer set and the tests' extractor: a query can then have every outcome it has in a build, and delivery and persistence happen besides, so that the safety properties cover the code behind the decoder. They do not show that a build ever delivers a value. What the builds do is in the violations: `price_arrives` has no consumer, as the repository has none; `answer_taken` has a consumer and the decoder of `icq_async`, and shows that setting the consumer alone would not bring a price.

Two more things that the wiring leaves open are taken as done. The IBC keeper of x/icqcontroller and x/pricefeed is an optional input (`IBCKeeperFn` in their `depinject.go`) that `app.go` does not supply: as it is wired, `SendKVQuery`, `OnChanCloseConfirm` and every send of x/pricefeed call a nil function. And `icq_async_provider.go` of x/osmosisicq registers `types.Module` a second time, with a provider of the client only, which takes the place of `ProvideModule`. The models describe the modules as their code is meant to be wired; the traces of the violations begin there too, and in the application as built a send would fail before an answer could be dropped.

`active` may name a channel whose handshake is only begun, and an ordered channel that core closed on a timeout without any callback. `MappedAlive` says what is left: the mapped channel is one of the connection, and an unordered one is not closed.

### Band price feed

`Pricefeed` has core's channel ends, send sequences, commitments (`sent`, with the counterparty's acknowledgement once there is one) and received packets (`incoming`, with the acknowledgement written here). The module itself records nothing about its packets. `OnRecvPacket` is the whole callback: a packet that does not decode, or whose response reports an error, is answered by an error acknowledgement and its writes are discarded; a packet whose timeout has passed is refused by core and never received; a response sets the price from `Rates`, else from the inverse of `Prices`; one with neither is a success that changes nothing. An acknowledgement that is neither result nor error makes the callback fail and stays in flight for good; on an ordered channel so do those behind it (`Stuck`). A message that sends names its port, which the code only asks not to be empty; the model has the channels of the module's own port, since the callbacks of a packet on another port are those of another module. `SetPrice` (`MsgSetPrice`) and `IcqPrice` are the oracle's other writers, `ExportImport` a restart, which drops the price.

## Runs

| run | result | shows |
|---|---|---|
| `fees` | pass | `NeverOverdraws`, `DustBounded`, `WalletsPaid`, `PaysTheTable`, `FlatFee`, `QuoteAccepted`, `GuardRailsHold`, `TypeOK` |
| `retailer_paid` | violation | a POS fee is split as a native transfer, the retail wallet gets nothing |
| `token` | pass | `SymbolIndexExact`, `CreatorIndexExact`, `FixedSupply`, `MetadataKept`, `LimitKept`, `RegistrySpec`, `TypeOK` |
| `max_supply` | violation | a mintable token is minted beyond its maximum |
| `unique_token_id` | violation | IDs start again after a genesis import |
| `icq` | pass | `PendingInFlight`, `MappedAlive`, `NotForgotten`, `Paced`, `LedgerSpec`, `TypeOK` under all faults |
| `icq_live` | pass | `Settled`, `StaysPositive` |
| `price_arrives` | violation | with the consumer unwired, as in the repository, no price ever arrives |
| `answer_taken` | violation | with a consumer, the decoder of icq_async still drops every answer |
| `pricefeed` | pass | `PriceHasSource`, `KeepsPositive`, `ResponseTaken`, `RequestSettled`, `TypeOK` |
| `token_queries` | pass | `LookupsAgree`, `NoneMissed`, `SeenOnce`, `PagesAdvance` |
| `scan_ends` | violation | a client that follows NextKey reads the first page for ever |

Bounds. `fees`: `Prec = 20` makes the tolerance of 5 % one unit, so both of its sides, the rounding of `Mul` and truncated shares all occur with balances of 13 and 20, one and two fees of the guard rail, so that some fees are beyond what an account has; the transactions cover every category, both sides of the guard rails and of the free gas caps, gas 0, nested messages at and beyond the depth limit, a granter who pays and has enough or not; prices are unset, positive and negative; three other param sets have odd splits, a split over one on a free row, a blocked wallet, and one that validation refuses. `token`: two creators, two tokens per chain (`MaxSequence`), a symbol in two spellings, the native symbol that is reserved and then released, supply up to 3: two creations are enough for every clash of symbols, IDs and counters, and imports begin further chains. `icq`: two channels on one connection, both orders, `MaxTime = 3` with interval 2 and timeout 2, so that two rounds of two queries overlap with the timeout of the first; channels are symmetric. `icq_live`: one channel, decimals in halves, an answer that inverts and a negative one. `pricefeed`: one channel of either order (channels share only the price, which is already written by two others), `One = 2`, two packets each way so that one can be stuck behind another, `MaxTime = 2` with timeouts that are zero, in the past and ahead, and packets for each branch of the callback, some of which lapse at the first or second block. `token_queries`: four tokens, IDs of one digit in base four, so that the fourth ID grows a digit and comes to lie before the second, pages of one, two and all, read by offset or by NextKey; creators are symmetric. `scan_ends` needs two tokens and pages of one. Intervals of 2^63 seconds and more, which the ICQ scheduler would convert to negative ones, are outside the model. Deadlock is not checked where the bound on time or the payers' balances end the behaviour; the token run has an action (import) that is always possible and checks it.

Fairness (`FairSpec`): blocks are produced; a begun handshake is completed; the host answers what it receives; the relayer delivers answers and timeouts. This is what a live chain and a running Hermes with the scripts' configuration do. `BeginBlock` is fair on a client that is up. In `Pricefeed` blocks, the end of a handshake the counterparty began, and the delivery of packets, acknowledgements and timeouts are fair, the counterparty's receipt and answer are not: a request it never takes is settled by its timeout. In `TokenQueries` (`scan_ends`) the client asks for its next page: it is the repeated first page that keeps it reading, not a client that stops. Nothing is assumed fair about new handshakes, governance or closing. Where a fault intervenes, the liveness properties name it as an exception.

## Proofs

Each proof module has an inductive invariant and one step per action.

- `FeesProofs`: `TypeCorrect`, `FeesNeverOverdraw`, `FeesDustBounded`, `FeesFlat`, for every `Prec` and `Micro`, all splits, also those params validation skips, and all recipients. The lemmas on `Shares`, `Remap` and `Send` carry the argument: the four shares never add up to more than the amount, remapping keeps their sum, and a distribution moves exactly that sum; four truncations of a whole split lose less than four units. `FeesAccounted` follows each transfer: a share moves from the fees account to its recipient and leaves all other balances alone (`Moves`), so that the four transfers of a distribution add up account by account, whichever recipients coincide with each other or with the payer.
- `EstimateProofs`: `GuardRailsAlwaysHold` and `QuoteAlwaysAccepted` hold for a price of any sign: with a positive minimum the estimate that is not free is clamped between minimum and maximum, up to one rounding, and a quote that is not negative, as it then is, lies within its own tolerance. `FeesPayTheTable` joins three lemmas: clamping gas prices differs from clamping amounts by less than one unit per gas, the tolerance of a rounded amount is at most a twentieth of it, and an accepted fee is within it. The attempt to prove it showed that an earlier form of the property was false at gas 0 with a negative price, a case outside the transactions of the run.
- `TokenProofs`: `IndInv` adds to the four properties that the sequence number is exactly the highest ID in use. Without it uniqueness of IDs cannot be carried over a creation, since the code never asks whether a metadata key is set. `MetadataKept` and `LimitKept` follow from the same invariant; cardinalities come from `FiniteSetTheorems`. `StoresImplementRegistry` maps the register to the metadata records; a creation enters a token because the symbol index is exact, the sequence is the highest ID and the counter is the number of the creator's records.
- `TokenQueriesProofs`: `QInv` adds to `IndInv` that each token there was at the start has been shown or lies at or behind the next offset. It is kept because a creation only adds keys, so that positions only grow; nothing is used of the order of the keys, and `NoneEverMissed` holds for every format of the IDs and every page size. `ShownOnce` does use the order, from `KeyOrderProofs`, and a second invariant (`SeenInv`): while no ID outgrows its width, all that was shown lies before the next offset. A creation keeps this because its ID comes last. `NoneEverMissed` covers both clients, `ShownOnce` and `PagesAlwaysAdvance` the one that counts offsets; the latter is why that one comes to an end: no position reaches the number of tokens listed. `LookupsAlwaysAgree` follows from the exact indexes of `IndInv`.
- `KeyOrderProofs`: the order of the keys is total on the IDs, and that of the numbers while these keep to their width. The order is a comparison of fractions with powers of the base as denominators. That the recursive function `Power` exists is proved from its finite beginnings, by least counterexamples, since no induction rule can be instantiated.
- `OsmosisIcqProofs`: `IndInv` says that correlations and commitments have identities below the channel's next sequence, that each correlation has its commitment with the same store and the connection of its channel, and that a connection's active channel belongs to it. From it: `PendingInFlight`, `NotForgotten`, the refinement `FeedImplementsLedger`, and with a further invariant on send times `AlwaysPaced`. `PriceStaysPositive` rests on a lemma about `Quo`: a price at or below zero deviates by at least one from a positive price. `MappingAlwaysAlive` needs that a channel is mapped only while it is not closed by a callback and that only ordered channels are closed without one.
- `PricefeedProofs`: `PricefeedTypeCorrect`; `PriceAlwaysHasSource`, which carries the packet the price came from through every later step, since receipts are never forgotten; `PriceKeptPositive`, from a lemma that the inverse of a positive price below 2 * `One`^2 units rounds to at least one unit.

Assumptions are the named ASSUMEs on the constants (types, positive precision, a connection exists); TLC evaluates them in every run. Every invariant, action property and refinement that a passing run checks is also a theorem. Only model-checked: the liveness properties (`Settled`, `ResponseTaken`, `RequestSettled`), since neither fairness nor ENABLED is within the prover's reach, and the violations.

## Plan

1. The measures behind the other liveness properties as action properties, as `PagesAdvance` is for a client that counts offsets: what an acknowledgement or a timeout brings a packet closer to.
2. An abstract specification of the Band feed's packets, and its refinement.

## Not modelled

- `x/treasury`: it is not wired into the app, nothing calls it, and its storage functions are stubs that store nothing and find nothing. There is no state to have properties.
- `x/conversionpool`, `x/registry`, `x/cosvian`, and `MsgUpdateParams` of oracle, icqcontroller and pricefeed: one params item, written by governance and genesis, that nothing reads.
- `x/osmosisicq/controller`: a development stub no wiring constructs.
- Code without callers: `ChargeAndSplitFee`, `x/token/keeper/fees.go`, `RequestPriceData` of x/pricefeed (whose timeout is in seconds where nanoseconds are meant), `IntegrateWithOracleModule` (an event).
- `TokenSupply` and `TokenBalance`, which ask the bank; the `CurrentSupply` of `TokenById`, which is the one of the creation and has no documented meaning to compare it with.
- `export.go` for a height of zero: it rewrites the state of the SDK's staking modules.
- Events, gRPC and CLI layers, node start-up, relayer configuration; the SDK, IBC core and CosmWasm beyond the guarantees used.
- Generated code. `*.pb.go` and its copies under `cosvian/` and `proto/` are some 105,000 of the repository's 119,700 lines of Go; the records appear as the types of the models, the encoders not at all.
