# Verification of scll-rust

TLA+ models of the library's own logic: discovery, the secure channel between a
host and a GlobalPlatform card, the framing of commands and answers, the
enumeration of a card's registry, the loading of a CAP file, content, key and
life-cycle management, and the two programs that use all of it. Paths below are
relative to the repository; "pdd" is `docs/pdd.md`.

## 1. The system

`scll` is a blocking, single-threaded library. A `CardManager` owns a
transport, a crypto backend and at most one secure-channel session; every
operation is a workflow in `scll-core` that sends C-APDUs one at a time and
reads each answer before it goes on. No thread of the library runs beside it.
What does run beside it is the card, the link, and on a shared reader whoever
else talks to the card; and between two APDUs any of them may stop, lose or
delay something.

| Component | State | Operations | What makes it correct |
|---|---|---|---|
| `CardManager` (`scll/src/manager.rs`) | the retained `ScpSession` | `open_scp`, `transmit`, `close_channel`, `into_parts`, `discover_card`, in-session workflows | an open channel is an authenticated one; its handle names its own keys; nothing is left behind |
| Session backend (`scll-backend-rustcrypto`) | two tables of 16 session slots (keys, MAC chain, counter, level, R-MAC chain), 16 keys | derive, wrap, unwrap, close, import, generate | commands run in order and once; a failed unwrap ends the session for good |
| SCP state machines (`scll-core/src/scp`) | locals of a handshake | select, INITIALIZE UPDATE, checks, EXTERNAL AUTHENTICATE | every check is made before the channel counts as open |
| Transports (`scll-transport-pcsc`, `-jcsim`) | the reader, or a TCP stream | `transmit`, `reset` | an answer belongs to its command |
| Discovery (`workflow/discover.rs`) | none | reset, SELECT, six optional GET DATA | returns, whatever the card omits |
| Inventory (`workflow/card_status.rs`, `tlv.rs`, `response.rs`) | buffer, checkpoint, bounded lists | `get_card_inventory` | a prefix, never an error; complete unless it says otherwise; ends |
| Load (`workflow/ssd.rs`, `cap/mod.rs`) | block, cursor, ring, decompressor | `load_package`, `next_block` | the card gets the load file byte by byte, in the fewest blocks; done means loaded |
| Life cycle (`lifecycle.rs`, `card_status.rs`) | none (reads the card's) | `get_card_status`, `set_card_status` | no illegal or irreversible step unasked |
| Keys and content (`workflow/keys.rs`, `applet.rs`, `ssd.rs`) | key table | `put_sd_keys`, `delete_sd_keyset`, `install_applet`, `delete_applet`, `create_ssd`, `delete_ssd` | what the report says is what the card did |
| Commands, responses, TLV, crypto | none | encoding, decoding, primitives | lengths, test vectors |
| `isd-lifecycle`, `ssd-lifecycle` (`examples/src/bin`) | what a run knows: keysets reported, the one in use | set up, use, rotate, clean up | however a run ends, the next one brings the card back |

They interact by calls: the manager lends transport, backend and session to a
workflow; the workflow wraps through the backend, exchanges through the
transport, unwraps through the backend. State is shared in two places: the
backend's slot table, which outlives managers and handles, and the card.

Hard behaviours: `wrap` commits the MAC chain before the command is sent; a
handle is a bare index that can outlive its slot; the status word of EXTERNAL
AUTHENTICATE has no MAC; the jcsim stream survives a timeout with an answer
still in it; a status scope is cut into pages at any byte; the inflate window
is dictionary and output ring at once; a workflow of two exchanges fails between
them; a state is read in one call and relied on in another; a program is killed
between the PUT KEY that replaces a keyset and the DELETE that removes one.
`PROJECT.json` lists each hazard at its line.

## 2. Modules

| Module | Models |
|---|---|
| `SecureMessaging` | operators on one slot of the session table: derive, wrap, unwrap, free |
| `CardChannel` | manager, backend, link and card: every interleaving of an open, an exchange, a close, a discovery and what may go wrong |
| `OrderedChannel` | what the channel promises: issued, executed and answered, no handles, no link |
| `JcsimStream` | the byte stream under `JcSimTransport`: frames written and read in pieces, and what is left in it when a call ends early |
| `Discovery` | `discover_card`: what each answer becomes in the `CardInfo` |
| `Framing` | extends `Discovery`: negotiation, and every length from a builder through the wrap to the card and back |
| `CardInventory` | `get_card_inventory` against a card that cuts its pages anywhere |
| `CapFile` | operators of `cap::parse`: the ZIP's directory, the load file in its order, the metadata components |
| `LoadPackage` | extends `CapFile`: `load_package` and the streaming of the Load File Data Block |
| `CardRegistry` | operators of the card: objects, keysets, life cycle and the answers to the commands on them (external) |
| `ContentManagement` | extends `CardRegistry`: the in-session workflows, one exchange at a time |
| `DemoLifecycles` | extends `ContentManagement`: the two programs as scripts of its calls, run again and again |
| `MC...` | the small instances TLC checks |
| `..._proofs` | the theorems |

The three groups abstract from each other: `CardChannel` has keys, loss and
interleavings and no lengths; `Framing` has lengths, levels and variants and
loses nothing; `ContentManagement` takes a channel that is in step or not and an
exchange that happens, is refused or is lost, which is what `CardChannel` shows
an exchange to be.

### SecureMessaging and CardChannel

Cryptography is ideal: a C-MAC is a function of the session keys and of every
command wrapped so far, so the chaining value is modelled as that sequence
(`slot.chain`). Keys are numbers, one per handshake. A level is "R-MAC asked
for" or not; encryption hides nothing a property looks at.

| Variable | Code |
|---|---|
| `session` | `CardManager.session`: the handle, and (history) the keys and level it was opened with |
| `slots` | `BackendState.sessions` / `.scp02_sessions` |
| `pc`, `ctx` | where the blocked workflow waits, and its locals |
| `req`, `resp` | APDUs on the link; more than one only on the jcsim stream |
| `card` | the card's end: keys, chain, authenticated or not |
| `issued`, `executed`, `broken`, `lost` | histories the properties read |

`OpenScp`, `SelectAnswered`, `SendExternalAuthenticate`, `ChannelOpened` and
their failures are the exchanges of `open_scp`; `Transmit`,
`TransmitAnswered`, `TransmitGarbled`, `TransmitRefused` are
`transmit_in_session`, which is what every in-session workflow is made of, so
a workflow is a sequence of them. `CloseChannel`, `IntoParts`, `Discover` and
the probes are the manager's other calls. `LinkError` is any transport error,
`Timeout` a read that gives up on a stream that lives on, `CardInterrupted`
another application or a power dip. The card's actions are external: what the
host expects of a card, with refusal always possible.

Simplifications that only add behaviours: a failed jcsim reset leaves the
stream usable; checks that depend on data (`good`) may fail at will; a card may
answer any status word. Left out: a frame that arrives in part (`JcsimStream`),
and the byte layout of commands.

### JcsimStream

`up` and `down` are the bytes on the TCP connection, `got` and `need` the buffer
`read_exact` fills. `Send`, `SendRefused` and `SendFails` are the first half of
`transmit`; `ReadSome`, `LengthRead`, `LengthRefused`, `Return`, `ReadTimeout` and
`ReadEof` the second; `Reset` and `ResetFails` are `reset`. `quiet` counts time
since the last byte, as the socket's timeout does, and `waited` since the call
began to read; time spent writing is not counted. The bridge's actions are
external: it forwards one frame at a time, hangs up on a frame above its
ceiling, and may end anywhere in an answer. A command still unread when `reset`
drops the connection is lost here; a bridge that reads it first is the
interleaving in which `Forward` comes before `Reset`.

`cut` records whether a call since the connect ended inside a frame, and how.
`connected` is the code's own record of it, and misses one way: an answer refused
for its length leaves the link up with the answer in the stream. `CardChannel` is
this module between two cuts, plus the late whole answers that a timeout at a
frame boundary leaves; what a manager does with the garbage of a misaligned
stream is not composed, beyond a transport error or a failed MAC.

### CardInventory

A byte of a scope is named by its entry and its place in it; `Parses` says of a
sequence of such bytes whether `tlv::parse` accepts it. `Page` is one turn of
the loop in `read_status_scope`, with the card free to choose how many bytes a
page carries and whether it says there is more; `ScopeEmpty` is 6A88,
`PagesExhausted` the page limit, `StoreScope` and `ScopeMalformed` are
`collect_scope`. An entry's kind holds what the workflow tells apart, from an
AID that is not valid to a length that runs past the end of the scope.
`given` is whether the caller names the ISD in full: `open_scp` and
`discover_card` accept partial AIDs and hand them back.

### LoadPackage

A byte of the load file is named by component and offset. `EmitHeader`,
`EmitStored`, `Pump`, `CopyOut`, `DeflateReturns`, `BlockFilled` are
`next_block` and what it calls; the ring is an array of named bytes, so an
overwritten one shows in what the card receives. `inflating` is the state of
`DecompressorOxide`, lent by the caller and surviving failed calls. A
component carries what the ZIP's directory declares and what is really there;
the two may differ, since nothing in `parse` compares them. `BlockAccepted`,
`BlockFails` and `NothingLeft` are the LOAD loop; `LoadAgain` is a caller that
retries.

In both modules an exchange is one step. `CardChannel` is what justifies it:
the answer belongs to the command, or there is an error.

### CapFile

An entry of the directory carries its path, whether its record and its local
header can be read, its compressed data as sizes (`Component`) and, for the
metadata components, whether their fields are legible and how many AIDs they
list. `walk_zip` and `parse` are the functions of those names: the first entry of
each component name counts, whatever directory it is in; the local header is
looked at for components only; the Header must be there and metadata must fit
the window; too many imports or applets reject the file. Whether the end record
is found is a Boolean (`eocd`). What a failed parse leaves in the window is not
modelled: every deflate call resets it.

### Discovery and Framing

`Discovery` has one action per exchange of `discover_card`. An answer is data,
absent (6A88 or empty) or refused; a template is a sequence of entries or broken.
`info` is the `CardInfo` as far as it has been filled.

| `Framing` | Code |
|---|---|
| `ask` | what the caller opens with: variant (`select` or forced), key version, level |
| `ses`, `sd` | the two ends: protocol, MAC length, level, commands counted |
| `sdI`, `kvn` | the `i` and key version of the card's INITIALIZE UPDATE answer |
| `plain`, `wire`, `heard` | the command built, as wrapped, as the card reads it |
| `reply`, `told`, `got` | the answer sent, what it said, what the caller gets |

`OpenScp`, `IuAnswered`, `EaAccepted`, `OpenFails` are the handshake with the
order of its checks (IU length and protocol, key version, variant, capped level);
`SendRefused` and `Send` are a builder followed by `wrap`, `Receive` is `unwrap`.
`Callable` lists a command of each builder at the sizes given as constants. A
command's bytes are counted, encryption is its padding (`pad80`, `pad80_8`), a
MAC is good when both ends count the same commands and agree on its length.
Nothing is lost here and the caller's keys are the card's: cryptogram and
challenge checks are `CardChannel`'s. The card takes only levels with C-MAC (it
may refuse any) and an SCP02 card may leave error answers without R-MAC. A caller
discovers again only after a discovery that failed.

### CardRegistry and ContentManagement

`CardRegistry` is the card as the workflows rely on it: each command is an
operator from a card to the set of its possible answers, always including the
status words in `Refusals`. `quirky` is the simulator's initial-key behaviour
(the first PUT KEY replaces the factory keyset; the default key version dangles
once its keyset is deleted), which the programs' comments describe.

| `ContentManagement` | Code |
|---|---|
| `card` | the card |
| `chan` | `CardManager.session`: security domain, keyset, whether the ends are in step |
| `call` | the workflow under way, its arguments and the exchange it waits at |
| `result` | `Ok` with the report, or the error |
| `known` | the life-cycle state the caller last learnt |
| `did` | history: what the card did for the call |

One action per workflow; `delete_applet` and `set_card_status` have two
exchanges, so they have two steps (`DeleteInstance`, `DeleteElf`;
`GetCardStatus`, `SetCardStatus`). `Begin` holds the pre-flight checks
(privileges, cascade policy, `check_transition`), `MeaningOf` the translation of
status words per workflow. `ExchangeLost` loses a command or its answer with or
without the chains coming apart. `CardMoves` is an application on the card or
another terminal. `load_package` is one step here. That a session for content
management is one on the ISD is documented and not checked by the code, and so
not checked here.

### DemoLifecycles

A script is a sequence of calls, each with the errors it tolerates; `run` holds
the script, the position and what the run knows (`reported`, `first`, `orig`,
`imported`); which of its versions that are no demo's a card lists first is the
card's choice, made at `Start` (`FirstListed`).
`Through` and `Failed` say where a script leads at its end and on an error:
cleanup before, the flow, cleanup after; path A with the original keys, path B
with a demo keyset that restores them; the teardown of ssd-lifecycle and its
rescue. `Killed` ends the process between two exchanges or with one in flight.
The order in which `open_isd_original` tries its key versions is left open, which
only adds behaviours; `SCLL_ISD_AES256` is the same in every run.
`get_card_inventory` is an exchange without effect here.

## 3. Runs

| Run | Shows | Size |
|---|---|---|
| `channel_pcsc` | PC/SC: execution in order, answers to their commands, handles, slots, fail-closed tear-down, refinement of `OrderedChannel` | 383k states, 12 s |
| `channel_jcsim` | jcsim with late answers: answers and authentication where they still hold, the inductive invariant `InStep` (types and execution in order among its parts), and that every workflow returns | 396k states, 32 s |
| `jcsim_stream` | the jcsim byte stream cut at any byte: whole answers, an honest `is_connected`, a bounded wait, and every call returns | 383k states, 18 s |
| `parts_free` | *violation*: `into_parts` hands over a backend with slots still taken | |
| `level_in_force` | *violation*: the reported level is not that of the slot the handle names | |
| `opening` | fourteen cards discovered, channels opened on what they told in every mode and level, commands of every builder sent through them | 217k states, 15 s |
| `inventory` | prefixes, no silent loss, no limit turned into an error, termination | 194k states, 60 s |
| `inventory_6a88` | *violation*: 6A88 on a continuation discards what was read, silently | |
| `load` | the card gets the file in the order of GPCS C.2, done means loaded, fresh block numbers, an intact ring, termination; CAPs that are none are refused before anything is sent | 13k states, 94 s |
| `load_reported` | *violation*: a short component ends the load without a last block, reported as done | |
| `content` | every sequence of content, key and life-cycle calls on a card that refuses, loses or is moved: reports and errors are true, no state is skipped | 180k states, 9 s |
| `lifecycles` | the two programs in turn on one card with three faults: never locked out, clean keys, and repeated runs get there | 681k states, 55 s |

Every property of a passing run has a mutant of the modelled code that violates
it, listed in `PROJECT.json`.

What the properties say, and why they could fail:

* `ExecutedInOrder`: what a card accepted under a set of keys is a prefix of
  what was wrapped under them, although a lost command leaves the host's chain
  ahead of the card's.
* `AnswerBelongs`: exact over PC/SC. Over a stream that keeps late answers, only
  where an R-MAC covers the answer: every SCP02 answer up to a repetition of
  the same command, SCP03 success words exactly; SCP03 error words and
  channels without R-MAC promise nothing, and the property says so. That an
  error answer sent without an R-MAC leaves the chains together is therefore the
  business of `channel_pcsc` alone.
* `OpenedMeansAuthenticated`: `session.open` implies that the card accepted this
  handshake's EXTERNAL AUTHENTICATE at this level. With late answers a bare
  9000 could be the answer to something else; it cannot, because the card
  cryptogram covers a fresh challenge, so the handshake has caught up.
* `HandleKeepsItsKeys`, `OrphansAccountedFor`, `BrokenStaysBroken`: the slot
  table. `lost` counts the two ways a slot is orphaned; `parts_free` and
  `level_in_force` show what that costs.
* `ListsArePrefixes`, `NothingMissingSilently`, `LimitsAreNoErrors`: the
  contract "a valid prefix, never an error", with the exceptions named in the
  properties: a late 6A88 (`inventory_6a88`), the modules of one load file, and
  an ISD given by a partial AID; an entry with more TLVs of its own than
  `MAX_TLVS` is an error, not a prefix.
* `CardGetsTheFile`, `RingKeepsPending`, `DoneMeansLoaded`: for every well-formed
  CAP. `BlockNumbersAreFresh` holds for malformed ones too, because the loop
  stops when `sent` reaches the total that was checked, a block is only left
  short when nothing follows, and all others are full.

* `DiscoveryTellsTheCard`: a discovery that returns has everything the card
  listed, in its order, or the fallback with a warning; a card with more than the
  tables hold is an error, never a shorter list.
* `AgreedParameters`: the MAC length is fixed from the variant that was
  advertised, before the card states its own; an open channel has the two ends on
  one protocol, MAC length and level, within what was asked.
* `AnswerIsWhole`: bytes come in pieces, and a call that ends early leaves some
  behind; whole answers are returned as long as none did.
  `LinkUpMeansAligned`: what `probe` reports is true of the stream, although
  `transmit` never looks at `connected` and goes on after a failure. `WaitBounded`
  holds even when the length being read is garbage.
* `CardReadsTheCommand`, `LoadBlocksFit`: the card finds in the bytes what was to
  be sent, within a short APDU; what does not fit is refused before the chain
  moves; a block of `LOAD_BLOCK_DATA` bytes fits under every mode and level.
* `AnswersAreRead`: the caller gets what the card answered; a channel breaks only
  on an SCP02 error answer that came bare where an R-MAC was due.
* `ReportIsTrue`, `ErrorsSayWhatTheyLeave`: what a call returns against what the
  card did for it. The four errors after which the card is not as it was are
  named in the property.
* `NoStateSkipped`, `IrreversibleIsTold`: `set_card_status` decides on a state
  the caller may have read long ago.
* `NeverLockedOut`, `ActiveKeysetKept`, `CleanKeys`, `KeysComeBack`: through any
  three faults, on compliant and on quirky cards, some known keyset can be
  addressed; a session never deletes its own keyset; a cleanup that reports
  success has restored the original keyset and removed the demo ones; and
  repeated runs get to such a cleanup.

### Bounds

Channel: two sets of keys (a stale session beside a new one), three commands
per set including EXTERNAL AUTHENTICATE (so that R-MAC chains and gaps occur),
two slots per table over PC/SC (aliasing needs a second) and one over jcsim
(the table can be full), one GET DATA probe, a backlog of two left by timeouts
(`Timeout` is allowed with at most two APDUs outstanding). `MaxKeys`,
`MaxCommands` and `MaxBacklog` are bounds of the model, not of the code; the
proofs hold for all of them. The two `Ops` of `channel_pcsc` are
interchangeable; the symmetry is used with safety properties only.

Stream: bytes are bits and a length has three, so that payload bits read as a
length give each case: short, longer than what follows, above `RAPDU_MAX`, above the
ceiling. Three calls (one cut, one misread, one more), one reset, a timeout of one
tick.

Opening: tables of four variants, three keysets, three keys, with cards that
fill and overflow each; `i` parameters with and without S16, pseudo-random
challenges and R-MAC; two commands per channel, enough for the second to meet a
chain the first left; field sizes at which an Lc, a block of padding or an APDU
fills up. The theorems of section 4 have no such bounds.

Inventory: limits of two SDs, one applet, one load file, two TLVs, three pages of
two bytes, so that each limit is reached by registries of one more entry; every
application scope of up to three entries of any kind, every load-file scope of
up to two. Pages of two bytes against entries of one, two and three put a
boundary at each place of an entry.

Load: blocks of four bytes, three of them, a header of two, a ring of four;
components of 0 to 9 bytes, stored and compressed, in directories that list them
in order, in another order, twice, among other files, or with sizes that lie.
Components exceed block and ring, end exactly with either, and the total exceeds
the limit.

Content: one SSD, two applets of one package, one key version and two keysets;
the constraint `Focus` lets objects and keysets change on a card left SECURED and
the life cycle on a card left untouched, since no workflow relates the two.

Life cycles: three faults (`MaxFaults`), which interrupt a run, its cleanup and
the next run's cleanup; the factory keyset at the simulator's version, at 255
(no selector) and at a demo version; `SCLL_ISD_KVN` unset or set. `Refusals` is
empty: a card that may refuse for ever ends nothing.

### Fairness

`CardChannel!FairSpec` assumes that while a workflow waits something ends the
wait: an answer is read, or `transmit` returns an error ("per-APDU timeout
owned by the transport", `transport.rs`), which `TransmitReturns` shows of jcsim
from `JcsimStream!Fairness`: the caller's thread runs and time passes, and nothing
is asked of the bridge. It does not assume that a card answers. `CardInventory!FairSpec` and `LoadPackage!FairSpec` assume that the
library's own loop keeps running, given that each exchange returns; which
outcome an exchange has is never assumed. `DemoSpec` assumes that a started
program goes on (weak fairness of `Work`, every exchange returning as above) and,
for `KeysComeBack` only, that somebody keeps running isd-lifecycle without
`SCLL_KEEP` (strong fairness of `Rerun`: other runs may come between): the
property is about repeated runs and says nothing of a card nobody touches again.
Which answer an exchange gets, where faults strike and how a run is configured
are never assumed; faults are bounded in number.

## 4. Proofs

TLAPS proves thirty-six theorems a reader should know of, each for every value of the
constants its modules declare, under the assumptions named there.

**`CardChannel_proofs`**: any number of slots, commands,
keys and backlog, on both transports.

* `TypeCorrect`: `Spec => []TypeOK`.
* `EndsInStep`: `Spec => []InStep`.
* `OrderIsKept`: `Spec => []ExecutedInOrder`.

`ExecutedInOrder` is not inductive: that the card accepts a command only if it
is the next one follows from what its chain and the command's chain are prefixes
*of*. `InStep` adds what is needed: a slot's chain is exactly what was issued
under its keys and no two slots share keys (`SlotsInStep`); the card's chain is
exactly what it executed (`CardInStep`); every secure command on the link
carries a prefix of what was issued, and every INITIALIZE UPDATE on its way has
keys the card has not used (`RequestsInStep`); a handshake under way has keys
nobody has used (`HandshakeFresh`). A secure command the card accepts extends
its chain by one and is a prefix of `issued`, so `executed` stays one. TLC
checks `InStep` in `channel_jcsim` with late answers, the harder transport.
Assumptions: `SlotsAssumption`, `OpsAssumption`, `BoundsAssumption`.

* `HandleIsKept` (`HandleKeepsItsKeys`), `TearDownIsFinal` (`BrokenStaysBroken`),
  `OrphansAreCounted` (`OrphansAccountedFor`).

`HandleKeepsItsKeys` is not inductive: between `derive_session` and the answer
to EXTERNAL AUTHENTICATE the keys are the handshake's, and while a command is
under way a failure frees the slot by the handle of that exchange. `SlotsKept`
follows the keys through both: keys torn down were drawn before and no slot
holds them (`BrokenWereDrawn`), the handshake's slot has the level asked for
(`HandshakeKept`), a command was wrapped by the retained slot (`ExchangeKept`).
That two slots never share keys comes from `InStep`. `OrphansAccountedFor` needs
only the types: each step adds at most one slot to those in use by nobody, and
`lost` counts it. Same assumptions as above.

**`Framing_proofs`**: any set of cards, limits, `i` parameters, versions, levels
and field sizes within the bounds of their fields.

* `TypeCorrect` (`FramingTypeOK`), `TermsAreKept` (`AgreedParameters`),
  `CommandsAreRead` (`CardReadsTheCommand`), `AnswersReachTheCaller`
  (`AnswersAreRead`), `EveryBlockFits` (`LoadBlocksFit`), `CardIsTold`
  (`DiscoveryTellsTheCard`).

What the ends agree on is settled in three steps, so `Terms` follows it from the
INITIALIZE UPDATE answer on. What the card reads depends on what was wrapped one
step before and what the caller reads on what was answered: `OnItsWay` says that
the bytes on the wire are the wrapping of the pending command by the session as
it was, `Said` that the reply is the card's answer by the session as it is;
`InStep` relates the two counters stage by stage. The rest is arithmetic on
padding (`pad80` adds at least one byte and ends on a block), in lemmas of its
own. Assumptions: `FramingAssumption`, `MaximaAssumption`.

`CardIsTold` has an invariant of its own, `ToldInv`: which fields of the CardInfo each
exchange has filled in, and that later ones leave them. The work is in
`parse_key_information`, which pushes keys one by one under versions that may come in
any order. `Sorted` says of the first `n` keys that each version has one keyset, that it
holds the pairs listed under it so far in their order, and that a version without a
keyset has none; `PushKeepsSorted` goes from `n - 1` to `n` in the two cases of `push_key`,
and `AllSorted` counts up to the end of the template. `KeysUpTo`, `KeysetsUpTo` and
`UnderUpTo` are recursive functions for this, where a fold and `SelectSeq` would say the
same. Assumption: `TemplatesAssumption`, that a template is a sequence of `C0` entries
with an identifier, a version and types. The filter for usable variants is left as it is.

**`ContentManagement_proofs`**: any domains, applets, keysets, requests, refusals and
initial cards.

* `ContentTypes` (`TypeOK`), `ReportsAreTrue` (`ReportIsTrue`), `ErrorsAreTold` (`ErrorsSayWhatTheyLeave`),
  `StatesAreNotSkipped` (`NoStateSkipped`), `IrreversibleToldAlways`
  (`IrreversibleIsTold`); the last four follow from `Inductive`.

The properties speak of calls that have returned. `SoFar` says what a call has
done before the exchange it waits at (of `delete_applet`, the first DELETE).
`Allowed` says that SET STATUS is only on its way after `check_transition` allowed
it from a state that `Fits` the card: what was learnt earlier may be stale, but
from OP_READY a card leaves for good and a locked one is unlocked to SECURED or
terminated, and that is all the properties need. The types need the invariant too:
PUT KEY and DELETE [key] go to the session's own domain, which is one because no
such call waits without a channel (`TypedInv`). Assumptions: `NamesAssumption`,
`KvnsAssumption`, `RefusalsAssumption`, `CardsAssumption`, `RequestsAssumption`.

**`ChannelAnswers_proofs`**: the constants of the other channel modules.

* `OpenedIsAuthenticated` (`OpenedMeansAuthenticated`), `AnswersAreOwn`
  (`AnswerBelongs`), `ChannelIsOrdered` (`ImplementsOrderedChannel`).

Both invariants speak of answers that have been read, and say nothing of those
still on the link, which the next step reads. `AnswersKept` adds them. There are
three ways to know whose an answer is: its R-MAC, when the session has one,
covers the chain (`AnswersSay`); the answer to a fresh host challenge is the last
thing on the link, so that EXTERNAL AUTHENTICATE goes out on an empty one
(`CaughtUp`); and without late answers there is never more than one request or
answer on the link (`OneExchange`). The refinement has the hypothesis
`~ LateAnswers`, because on a stream without R-MAC a late "ok" may be believed, which
is how the code behaves (`AnswerBelongs` says so with its cases). Each step of
`Next` is an issue, an execution, a return or a stutter of `OrderedChannel`; the
liveness of the channel is not part of it. TLC checks `AnswersKept` on both
channel configurations.

**`LoadPackage_proofs`**: any set of CAP files, any sizes of header, window and block,
any limits of the parser.

* `LoadTypes` (`TypeOK`), `FreshBlockNumbers` (`BlockNumbersAreFresh`),
  `PendingIsKept` (`RingKeepsPending`), `CardIsGivenTheFile` (`CardGetsTheFile`),
  `DoneIsLoaded` (`DoneMeansLoaded`).

The streamer takes bytes from three kinds of sources and cuts them into blocks
without regard to where a component ends. `LoadInv` counts them together:
`Covered` is what the directory declares of what has been handed out, the block
being filled starts at `blocksSent * BlockBytes` of it unless a component ended
early, and then nothing follows (`BlocksCounted`, `Stuck`); within a component
`StreamerKept` bounds what waits in the ring. This holds however the directory
lies, and gives the first three theorems. For a well-formed CAP `TransferKept`
adds that the card and the block together have a prefix of the load file, which
`LaidOut` gives position by position from the table that `walk_zip` made.
`DeclaredUpTo`, `WalkUpTo` and `FileUpTo` are recursive functions; that they are
defined, and what holds of each value, is shown by the least counterexample
(`CountingUp`, from the well-foundedness of `<` on `Nat`), which needs no
operator parameter. Assumptions: `ZipsAssumption`, `CapLimitsAssumption`,
`SizesAssumption`.

**`JcsimStream_proofs`**: any base, length of the prefix, limits, timeout, commands
and answers.

* `AnswersAreWhole` (`AnswerIsWhole`), `UpIsAligned` (`LinkUpMeansAligned`),
  `WaitsAreBounded` (`WaitBounded`).

`Aligned` says what is on the connection while a call reads: as long as no call
has ended inside a frame it is the command just sent, or bytes of the answer to
it that go on where the reads have got to, or nothing. It needs that
`from_be_bytes` reads back what `to_be_bytes` wrote (`BytesReadBack`), which is
shown digit by digit, also by the least counterexample. `Waits` adds up the clock
of a call byte by byte. Assumption: `StreamAssumption`; its only clause about
the code's numbers is that MAX_FRAME can be written in a prefix.

**`CardInventory_proofs`**: any registries, any limits of pages, bytes and lists.

* `InventoryTypes` (`TypeOK`), `PrefixesAlways` (`ListsArePrefixes`), `ReportIsWhole`
  (`NothingMissingSilently`), `MalformedIsTheCards` (`LimitsAreNoErrors`).

The lists are filled from a buffer that these properties say nothing of. `ReadInv`
says that the buffer is what the card's stream begins with, as far as the card
has served it, and that its checkpoint parses; `ListInv` of which scopes each
list holds entries by now, and that they begin what is expected of each;
`WholeInv` that as long as nothing was cut short or thrown away a buffer to be
stored is the whole stream, and the lists hold all of the scopes passed. What a
beginning of a stream parses to is the first entries of its scope
(`EntriesBegun`): the stream is followed byte by byte (`Laid`), and with it how
many first bytes have been met. Selecting the entries of a sort preserves
beginnings (`SelectionsStart`), so a prefix of the stream becomes a prefix of the
list. `Selection` is `SelectSeq` as a recursive function, since the provers
cannot expand the one of the standard module. Assumptions:
`RegistriesAssumption`, `LimitsAssumption` (of which the bound on MAX_STATUS_SCOPE_BYTES is
not needed).

**`DemoLifecycles_proofs`**: any cards, factory keysets, configured key versions and
number of faults; on top of the invariant of `ContentManagement`.

* `DemosKeepTypes` (`DemoTypeOK`), `ActiveKeysetIsKept` (`ActiveKeysetKept`),
  `NobodyIsLockedOut` (`NeverLockedOut`), `CleanedMeansClean` (`CleanKeys`).

Between runs nothing is known but the last: a run starts from whatever an earlier
one, killed anywhere, has left. Within a run the invariant follows the script in
three layers. `Placed`: where the run is, and that the call or result in hand is the
one its instruction asks for. `KeysInv`: with which keyset the session authenticated
and that the card still holds it (`InUse`), which demo versions are gone (`Swept`),
what an answer not yet acted on has shown (`Heard`), and that isd-lifecycle takes no
demo version for the original's (`Apart`, for which its guards 1 and 2 are needed).
`CalmInv`: in a run without a fault, that the session stays in step until the applet
is deleted and that nothing brings it back. The theorems state what they ask of the
constants beyond the modules' assumptions:

* `KeysApart`: the original keyset is none of the two demo keysets. With equal values
  path A cannot tell which it has authenticated with. (All but `DemosKeepTypes`.)
* `NotFoundIsTrue`: a card does not answer 6A88 for what it holds; `delete_keyset_tolerant`
  relies on it. (Likewise.)
* `Addressable(c)` of every initial card: the card comes with a keyset the programs know,
  at a version up to 127 or selected by 0; otherwise there is nothing to keep.
  (`NobodyIsLockedOut`.)
* `Refusals = {}` and `Applets = {App}`: the applet's deletion is best effort, so a card that
  refuses it keeps it, and only the demo's own applet is deleted. (`CleanedMeansClean`,
  for its second half; the run has both.)

Every invariant the runs check is proved, the type invariant of `ContentManagement`
within that of the demo programs. Only model-checked: all liveness (`WorkflowsReturn`,
`TransmitReturns`, `ScanEnds`, `LoadEnds`, `KeysComeBack`), which is out of the prover's
reach.

## 5. Disagreements found

Each is a run that expects a violation, with the sentence it contradicts in
`PROJECT.json` "findings":

* `parts_free`: slots left behind by failed or repeated opens (`manager.rs:161`).
* `level_in_force`: a stale handle that names another open's slot (`scp/mod.rs:26`).
* `inventory_6a88`: entries discarded on a late 6A88 (`card_status.rs:247`).
* `load_reported`: a load reported as done without its last block (pdd line 674).

Met while reading and not given a run:

* Sizes. pdd and the header of `ssd.rs` speak of 240-byte LOAD chunks where
  `LOAD_BLOCK_DATA` is 223. `push_tlv` writes one length byte, so install
  parameters of 128 bytes and more get a length no card reads as meant.
* Inventory. A scope that never parses is reported as truncated where pdd's error
  table says `MalformedResponse`; the modules of a load file are cut at
  `MAX_MODULES_PER_ELF` without a warning (`response.rs:387`); with a partial AID
  the ISD is listed twice (pdd line 1237).
* Life cycle. `WarningKind::UnknownLifecycleByte` is documented and never raised;
  `irreversible` is set for a no-op to SECURED or INITIALIZED, and for a card
  unlocked on stale knowledge.
* Errors. 6A88 on SET STATUS is documented as `IsdAidNotFound` and mapped to
  `Card`; the `SessionNotIsd` pre-flight is never made; AIDs that are only
  reported are validated after the card has acted.
* Discovery. An empty list of variants is documented as `ScpProtocolUnsupported`
  (`response.rs:149`) where `discover_card` assumes SCP02; a missing IIN, CIN or
  CPLC raises no warning, and a status other than 6A88 on them fails discovery.
* Backend. `scp03.rs:31` says that every capped level has C-MAC; `cap_security_level`
  lets levels without it through. Both wraps lose the Le of a Case 2 command.
  The comment on `MAX_SESSION_SLOTS` says that closing does not free a slot, and
  it does. `NewKeyset.kind` is not compared with its handles.
* CAP. A compression method that is neither stored nor deflate is streamed as
  if stored.
* Timeouts. The jcsim timeout holds for each read of the socket and not for the
  call (`transport.rs:19` "Per-call timeout enforced inside", jcsim `lib.rs:38`):
  an answer in pieces is waited for longer. `WaitBounded` is what holds instead.
* Cleanups. `delete_applet` stops at the absent instance, so a run cut between
  LOAD and INSTALL leaves a load file that no cleanup removes, though
  `isd-lifecycle.rs:45` promises "applet + ELF deleted"; on the SSD side the same
  leftover makes `delete_ssd` answer 6985, which is passed over, and `create_ssd`
  fail with `AidAlreadyExists` in every later run.
* isd-lifecycle. The comment at 519 says that Add replaces the active demo
  keyset, its header that only the factory keyset is replaced; path B after a
  transient failure on a compliant card with its keyset at 255 leaves a second
  copy of the original keyset at 0x30.

## 6. Not modelled

* Cryptographic primitives, field contents of commands and the fields inside
  CPLC, CRD and recognition data: stateless, covered by vectors and fuzzing.
* The manager over a misaligned jcsim stream: `JcsimStream` says when it occurs,
  and `CardChannel` moves whole frames.
* The scan for the ZIP's end record, and inflate itself.
* Import and generation of keys beyond the number of table entries taken.
* BEGIN and END R-MAC SESSION, which no workflow uses.
* The other examples (one or two calls each), test support and fuzz targets.

## 7. Plan

1. A larger registry for `content` (an SSD with its own package) once a
   run of it stays within minutes.
