# Verification of libcanokey

libcanokey is a sans-I/O protocol library for CanoKey security keys. Every factory
of an applet crate builds an owned `Operation<T>`; the application calls `start`,
sends the pending physical command over a transport of its own, and hands each raw
response to `advance` until the operation is done. No library code performs I/O,
waits or runs in a thread. What is concurrent is the world around an operation: the
application that may cancel or drop it at any time, the transport that may lose a
response, and the card, which keeps its state while operations come and go.

This directory holds TLA+ modules that model the library, TLC configurations that
check them on small instances, and TLAPS proofs of the most important results for
every value of the constants. `PROJECT.json` maps each definition to the source
lines it stands for and lists the runs, mutants, hazards and theorems.

## 1. Inventory

| component | state | operations | what is hard, and what makes it correct |
|---|---|---|---|
| conversation engine (`canokey-protocol/src/operation.rs`, `apdu.rs`) | the frame in flight, the fragments left, collected data, continuation flags | `ConversationState::new`, `advance` | splits, chains, extends, corrects Le and collects pages, which interact: every frame fits the channel, an answer is the card's answer exactly, a command with effects is executed once |
| operation lifecycle (`operation.rs`) | machine, conversation, result, progress, error, two budgets | `start`, `advance`, `cancel`, `take_result` | calls in any order, failure at any point: working state (which holds secrets) is released, budgets hold, the result leaves once |
| card and transport (external) | what the card executed and still has to send | execute, page, correct, refuse, break | responses lost after execution: nothing is reported that was not done |
| NDEF client (`canokey-ndef`) | step, offset, CC, length | read capability, read, write | crash between any two updates: no torn message; budget counted before the first write |
| Admin client (`canokey-admin`) | command queue, pending command, progress | some thirty requests in six shapes, two of them patches | patches of several writes that stop anywhere; progress and `reprobe_required` are true; the PIN table agrees with the firmware's |
| PIV client (`canokey-piv`: `access`, `management`, `protection`, `write`, `credentials`) | stage of the wrapper and of its target | authenticate, verify, credential commands, writes, rotation, PIN-managed check | rotation is two writes with an authentication between; blocking the PUK is a loop of guesses; a card without the key must learn nothing |
| PIV batches (`canokey-piv/src/batch.rs`) | request index, result bytes, progress | construct, run | failure in the middle: `failed_index` and results tell what the card has done; sessions end inside a batch |
| OATH client (`canokey-oath`) | phase, access | fourteen requests in three dialects | instruction bytes change meaning between firmware; mutual proof; calculations use up counters |
| OpenPGP client (`canokey-openpgp`) | queue of stages, access, expected algorithm | requests over data objects, keys, passwords | stale algorithm compared before a password is spent; which password a request needs |
| CTAP client (`canokey-ctap`: `credmgmt`, `largeblob`, `pin`, `config`, `ctap2`, `hmacsecret`, `u2f`) | loop counters, fragments; the caller's PIN session and token | make, use, list, change and delete credentials, large-blob read and write, PIN protocols, configuration, U2F | loops whose length the authenticator chooses; fragments of one write; sessions and tokens older than the authenticator's keys |
| CTAP encodings (`cbor`, `cose`, `authdata`, `status`) | none | encode, decode | conversions |
| PIV streaming and agreement (`streaming.rs`, `sm2_agreement.rs`) | step | sign in parts, agree | several commands on one card session |
| PIV encodings (`metadata`, `certificate`, `directory`, `private`, `keys`, `configuration`) | none | encode, decode | conversions |
| compatibility profile (`canokey-compat`) | an immutable snapshot | `capability`, algorithm tables | ranges of versions; every applet's gates rest on it |
| device probe (`canokey/src/probe.rs`) | step, observations | probe | optional reads across two applets |
| TLV codec (`canokey-protocol/src/tlv.rs`) | none | read, write | boundary lengths |
| key types (`canokey-key`) | none | none | value types |
| C ABI (`canokey-c`) | handles: operation, poison flag, stored error; the caller's error structure | 48 factories, start, advance, cancel, take, copy, free | a panic inside a call poisons the handle; one error structure serves many calls; arguments are checked in an order that keeps reads safe |

Interaction is by calls: an applet machine is driven by the operation
(`Machine::next`), which gives the machine's logical commands to a conversation; the
conversation's frames are the application's to send. A PIV machine wraps another
(access around target), a batch runs machines one after another, and every applet
asks the profile before construction.

## 2. Modules

```
Conversation --- Operation --- OperationLifecycle      (abstract dialogue)
                    |
               CardExchange --- OperationProofs         (application, transport, card)

Ndef --- NdefProofs      Admin --- AdminProofs    Oath --- OathProofs
Piv ------\
PivBatch --- PivProofs

LargeBlob --- BlobStore (abstract store)      ClientPin      Credentials
         \-------------------------------------------\---------------\--- CtapProofs

Profile --- Probe ----\              CFactories --- CCreate ---\
       \--- OpenPgp --- ProbeProofs             \--- CAbi --- CProofs
```

The applet modules take one logical command and its answer as one step. That this is
what the conversation engine provides (executed at most once, in order, with the
exact answer, and an unknown effect when it is broken off) is what is proved of
`CardExchange`. Each applet module lets any operation end at any command, with that command
executed or not.

**Conversation** gives `ConversationState::new` and `advance` as operators on
values: `MaxShort`, fragments, extended encoding, the Le correction (6Cxx), ISO 61xx
paging and the two OATH continuations with their speculative poll. Payload bytes and
headers are abstract; every length is the real one.

**Operation** is `Operation<T>`: `Start`, `Advance` (split by what the conversation
made of the response), `Cancel`, `TakeResult`, with the exchange and response budgets
and the progress an error keeps. The applet machine is arbitrary: at each turn it
issues any command of `MachineCommand`, finishes or fails. Getters change nothing and
are not actions.

**OperationLifecycle** is the dialogue that a caller may rely on, without frames,
machines or budgets. `Operation` refines it (`ImplementsLifecycle`).

**CardExchange** composes `Operation` with the `Sequence` machine of a script, an
application that may cancel, a transport that may break and a card that executes a
complete command once, pages its answer, corrects Le or refuses. Script, card dialect
and whether anything may go wrong (`calm`) are chosen at the start.

**Ndef** models `read_capability`, `read_message` and `write_message` with `ReadMachine`
and `WriteMachine`. The file outlives operations; an update that is broken off may
have written any part of its chunk. **Admin** models the queue machine of
`operation_with_access`: access policies, targets by shape, `Admin::patch` and the SM2
patch, progress, `reprobe_required`. **Piv** models `AccessMachine`, management
authentication (single and mutual), `RotateManagement`, `PinManaged` and the
credential commands. **PivBatch** models `Batch` construction and execution. **Oath**
models `oath::operation` and the `Oath` machine in the dialects of firmware 1.3 to 3.1,
with the parsing of responses.

**LargeBlob** models `read_array`, `read_chunk` and `write_array`: chunk sizes from the
budgets, one `get` or `set` message per fragment, each with its own MAC. The
authenticator keeps to the documented protocol or, if `faulty`, answers reads with
substrings of any length. **BlobStore** is what an application may rely on: one array,
replaced whole or, by a write that failed, whole or not at all. **ClientPin** models
key agreement, `set_pin`, `change_pin`, both token requests, the configuration commands
and the hmac-secret input under both PIN protocols. The application passes on the last
session and token it got, and the authenticator renews its keys when it is unplugged
or a PIN is wrong. **Credentials** models `make_credential`, `get_assertion`,
`get_next_assertion`, reset, selection, credential management with its enumeration
loop, and U2F; a response is the set of fields it carries, and the parsers are the
fields they ask for. The token in force is given there; how tokens come about is
`ClientPin`'s subject.

**Profile** is `canokey-compat`: versions, the capability table with its evidence and
the algorithm tables, as operators. **Probe** models the probe's stages and checks the
resulting profile against the device. **OpenPgp** models `openpgp::operation` and its
machine for every request: preflight by profile, the password a request needs, the
queue of SELECT, metadata, authentication and targets, and the comparison of results
with the algorithm observed.

**CFactories** gives each C factory as the kind of operation it makes and the sequence
of its checks, in the order in which the code evaluates them; `create` finds the first
that refuses. **CCreate** is one call of any factory, **CAbi** sequences of calls on
handles: `cnk_operation_*`, every getter by its checks, the profile functions, the
poison flag and the error structure. A panic is a choice at every place where the code
catches one.

Cryptography is abstract throughout: only the holder of a key computes a proof with
it, and a ciphertext under another key decrypts to nothing that anybody issued. Where
mutual authentication matters (`Piv`, `Oath`) the card may be one that does
not hold the key and answers anything.

Definitions whose comment begins with "Faulty:" are variants with a plausible
bug, one for each property of each run; the property must fail when the variant takes
the place of the definition that follows it.

## 3. Runs

| run | bounds | shows |
|---|---|---|
| `operation` | 8-byte commands, 4-byte responses, ten kinds of machine command, 7 exchanges, 5 response bytes | release of working state, channel and budget bounds, termination, refinement |
| `card` | a corrected read and a chained command on ISO cards, SELECT and LIST in both OATH dialects, answers of 0 to 4 bytes, 12 exchanges, calm or not | `ExecutedInOrder`, `ExactReplies` with losses, refusals, cancellation; `Completes` without them |
| `ndef` | file of 3 bytes, read chunk 2, write chunk 1, 8 exchanges, a card that pages or not | no torn message, true outcomes, a budget that suffices unless the card pages |
| `admin` | three configuration layouts, NFC status public or behind the PIN, two PINs, two attempts, 5 exchanges | patches are prefixes, progress and reprobe are true, one attempt at most, the gate is respected |
| `piv`, rotations | two keys, two PINs, every access policy, every state of ADMIN DATA and PRINTED, genuine card or not | an interrupted rotation stays repairable, success is true, mutual proof comes first |
| `piv`, PUK | retry limit 15, PUKs that the first, second, last or no guess hits | the PUK loop ends below its limit, only with authority and after the proof |
| `piv_batch` | all batches of up to 3 of ten requests, longer ones around a retry reset, 6 exchanges, 3 result bytes | results and `failed_index` are true, the card is ready for every request |
| `oath` | two accounts, two keys, counters to 2, five firmware generations, every request | targets reach only the holder of the supplied key, mean what was asked, report what is so, and use one counter value |
| `blob` | arrays of 2 to 5 items, fragments of 1 to 3, 4 or 8 exchanges, a right and a wrong token, documented or faulty authenticator | the store is one array (`ImplementsBlobStore`), refusals are the caller's, every operation ends |
| `ctap`, PIN | three PINs, both protocols, 4 attempts, 2 agreement keys, 2 tokens, firmware with and without permissions | settings and tokens are what is reported, a rejected MAC or a lost attempt has its cause |
| `ctap`, credentials | 3 credentials of 2 relying parties, a current and a stale token, announced totals 0, 2, 5 or right, 5 exchanges | enumerations are complete and fit the budget, outcomes are true |
| `probe` | ten firmware texts of every series, seven identifier layouts with either flag | a fresh profile authorizes only what the device does |
| `openpgp` | four firmware versions, passwords of 1 and 2 blocks, 2 operations in a row | the password table agrees with the card, no attempt is spent on what cannot succeed, outcomes are true |
| `c_abi`, factories | 48 factories, all options and access forms, input within or beyond the budget, one other argument wrong | reads and PIV payload copies come after their checks, a handle stands for its arguments |
| `c_abi`, handles | one operation handle at a time, a probe or a batch, two profiles, one error structure | the error structure is about the last call, a poisoned handle is sealed |

`piv`, `ctap` and `c_abi` each choose one of two worlds at the start (`world` in the
MC module); nothing passes between the two.

Why the bounds are enough. A channel of 8 bytes makes commands of 1 to 6 data bytes
fall on each side of every split (no data, exactly full, one over, several fragments,
too long). Answers of 0 to 4 bytes on a channel of 4 give none, one and several pages.
Budgets are chosen so that they run out inside chains, pages and corrections. NDEF
messages of 0 to 3 bytes need up to two reads and three writes; 8 exchanges are one
too few for the longest write, so that construction must refuse it. Applet runs do not
bound the number of operations: a card goes through all sequences of requests, so
every state that earlier, interrupted operations can leave is a starting point. The
PUK retry limit is the real maximum. Firmware is taken from each range in which some
OATH capability differs. Large-blob arrays fall on both sides of a multiple of the
fragment and of the read limit. Four PIN attempts are one more than the three that
call for a power cycle; two keys and two tokens make every pair of old and new. With 5
exchanges an enumeration has room for three GetNext commands: a total of 5 is refused,
3 fits, and an answer in two pages runs out. OpenPGP needs two operations because a
password changed, an algorithm rewritten or a slot selected by one matters to the next
(`MaxOperations`). Counters are capped by `MaxCounter`, attempts by `MaxPin`,
`MaxRetries`, `MaxTries` and `PukLimit`, exchanges by `MaxExchanges` and
`ExchangeLimits` or `CredExchanges`, batches by `MaxBatch`, keys, tokens and credentials by `MaxEpoch`,
`MaxSerial` and `MaxIds`, profiles by `MaxProfiles`.

Deadlock is checked except in `operation`, `card`, `openpgp` and `c_abi`, where the
operation, the last of the operations allowed or the one call really ends and nothing
follows.

Fairness. `Operation` assumes weak fairness of `Start` and of the answer to an exposed
command: an application that keeps going. `card` assumes it of the application and the
card together (`GoOn`), and promises completion only for calm runs. `piv` and `blob`
assume that the application hands every response to the operation. The library has no
scheduler, so these are assumptions about its user; every safety property holds
without them.

### What the properties say

`WorkingState`: machine and conversation exist exactly while the operation can use
them, result, progress and error exactly where the API exposes them. `WithinLimits`:
each exposed command fits, and what is kept was paid for. `ExecutedInOrder`,
`ExactReplies`: the card executed a prefix of the script, once, and at least what the
host takes for confirmed; the machine got the card's bytes.
`NoTornMessage`: a reader sees nothing, the old message or the new one, at every
moment. `OutcomeReal`: a completed read or write agrees with what the file shows, and
a read took no more than a valid CC allows, whatever stood in NLEN. `BudgetSuffices`: an
accepted write does not run out of exchanges unless the card pages. `ProgressTold`, `PatchInOrder`: what the application is told of an Admin
patch is enough to know the device, and every check comes before the first write.
`Authorized`: the PIN table agrees with the firmware's gate, and an operation costs at
most one attempt. `RotationRecoverable`: PRINTED holds its old key or the card's key,
and the key of a protected card is replaced only after PRINTED was found to hold one.
`WritesAuthorized`: the write of PRINTED comes after an authentication with the new
key. `CredentialsGuarded`: PIN and data do not go to a card that failed the mutual
proof, and no rejected credential is presented again; with one PIN attempt on the card
(`MaxPin`) the run cannot count a second one, and that clause rests on the theorem.
`AttemptsSuffice`, `PukAfterProof`, `DoneIsTrue`: the PUK loop. `ProgressIsTrue`, `ReadyForCard`: batches.
`AccessMatches`, `IntentKept`, `OutcomeTrue`: OATH.

`ImplementsBlobStore`, `RefusalExplained`: large blobs. `PinOutcomeTrue`,
`CredentialOutcomeTrue`: success means done, refusal means unchanged, and only a lost
or unreadable answer leaves doubt; what is taken for a token was issued.
`RefusalsExplained`: MACs are refused only for a stale session or token, and a PIN
attempt is lost only to a wrong PIN or by a token request in a stale session; changing
the PIN in a stale session costs none, because the MAC is checked first.
`EnumerationTrue`: listings. `AuthorizedIsTrue`, `ExtensionsTrue`: a profile that is
fresh. `PasswordsExplained`, `OutcomeTrue`: OpenPGP. `InputsReadSafely`: the selection
bit is read only from a structure found long enough and valid, and a PIV payload is
copied only within the input budget. `MadeAsAsked`: a handle stands for right arguments,
and input beyond the budget gets into one only where the library alone bounds it.
`ErrorTrue`, `PoisonSealed`: the C ABI.

### What modelling brought to light

None of these breaks a property; a reader of the code may want to know them.

- `ReadArray` counts its remaining reads down to zero itself, but starts one above what
  the exchange budget leaves: the operation's budget always ends the loop first.
- A call of the C ABI that is refused for a NULL `out` or `step` pointer returns before
  the error structure is cleared: the structure then still describes an earlier call.
  `ErrorTrue` is therefore about calls that came to the structure.
- A bad object tag or algorithm configuration given to a C factory is reported as
  `InvalidResponse`, hence with the code PROTOCOL and not INVALID_ARGUMENT.
- `docs/design/api-design.md` says that poisoned operations can only be freed.
  `cnk_operation_cancel` does not look at the flag and returns OK on a poisoned handle;
  the operation was cancelled when it was poisoned, so that nothing changes.
- `docs/design/api-design.md` has mutation factories of the C ABI check the budget before
  they copy object or certificate payloads. The PIV factories do (`piv_input`). Those of
  OpenPGP (`openpgp.rs:114`), OATH (`oath.rs:102`) and Admin (`admin.rs:153`) copy the
  data of a request whatever their length, and only the library bounds them afterwards.
  `InputsReadSafely` is therefore about PIV payloads (`Payloads`); the other copies are
  in `Copies` and are tried with input beyond the budget too.
- A token request in a stale session costs a PIN attempt, since the authenticator can
  tell a wrong key from a wrong PIN only where there is a MAC. Applications should
  renew the session after a power cycle and after a rejected PIN.

## 4. Proofs

Eight modules hold theorems. Each proves an inductive invariant with one step per
action and takes the properties from it. The assumptions on constants are those the
constructors and the value types of the library establish; TLC evaluates them in the
runs of their modules.

**OperationProofs**, for every channel, budget, machine and response, from
`OptionsAssumption` (what `OperationOptions::validate` requires: commands of at least
5 bytes, responses of at least 3, positive budgets) and `MachineAssumption` (commands
are well formed): `TypeCorrect`, `WorkingStateHolds`, `LimitsHold`,
`LifecycleRefinement`.
`WithinLimits` is not inductive: it needs that every fragment still queued fits, and that
a correction or a page request asks for no more than a response carries. The
refinement follows from the working-state discipline: an abstract step's guard is a
statement about what the operation holds.

Its second half, about `CardExchange`, is for every script, reply, card dialect and way of
paging, on top of the first and from `ScriptAssumption` (a script is not empty, its commands are
encodable and do not set the chaining bit themselves; what a card that does not mark its
last page sends in pages is polled for more): `CardInOrder` (`ExecutedInOrder`) and
`CardExact` (`ExactReplies`). Neither is inductive: whether the card executes a command
once depends on where it stands inside a chain. `CEInv` therefore relates the three
parties at every moment: `Sends` (the conversation's current frame is the i-th of the
command, and the card has the data of the i - 1 before it), `Pages` (what was collected
and what the card still holds make up the reply), `Told` (what each possible response,
seen in flight, says about the card), and `Counted` (the card is at most one command
ahead of what was confirmed, and only the last response can be a refusal). The lemmas
on frames say that the fragments of a command, put together, are its data, for every
channel size. With this the one-step view of a command that all applet modules take is
proved, not assumed.

**NdefProofs**, for every file size, message and pair of chunk sizes, from
`NdefAssumption`: `CrashConsistency` (`NoTornMessage`) and `OutcomesAreReal`
(`OutcomeReal`). The invariant adds to these that each step belongs to its operation
(`StepOwner`), that offsets are fresh before a loop (`Fresh`), and the loop invariants
`WriteProgress` (with the length cleared, the file holds the first `offset` bytes of
the message) and `ReadProgress` (the bytes read are a prefix of what the file shows,
which NLEN keeps within the limit of a valid CC).
`BudgetHolds` (`BudgetSuffices`) has an invariant of its own, `BInv`: on a card that
does not page, the exchanges used and those still to come, counted from the step and the
bytes left, stay within the budget. It rests on lemmas about `Chunks`, the rounded-up
quotient, of which the one that matters is that a chunk of full size lowers it by one.

**AdminProofs**, for any cards, requests, PINs and retry counters, from `AdminAssumption`
(settings have their types, requests are well formed): `AdminProgress` (`ProgressTold`),
`AdminPatch` (`PatchInOrder`), `AdminAuthorized` (`Authorized`). The invariant says what
the queue holds at each stage (`Left`), that before the first write the card is as the
operation found it and past VERIFY the PIN was right (`Running`), and, for a patch, that
the card is the old one with the settings before the pending one replaced while the
queue holds exactly the writes of the later ones (`Patching`). The last part is what
makes a patch that stops anywhere a prefix.

**PivProofs**, for any keys, PINs, PUKs, cards and requests, from `PivAssumption` and
`RequestAssumption` (retry limits are positive nibbles, requests are well formed):
`RotationHolds`, `DoneHolds`, `PukHolds`, `AttemptsHold`, `WritesHold`,
`PivTypeCorrect`. The parts of the invariant are `Owner` (a stage belongs to its
request), `Frame` (what cannot have changed since the operation began), `Rotating`
(which key card and PRINTED hold at each stage of a rotation), `Session` (when the card
is authenticated), `Guarded` (what the PIN-managed check has proved so far) and
`Guesses`. The last one is why the loop limit of 32 suffices: until a guess hits the
PUK, guesses made and attempts left add up to at most `PukLimit`; a hit replaces the
PUK by the caller's, refills the counter once, and later guesses differ from it, so
that the sum stays at most 2 * `PukLimit`, which is at most 30.
`CredentialsHold` (`CredentialsGuarded`) adds `Spared`: only a proved key leads past the
authentication, and until the PIN or the credential is presented the counters are as the
operation found them, so that each can fall by one at most.

Its last part, for every batch and limit, from `BatchAssumption` (each request takes
at least one command): `BatchProgress` (`ProgressIsTrue`) and `BatchReady`
(`ReadyForCard`). The invariant ties the constructor's two flags, computed over the list
of requests, to the sessions on the card at the request that is due (`Tracked`).

**OathProofs**, for any applets, keys, requests and response limits and for every firmware
of a known dialect, from `OathAssumption`: `OathAccess` (`AccessMatches`), `OathIntent`
(`IntentKept`), `OathOutcome` (`OutcomeTrue`). A running operation was accepted by the
constructor and has not changed the applet before its target (`Running`); a legacy applet
has no key (`Keyless`). `IntentKept` follows from the acceptance alone, by cases on dialect
and request. `OutcomeTrue` needs that the parser reads an entry as what the applet wrote,
for lists of any length.

**CtapProofs** has a part for each of the three CTAP modules, which have no name in
common and can therefore be extended together.

Large blobs, for any arrays, fragment sizes, tokens and budgets, from
`LargeBlobAssumption` (a new authenticator's array is sealed; sizes and limits are
positive) and `NothingAssumption` (None is no value): `BlobRefusals` (`RefusalExplained`)
and `BlobRefines`, that `LargeBlob` implements `BlobStore`. The invariant: what was read
is a prefix of the stored array (`ReadsOn`); the messages left carry the array to its end
without a gap, and the authenticator has collected exactly what the first of them
continues (`Carries`, `WritesOn`). Both theorems are about documented authenticators:
nothing is promised of a faulty one, and the mapping lets its store rest.

Credentials, for any credentials, calls, budgets and announced totals, from
`CredentialsAssumption` (totals are unsigned, None is no number, the operations are the
known ones): `EnumerationsTrue` (`EnumerationTrue`) and `CredentialOutcomes`
(`CredentialOutcomeTrue`). The invariant of the GetNext loop (`Fetching`): the entries
received are the first of the listing, the card's cursor is at the rest of it, and the
commands sent and to be sent are those that the announced total calls for. That this
survives needs that no command of the loop changes the credentials, so that the listing
is the same to the end. The outcomes follow from one statement about every answer to
every message (`Faithful`): a success has left the credentials as promised and says what
is so, a refusal has left them alone, a MAC is refused only under another token, because
message and authenticator compute it over the same subcommand and parameters. The
outcome theorem is about one step each and rests on the invariant for what was accepted.

PIN, for any PINs, keys and tokens, from `ClientPinAssumption` (the operations are the
known ones, a new PIN is one of the PINs, and what a wrong key decrypts to is not the hash
of a PIN): `PinOutcomes` (`PinOutcomeTrue`) and `RefusalsAreExplained`
(`RefusalsExplained`). Here, too, each message is followed to the answer (`PinFaithful`).
The authenticator verifies a MAC if and only if the session's key is its own
(`SessionMac`); it then decrypts what the session encrypted, so that a mismatch of the old
PIN is a wrong PIN. A token request carries no MAC; but an authenticator that finds the
hash right has decrypted it, hence shares the key, hence the application decrypts the
token that was issued (`GrantFaithful`).

**CProofs**, for every call of every factory and every sequence of calls on handles, from
`CAbiAssumption` (no error has the code of no error; None is neither an operation nor a
failure): `FactoriesReadSafely` (`InputsReadSafely`), `FactoriesMakeAsAsked`
(`MadeAsAsked`), `ErrorsTrue` (`ErrorTrue`) and `PoisonedStaySealed` (`PoisonSealed`). The
first two are about `FirstRefused`, the least index of a refused check: a factory's steps
are put together from sequences in which no read of the selection bit and no copy of a PIV
payload comes before the check that makes it safe (`Guarded`) and every argument is checked that the operation rests on (`Proper`), and both
are closed under concatenation, so that each factory follows from its parts. The invariant
of the handles says what a handle may hold and that a poisoned operation is a cancelled
one (`AbiInv`).

**ProbeProofs**, for every firmware, serial and set of identifiers of a device, from
`ProbeAssumption` (a device has the shape that its answers have): `ProbeInvariant`,
`ProfileAuthorizes` (`AuthorizedIsTrue`) and `ExtensionsObserved` (`ExtensionsTrue`). What
a fresh profile holds is what the device told (`Told`), and what it told is the device's
(`Genuine`); during a probe nothing of the configuration is known before it is read, and
it is read only from a device that has one (`Probing`). That an authorized algorithm is
the device's rests on the identifiers: those of a configuration are neither fixed ones nor
shared (`ConfigSound`, `IdsDistinct`), so that no two algorithms have one identifier; and
on the release ranges of the capability table, which exclude each other (`Series`).

OpenPGP, for any profile, any requests in their types, any blocks passwords are made of and
any card, from `OpenPgpAssumption` (requests and cards have the shapes of their types, and
None is none of the values it stands beside): `PgpInvariant`, `PasswordsAreExplained`
(`PasswordsExplained`) and `OutcomesAreTrue` (`OutcomeTrue`). The invariant `PgpInv` says
that the queue is what the request's stages leave (`Staged`, with `Rest` as the queue from
a stage on), and what the stages that are over established (`Established`): the SELECT,
that the applet is not terminated; the metadata, that the algorithm kept is the slot's, the
one expected and supported; the verification, that the card holds the password verified;
SELECT DATA, that the slot named is selected. So no key request reaches a verification that
it could not use, and no target asks for a password that is not verified, but for a
TERMINATE without one. The lemmas say of every command what each answer of the applet
leaves (`CardAnswers`, one lemma per command), of two passwords sent together that the card
cuts them where the application joined them if the first is right (`Cuts`), and of altered
answers that they either are of the wrong form or make no difference (`TargetDone`).

Sums and sequences of unknown length (`PivBatch`, `Oath`) are reasoned about by the least
number at which a statement would fail (lemma `LeastMember`), a consequence of the
well-foundedness of the naturals that needs no operator parameter.

Only model-checked: liveness (`Terminates`, `Completes`), which is beyond the prover. Every
other property of the runs is a theorem.

## 5. Not modelled

Byte encodings of single commands and their decoding, CBOR and COSE, the TLV codec, the
status tables and cryptography keep no state between steps. Memory safety, zeroization,
the layout of structures and pointer validity in the C ABI are not expressible at this
level; `CAbi` assumes a caller that keeps the contract of the header. The card is
modelled only as far as the library's promises depend on it. Of the PIV client,
streaming signatures, SM2 agreement and the applet reset are missing (their C factories
are in `CFactories`); of the Admin client, the decoding of read data and the PASS and
keymap encodings. `ClientPin` and `Credentials` are not composed: a token's permissions
for credential management are taken as given.

## 6. Plan

1. `PivStream`: streaming signatures, SM2 agreement and the applet reset; the rest of
   the PIV and Admin requests.
2. `ClientPin` and `Credentials` composed over one token.
3. The TLV codec as operators against a reference.
