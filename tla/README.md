# A TLA+ model of go-ratchet

go-ratchet is a chat client with end-to-end encryption: a double ratchet, an
X3DH key agreement and a session protocol (`xochimilco`) on top of them, and a
client that keeps its sessions in files and exchanges messages through a message
bus. This directory models the part of it that has state, checks the models with
TLC on small instances, and proves the safety of the double ratchet, of the wire
format, of the state directory and of the running program with TLAPS for every
size.

`PROJECT.json` lists components, runs, mutants (deliberate bugs each property is
able to find), the source lines of every definition, findings, hazards and
theorems.

## The system

| Part | Source | What it keeps | Operations |
|---|---|---|---|
| Double ratchet | `doubleratchet/` | root key, two chains, counters, a ring of skipped keys | `CreateActive`, `CreatePassive`, `Encrypt`, `Decrypt`, `MarshalBinary`, `UnmarshalBinary` |
| Key agreement | `x3dh/` | nothing | `CreateNewSpk`, `CreateInitialMessage`, `ReceiveInitialMessage` |
| Session | `xochimilco/session.go` | identity key, prekey, two ids, a ratchet | `Offer`, `Acknowledge`, `Receive`, `Send`, `Close` |
| Wire messages | `xochimilco/message.go`, `doubleratchet/msg_header.go`, `pkcs7.go` | nothing | marshal, parse, seal |
| Session manager | `session/disk-session.go` | map from peers to ids, position in the inbox, one file per session | `ByName`, `New`, `Get`, `Put`, `Delete`, `Load`, `Close` |
| Client | `client/client.go` | pending acks (in the session files), handlers | `Chat`, `Send`, `Close`, `Input`, `SendSalty` |
| Bus driver | `client/driver-msgbus/` | nothing | subscribes to the inbox from a position on |
| Event logs | `session/mem/` | a log per peer | append, page |
| Front ends | `main.go`, `cli/`, `interactive/`, `ui/` | prompt, layout | call the client |

A user begins a chat (`Chat`); the client posts an *offer* with a signed prekey to
the peer's inbox. The peer's client makes a session and keeps the *ack* in its
file until its user begins a chat as well; the ack carries the first ciphertext
of the ratchet. After that, both send *data* until one sends *close*. Every call
of the client loads the session from its file, works on the copy, posts, and
writes the copy back, all under one mutex. The position in the inbox and the
map from peers to ids are written only at an orderly exit, to the *index*
`sess-<me>.json`.

A program is one command of `cli`, the line-based *chat* or the *ui*. The last two
have a thread that reads the inbox, a thread that runs what the user types, and a
main goroutine that writes the index in the end. Events (`OnSessionClosed` and so
on) are dispatched to handlers while the mutex is held.

## Modules

| Module | Models | Lines of code it stands for |
|---|---|---|
| `Ratchet` | package `doubleratchet` as operators on records: `dhStep`, `Encrypt`, `Decrypt`, `skipMsgKeys`, the key buffer, `Restored` (marshal, then unmarshal) | `doubleratchet/*.go` |
| `DoubleRatchet` | two ratchets in memory over a network that loses, repeats and reorders | users of the package |
| `RatchetProofs` | lemmas about one ratchet | |
| `RestoredRatchetProofs` | lemmas about a ratchet that is saved, restored and given messages in the order of their sealing | |
| `DoubleRatchetProofs` | the inductive invariant of `DoubleRatchet`, and theorems about it | |
| `X3DH` | the key agreement as operators | `x3dh/x3dh.go` |
| `Xochimilco` | the calls of a `Session` as operators: `Offer`, `receiveOffer`, `receiveAck`, `receiveData`, `sessSend`, `sessClose` | `xochimilco/session.go` |
| `Session` | two sessions in memory over such a network | users of the package |
| `Delivery` | abstract: lossy, ordered, at-most-once delivery from an inbox | |
| `StoredRatchet` | two clients with an established session, ratchets in files, inboxes read by position, failing posts, crashes and restarts | `client.go` (`Send`, `handleRatchet`), `disk-session.go`, `marshal.go` |
| `StoredRatchetInv` | the inductive invariant of `StoredRatchet`, what it says of a file and its inbox, and that sealing preserves it | |
| `StoredRatchetProofs` | theorems about `StoredRatchet` | |
| `Client` | two clients from the first `Chat` on: offers, acks, data, closes, replaced sessions, map and files | `client.go`, `disk-session.go`, all of the above |
| `Wire` | one message from the `Session` that makes it to the one that reads it: padding, encryption, header, structs, sealed box, text, session ids | `message.go`, `pkcs7.go`, `msg_header.go`, `primitives.go` |
| `WireProofs` | theorems about `Wire` | |
| `DiskSessions` | processes on one state directory: `Load`, `ByName`, `Get`, `Put` and `Close` as truncate and write, `Delete`, deaths anywhere | `disk-session.go`, `cli/basic.go`, the calls of `client.go` |
| `DiskSessionsProofs` | theorems about `DiskSessions` | |
| `Shell` | the running chat or ui: subscription, user, handlers, lock, prompt, position, log, the end of the program | `interactive.go`, `mem-session.go`, `ui/chat.go`, `main.go`, `msgbus.go`, the rest of `client.go` |
| `ShellProofs` | theorems about `Shell` | |
| `MCDoubleRatchet`, `MCWire`, `MCDiskSessions`, `MCShell` | bounds and inputs for TLC | |

`Ratchet` <- `X3DH` <- `Xochimilco` <- `Session`, `Client` by `EXTENDS`;
`DoubleRatchet` and `StoredRatchet` extend `Ratchet`; `StoredRatchet` and
`Client` are shown to implement `Delivery`, with the length of an inbox for
`posted`. `Wire`, `DiskSessions` and `Shell` stand alone, each with the detail that
the others leave out: `Client` takes messages for records, a call of the session
manager for a step and the program for a sequence of calls; `Wire` opens up the
first, `DiskSessions` the second, `Shell` the third.

### How state and steps correspond

* Keys are symbolic. A key pair is a number, 0 is nil; in `DoubleRatchet`,
  `StoredRatchet` and `Session` identity and ephemeral keys of the handshake are
  negative. The secret of two pairs is the set of the two; a session key is the three
  secrets of X3DH (`SessKey`), and a root key these and the secrets fed into
  `rootKdf` since; a chain or message key is its root and its number. A ciphertext records the key
  and associated data that sealed it, and opens with exactly these. So two keys
  are equal in the model just when the code derives them from the same inputs.
* The fields of the Go structs are the fields of the records, under their names.
  The ring of the key buffer is a function on slots with the newest element first;
  the maps of skipped keys are total functions with `NoChain` for absent ones.
* A call that returns an error leaves behind whatever it had changed by then:
  `Decrypt` after a failed authentication has stepped the ratchet, `Encrypt`
  after a refused header has advanced the chain. Whether that matters depends
  on the caller: `DoubleRatchet` and `Session` keep the changed value, as the code
  does in memory; `StoredRatchet` and `Client` drop the copy when the code
  returns before `Put`.
* `Restored` does what marshalling really does: it loses `prevSendNo` and all but
  one element of the key buffer. `Get` applies it in every call.
* The methods of the client run under the mutex of `Client.sm`, so each is a
  step; the places where a process may die inside one, or a post may go wrong,
  are outcomes of that step (`SendDropped`, `SendUnsaved`, `InputCrash`;
  `"dropped"`, `"unsaved"` in `Client`). A post is dropped when the bus answers
  with an error status (`sendMsg` ignores it), and unsaved when it was stored
  but its answer was lost.
* The peer lookup (`CallMisses`, `InputOfferLost`) may fail. Even then `ByName`
  has put a new id into the map.
* The message bus is external: a log per inbox, read by position. Its answer to
  position -1 (nothing saved yet) is not in the repository; `StoredRatchet` and
  `Client` begin after an earlier orderly exit, `Shell` lets such a subscription
  begin anywhere behind what was seen.
* In `Wire`, a byte string is a sequence of numbers. A byte `b` under a key with
  number `k` is `256 * k + b`: ciphertext keeps its length and cannot be taken for
  plaintext. The variables are one call of a `Session` (`op`, `s`, `now`), the text
  it posts and how far a reader has got with it; `Post`, `Parse`, `OpenSealed` and
  `OpenCipher` are the stages.
* In `DiskSessions`, a process is somewhere in one call: `pc` is "post", "put",
  "write", "delete" or, in `Close`, "save" and "saving". `Put` is two steps, between
  which the file is empty. `linked` tells whether the file a process has open
  was removed by another. `sendMsg` has three outcomes: taken, refused, taken
  without an answer. `Get` of an empty file panics in `Active`, with or without the
  deferred `Close` on the way out. `spent`, `stale`, `unmapped`, `cut` and
  `overlap` are history.
* In `Shell`, `lock` is the lock of `Client.sm`; `sub` and `user` are at a step of
  `Input` or of a command, and `job` is what `dispatch` waits for. Assigning a Go
  string is two steps in either order, since two threads assign `svc.prompt`
  without a lock. `Over` ends a program in the middle of whatever its threads are
  at, for `CloseWrite` runs without the lock. `Kill` is a signal, a power cut, or
  the Go runtime ending the program for concurrent use of a map. Of the log of a
  peer, `last` keeps the last start or close.

## Runs

| Run | Configuration | Question |
|---|---|---|
| `double_ratchet` | 2 chains of skipped keys, window 1, header limit 4; 6 sends of Alice, 4 of Bob | Loss, repetition and reordering within a chain: no key is used twice, the chains agree, unread messages within the window can be read, a replay is read only with a key that was once skipped, the key buffer is unambiguous. |
| `session` | 3 sends each | The handshake and the data after it, in any order: sessions that are established agree on key, associated data and ids; an ack always establishes; data is readable; an offer leads to a session or a close. |
| `stored_ratchet` | 5 sends in all, 2 faults, 1 orderly exit, 1 crash | Files of the two ends stay in step, confirmed texts have keys of their own, a message opens when it is first read and never again, and the clients implement `Delivery`. |
| `stored_ratchet_live` | 4 sends in all, 1 fault, 1 orderly exit, 1 crash | Every message is opened sooner or later, unless an earlier one used up its key. |
| `client` | both users may open; 1 offer each, 2 texts, 1 close, 1 fault, 1 crash | Session files lie under their ids, confirmed texts have keys of their own, the clients implement `Delivery`. |
| `client_orderly` | one opens, twice; 3 texts, 2 closes, 1 orderly exit | Without faults: one session at a time, whose texts are all readable, and an answered offer ends the wait. |
| `wire` | the lengths of the source; texts around the ends of one and two blocks with bytes that look like padding, three nicks, header numbers 0, 256 and 65535 | A message is never refused on the way, its reader gets what was put in, and its id leads to the reader's session file. |
| `disk_sessions` | two processes, two names, two ids, one death | Ids have one owner and only a death leaves an empty file; with one process at a time no older session comes back, no session is left behind without a death, and no state of the ratchet is used for two acknowledged messages. |
| `shell` | a peer and oneself; an inbox with a message of a session, an unknown one and a salty one; 2 starts, 1 kill | The prompt names the peer that a line goes to, no message is handled twice or passed over, the log agrees with the sessions, commands and messages finish, and the program can be quit though the bus never answers. |

Three runs show a disagreement between the code and what it says of itself:

| Run | What the code says | What happens |
|---|---|---|
| `desync` | after the first two messages the order of calls "is no longer relevant" | a message of an earlier chain, delivered late, steps the ratchet with an old key; the two ends lose each other for good |
| `buffer_restore` | skipped keys of "up to eight previous chains" are kept | `UnmarshalBinary` keeps one element |
| `client_glare` | after the ack "both parties can create encrypted messages" | offers that cross leave both ends with sessions of different agreements |

Other places where the code does less than one might expect are excepted by
name in the properties, and listed among the hazards:

* a closed `Session` "might be reused" (`session.go:346`), but `Close` does not bring
  back the identity key that the handshake has cleared;
* a text sent before the pending ack is refused by the opener and lost
  (`TextsReadable` holds with `EagerSend` `FALSE`);
* an offer that is read again after a crash replaces an established session;
* a post whose answer is lost is not followed by `Put`, so the next text is sealed
  with the same key (`NoReuse` counts acknowledged posts);
* `Delete` unmaps a name whichever session it leads to (`unmapped` in
  `NewestOrNone`);
* `cli recv` sets the position to 2 (`rewound` in `HandledOnce`);
* the index is saved without the lock, so a message may be cut off half-way with
  its position saved (`missed` in `NothingSkipped`).

### Bounds, and why they are enough

* Code constants become parameters: 8 chains, 32 skipped keys and 2^16 header
  numbers are `MaxSkipChains`, `MaxSkipElements` and `HeaderLimit`. Small values
  make eviction, the end of the window and the end of the header happen within a
  few messages. `double_ratchet` overflows a buffer of two chains: three chains
  of Alice with a skipped message each take six messages of hers and two of Bob's.
* Three sends each, in `session`, are three turns of the ratchet, enough for two
  ratchet steps of each end after the handshake. The five of `stored_ratchet` are
  three of one end and two of the other, or any other split: one end may also send
  all five, which takes it past the end of its header numbers. Two faults are one
  more than the window of one bridges, so both sides of the window are reached; in
  `stored_ratchet_live` one fault stays within it, as the property demands.
* One crash suffices for a second reading of the inbox, and any position may be
  the one on disk, since `Close` may come before.
* In `Client`, the bounds on offers, texts, closes and faults are totals; they keep
  the runs near a minute while each pair of kinds of event still meets.
* `wire` has a finite set of inputs, at the boundaries of the arithmetic: lengths
  of 0, 1, one below, at and one above a block, and numbers with a zero byte. Times
  are all zeros and all ones. `WireProofs` covers the rest.
* `disk_sessions`: two processes are what it takes to overlap, and a death may fall
  between any two steps. Instances with one process and more names, ids and deaths
  are covered by the proofs.
* `shell`: with two starts, a second program meets the position that the first
  left, by an orderly end, a kill, or a death inside `Close`. One peer and oneself
  are two names for the prompt; more peers are covered by the proofs. The three
  messages are one of each kind that sets or does not set the position.
* A run may end because its bounds are exhausted or both users have closed;
  a chat may stop at any time, so deadlock is not checked.

### Conditions under which the runs pass

* `double_ratchet` and `session` let the network reorder within a chain, but not
  go back to an earlier chain; `desync` shows why. The clients read an inbox in
  order, and after a crash work on copies, so `StoredRatchet` and `Client` need no
  such condition.
* `client` has users who answer an offer before they write (`EagerSend` is
  `FALSE`). If they do not, and a crash lets the client read the inbox again, an
  early text that was skipped is shown after later ones.
* `client_orderly` has one opener and no crash: `client_glare` shows what crossing
  offers do, and an offer that is read again after a crash replaces a session.
* `NewestOrNone`, `NoOrphans` and `NoReuse` are about one process at a time. Nothing in
  the code keeps two processes apart, and with two they do not hold.
* `PromptNames` and `LogTrue` end with the context: after an interrupt, `Use` gives up
  and neither prompt nor log is kept.

### Fairness

* `StoredRatchet`, `Client`: weak fairness of moving the position of an inbox
  forward. The subscription of the bus driver goes on as long as the process
  runs, `Input` sets the position first thing, and a process that died is started
  again by its user (crashes are bounded). Nothing is assumed of users.
* `Session`: weak fairness of `Acknowledge` and of receiving the ack: an
  application that uses the package passes on what arrives, and the bus keeps
  messages. Without it nobody would answer; the code has no retry.
* `Shell`: weak fairness of the steps of each thread once it has the lock, and of
  the main goroutine: the Go scheduler runs every goroutine that can run. Strong
  fairness of taking the lock: goroutines that wait for the lock of `locker` (an
  external library) are served in turn. None of `Answer`: the
  bus may never answer a post, which has no timeout. None of users, interrupts or
  new messages.
* `DoubleRatchet`, `Wire` and `DiskSessions` have no liveness property: the first two
  have no process, and in the third everything may die.

## Proofs

### DoubleRatchet

`DoubleRatchetProofs` proves every invariant of the run `double_ratchet` for all
values of the constants, that is, for any size of the key buffer, of the window
and of the header, and any number of calls:

| Theorem | Invariant |
|---|---|
| `TypeCorrect` | `TypeOK` |
| `NoKeyReuse` | `KeysNeverReused` |
| `Agreement` | `ChainsAgree` |
| `Decryptable` | `FreshDecryptable` |
| `Replay` | `ReplayRejected` |
| `BufferShape` | `BufferWellFormed` |

Assumptions: the constants are natural numbers, buffer and header limit not zero;
the network does not go back to an earlier chain; the symbolic keys above.

None of the invariants is inductive. That two messages have different keys depends
on all roots being different, which depends on the parties taking turns with the
ratchet; that an unread message can be read depends on its key being either still
ahead in the chain or in the buffer. The inductive invariant `IInv` says so:

* `InEpoch`: the number of secrets that follow the session key in the root key is the
  *epoch* of a party; the n-th of them is that of key pairs n and n + 1, Alice is in odd epochs and Bob in even ones, and
  all keys of a ratchet follow from its epoch and counters;
* `Lockstep`: the epochs of the two differ by one (or are both 0), and the next key
  pair is the next number;
* `Genuine`: every message in the network was sealed with the key its header
  names, in an epoch and with a number its sender has passed;
* `BufferGenuine`: the same of every skipped key, and one element per chain;
* `NotAhead`, `Accounted`: a receiver is not ahead of the sender, and what it is
  past was read or is in the buffer.

The lemmas in `RatchetProofs` say what `dhStep`, `skipMsgKeys`, `insert`, `Encrypt`
and `Decrypt` return on a ratchet in a given epoch. `SendInv` and `ReceiveInv` show
with them that the two actions preserve `IInv`, and `Inductive` combines them;
each theorem follows from `IInv`.

### StoredRatchet

`StoredRatchetProofs` proves every invariant of the run `stored_ratchet`, and that
`StoredRatchet` implements `Delivery`, for any size of the key buffer, of the window
and of the header and any number of sends, faults, exits and crashes:

| Theorem | Property |
|---|---|
| `TypeCorrect` | `TypeOK` |
| `Agreement` | `FilesAgree` |
| `ConfirmedUnique` | `ConfirmedKeysUnique` |
| `FirstRead` | `FirstReadSucceeds` |
| `AtMostOnce` | `OpenedOnce` |
| `Refinement` | `DeliverySpec` |

Assumptions: the same constants, and bounds on the sends, faults, exits and
crashes that are natural numbers. Unlike in `DoubleRatchet` nothing is assumed of
the order of messages: an inbox is a log, and a restart goes back in it.

The argument is a different one as well. `Restored` loses skipped keys, so that a
message passed over cannot be said to be in the buffer; and a message whose `Send`
was not saved shares its key with the next one. What makes up for both is the order
of the inbox. The inductive invariant is `IInv` of `StoredRatchetInv`:

* `Lockstep` and `Filed`: the files move through the epochs as ratchets in memory
  do, and a file has read up to the last message opened (`LastRead`);
* `Logged`: an inbox holds genuine messages, later ones of later chains or numbers,
  or of the same number after a `Send` that was not saved;
* `ReadOnce`: whatever lies at or before the position, or before a message that was
  opened, is `Unreadable` with the file: its chain was left, its key was used or
  lost, or its number is beyond the window. So it makes no difference where a restart
  resumes;
* `Skipped`: the cached keys of the chain being followed lie before its last message.
  With `Filled` (the elements of the ring take its first slots) it shows that the one
  element `UnmarshalBinary` keeps brings no used key back;
* `Missed`: what was passed and not opened was beyond the window and still is, unless
  its key was used by an earlier message. `FirstReadSucceeds` needs it: a message
  that is read again counts as never read if it did not open before;
* `Confirmed`: the texts for which `Send` returned nil have numbers behind the file's.

`RestoredRatchetProofs` says what `Restored` keeps of a ratchet and what `Decrypt` does
with the next message of an inbox (`RestoredSound`, `ReadNext`). There is a lemma for
the steps that seal (`SealInv`), the step that opens (`OpenInv`) and the steps that only
move in the inbox (`MoveInv`). `Refinement`
maps an appended message to `Post` and an opened one to `Show`, where `ReadOnce` gives
that its position is beyond all those shown before; every other step changes neither
inbox nor what was shown.

### Wire

`WireProofs` proves the type invariant and the two properties of the run `wire` for
all lengths of keys, ids, signatures, blocks (up to 255), MACs and boxes and for all
inputs, and three facts about pure operators:

| Theorem | What it says |
|---|---|
| `PadReversible` | `pkcs7Unpad` accepts the result of `pkcs7Pad` and gives the data back |
| `PadCanonical` | what `pkcs7Unpad` accepts is the padding of what it returns |
| `DecryptsWhatItEncrypts` | header and plaintext survive `Encrypt` and `Decrypt` |
| `TypeCorrect`, `PathIsFaithful`, `PathIsRouted` | `TypeOK`, `PathFaithful`, `Routed` |

The argument is a chain of round trips: lemmas say that a slice of a concatenation
is the part it covers, that `Unmarshal` undoes `MarshalBinary` for each struct, and
`Unseal` undoes `Seal`. The inductive invariant (`PathInvariant`) says that the text
is what `Post` makes, and that the reader has, at each stage, exactly the message that
`Made` describes.

### DiskSessions

`DiskSessionsProofs` proves all properties of the run `disk_sessions` for any sets of names and processes and any bounds:

| Theorem | Invariant |
|---|---|
| `TypeCorrect` | `TypeOK` |
| `EveryIdHasOneOwner` | `OneOwner` |
| `EmptyFilesComeFromDeaths` | `TornOnlyByDeath` |
| `NoOlderSession` | `NewestOrNone` |
| `NothingOrphaned` | `NoOrphans` |
| `NoStateReused` | `NoReuse` |

Of the last five only `TornOnlyByDeath` is inductive (it is proved as `TornIndex` and
`TornFile`): the others speak of files and maps, while a step writes what a process
carries in its hands. `AllInv` therefore adds

* `OwnerInv`: the session that a process carries is a further owner of its id, and
  every id in use was handed out by `ulid.Make`, so that the next one is new;
* `AloneInv`, until processes overlap: at most one process runs (`Alone`); a file is
  marked as spent only while the process that posted from it is about to replace
  or remove it (`SpentInv`); a session that a name may lead to, by the map or by the
  index, is the newest, and where the index differs from the map it leads to no
  session (`NewestInv`); without deaths, map and files agree (`OrphanInv`).

### Shell

`ShellProofs` proves the five invariants of the run `shell` for every inbox, any
set of peers and any bounds:

| Theorem | Invariant |
|---|---|
| `TypeCorrect` | `TypeOK` |
| `PromptIsRight` | `PromptNames` |
| `NothingTwice` | `HandledOnce` |
| `NoneSkipped` | `NothingSkipped` |
| `LogIsTrue` | `LogTrue` |

`ShellInvariant` combines five strengthenings with the types:

* `SkipInv`: everything before the cursor, and before the position in memory, was
  handled, is in the hands of the subscription, or was missed;
* `OnceInv`: until the position is rewound, every handled message that sets the
  position lies before the position in memory, or, when no program runs, before
  the saved one;
* `LockInv`: who works or waits for handlers has the lock, so at most one thread has
  a job;
* `PromptInv`: while a command sets the prompt, the words it has set already are
  its own or empty; a handler can only empty them;
* `LogInv`: a deleted session has a log that ends with its close, or a job under
  way that is about to write it.

### Only model-checked

* `Session`: `AckEstablishes`, `EstablishedAgree`, `DataReadable` and the others. Its ratchets
  start from the session key and the numbering of the lemmas in `RatchetProofs`, but in it
  `Receive` may also meet data before the ack, or the ack again at any later time, and
  `Close` clears a session; an invariant for these has not been worked out.
* `Client`, among it that `Client` implements `Delivery`. It has one conversation after
  another, so key pairs are numbered on from any start and the roots begin with any session
  key, while the lemmas fix both.
* All liveness: fairness and `ENABLED` are out of the prover's reach, as are induction
  over data and `RECURSIVE` operators, which no module uses.

## Not modelled

* Cryptographic strength, random sources that fail, and key conversion
  (`curve25519_conv.go`): keys are names.
* Base64 (nothing is lost in it), and texts on the bus that no `Session` makes,
  beyond their being refused.
* What `MemSession.ReadLog` returns: the page is computed by `math.PagerBox`, which is
  not in the repository.
* What is printed: the messages of the chat, layout and rendering of the ui, and
  the builder that the handlers and the loop of the ui share without a lock.
* File permissions, disks that are full, reading the key file, option parsing,
  and `setupChatlog` of `main.go`, which nothing calls.
* `session_fuzz.go`, a fuzzing harness, and the lookup of addresses, which succeeds or
  fails.
* What only the hazards in `PROJECT.json` say: skipped keys of one chain add up
  beyond `maxSkipElements`, since every jump may skip that many.
* The composition of all modules in one specification: `Client` with the steps of
  `DiskSessions` and `Shell` is out of TLC's reach at any useful size.

## What could come next

Proofs about `Session` (`AckEstablishes` and `EstablishedAgree` first, which need only
the first step of each ratchet, then `DataReadable`, which would follow as
`FreshDecryptable` does); the lemmas of `RatchetProofs` for any session key and
numbering to begin with, as `Client` needs them.
