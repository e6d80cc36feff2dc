# µnleashed BBS: a verification project

TLA+ models, TLC runs and TLAPS proofs for the BBS in this repository: a telnet and
SSH bulletin board for the ESP32 (`src/src`), with a host build of the same core
(`src/host`). Paths below are relative to the repository's own `src/` directory unless
they start with `src/`.

## 1. The system

One **loop task** (`core/bbs.cpp`, `Bbs::tick`) runs the whole board. A pass of the
loop accepts connections, reads and services every session slot in order (nodes, the
busy line, the sysop node), ticks the plugins and the background services, and ends
with shutdown and the ring (`serviceRing`). Everything in a pass is sequential, so the
hard behaviour comes from what lies *between* passes and from the few places where
another task runs:

- **interleavings of sessions**: what one session starts (a ring, a claim, a page, a
  transfer) another one meets several passes later, after either has hung up, moved to
  another slot, been kicked or run out of time;
- **other tasks**: the background runner (flash and card work), the SSH task, the
  announce worker, the camera worker and the radio callback share memory with the loop;
- **a static pool**: sessions, mailboxes and links are slots that are reused, so state
  of the last user is a hazard everywhere;
- **storage**: records are rewritten in place on flash, and power may go at any write;
- **the line**: XMODEM and the board-to-board link run over channels that lose,
  repeat and corrupt.

### Inventory

| Component | State | Operations | Interacts with | Hard parts, and what makes it correct |
|---|---|---|---|---|
| Background runner (`runner.cpp`) | job states, bounded queue, task alive, job in hand | post, collect, busy, take, main | loop (lock, wake), card unmount | start/stop race; every accepted job is run once, in order, by one task, and is never shared |
| Bus, mailboxes (`bus.cpp`) | four messages per session | push, pop, take, has | every session, ring | eviction at the limit never costs a ring |
| OPERATOR ring (`bbs_ring.cpp`, `ring.h`) | the one ring, its two ends, the limiter | ring, answer, decline, away, later, end, service | sessions, mailboxes, chat, mail | either end moves, hides or goes at any time; one ring, settled once, and no stale question |
| Sessions and slots (`bbs.cpp`) | slot table, login waits, timers | accept, open, move, close, elevate, drop | everything | one owner per slot; what is filed under a slot follows or is released |
| SSH link, server (`sshlink.h`, `sshd.cpp`, `bbs_ssh.cpp`) | two byte rings and a life-cycle word per link | put, get, claim, release | loop and SSH task | single producer and consumer; no byte lost or reordered; a link is never reused while in use |
| Bans, lockouts (`guard.cpp`) | table of addresses, failures, times | fail, banned, tick | login, SSH | bounded table under churn; a live ban is not evicted by newcomers |
| Claims (`claims.h`) | holder per resource | claim, release, transfer | files, forums, config | released with the session, moved with it |
| XMODEM (`xmodem.cpp`) | sender and receiver state, block numbers, retries | bytes, ticks | files | loss, repetition, block number wrap: the file arrives exactly |
| Board link (`link.cpp`, `linkfam.h`) | peers, keys, sequence numbers, queue | pair, send, receive, retry | radio | loss, replay, restart of one end |
| Port mapping (`portmap.cpp`) | protocol, leases, retry times | tick, receive | router | late answers, renewals, changed ports |
| Ring notes, caller log, users, boot recovery, backup | files | append, rewrite, read, restore | runner, loop | power cut between writes |
| Forums (`plugins/forums.cpp`) | the write queue, the files of each forum, read pointers, who waits for which write | post, remove, leave, job, tick, start, stop | runner, card, sessions | a card that fails or a power cut between two writes; a message is never lost, moved or told wrongly |
| Announce, chat, files, SD | plugin state per slot | commands, jobs | sessions, runner | slot reuse, results after the caller has gone |
| Terminal, telnet, detection, screens, forms, editors, panel, skins, photos, clock, digests, platform | per session or per board | drawing, parsing, drivers | – | layout, parsing and I/O: see "not modelled" |

`PROJECT.json` lists every component with its sources and status, and every hazard at
the line where it bites.

## 2. The plan

Modules in the order of writing; a later one composes or instantiates an earlier one
where it says so.

1. `Runner`, with `JobService` as the promise it implements, `RunnerProofs` (**done**).
2. `Mailbox` (pure operators) and `OperatorRing`, which composes the session slots,
   mailboxes, limiter and the ring, with `OperatorRingProofs` (**done**).
3. `SshLink`, the life of a link between the loop and the SSH task, and `SshLinkProofs`
   (**done**). Left: `ByteRing`, the ring's index arithmetic with its wrap at 2^32,
   shown to implement a FIFO.
4. `Nodes`: accept, open, login waits, move and close over the slot table; claims,
   which a closing or moving session must release or carry along.
5. `Bans`: the bounded table of failures and bans under churn, with the tick counter's
   width, and `BansProofs` (**done**). Left: the account lockouts.
6. `Xmodem`: sender and receiver over a line that loses, damages and delays, against
   "what arrives is a prefix of the file", with `XmodemProofs` for XMODEM (**done**).
   Left: the proof for YMODEM, but for its header twice unheard (section 3).
7. `BoardLink`: the link's key, heartbeat, restarts and sessions, with `BoardLinkProofs`
   for the keys and for what an acknowledgement says; `BulkWindow`, the receive window of a bulk message between two threads,
   with `BulkWindowProofs` (**done**). Left: pairing, several boards on one satellite
   (the LOST state, PEERS, sharing, UNPAIR), and the sending side of a bulk message.
8. `ForumStore`, the forums' one writer with power cuts and card errors, over `Topic`,
   what a forum promises, and `ForumStoreProofs` (**done**). It stands on `JobService`,
   which `Runner` implements. Left: body segments and the readers' walks.
9. `Storage`: ring notes, users and recovery with a power cut between any two writes.
10. Port mapping, announcements, and the other plugins' slot state.

Each gets one or two runs with bounds small enough for a few minutes, a type invariant,
the safety properties its hazards call for, liveness where the loop's passes justify
fairness, and theorems for the safety properties that do not rest on induction over data.

## 3. The modules and the code

`PROJECT.json` maps every definition to the lines it stands for. In outline:

### Runner, JobService (`core/runner.cpp`, `runner.h`)

| Model | Code |
|---|---|
| `st`, `hand`, `ran` | `Job::st`; `main()`'s local `j`; ghost count of `work()` calls |
| `queue`, `alive`, `inHand` | `g_q` with `g_head` and `g_count`, `g_alive`, `g_inHand`, all behind the lock |
| `woken`, `noStart` | the platform's wake, `g_noStartTo` |
| `loop`, `posting`, `pc` | where the loop is inside `post()`, where each task is in `main()` |
| `PostQueue`, then `PostWake`, `PostStart`, or `PostNoStart` and `PostUndo` | `post()`, cut where it unlocks |
| `TaskTake` ... `TaskFinish` | `main()` and `take()`, cut at each lock section and each store of `st` |
| `board` (from `Boards`), fixed | which of the two builds schedules: one core with the loop on top, or host threads |

The refusals of `post()` change nothing and are the absence of a step. The rest of the
board is reduced to "any job may be posted or collected whenever the loop is outside
`post()`". `JobService` is the promise: accepted jobs in order, each finished once.

### Mailbox, OperatorRing (`core/bus.cpp`, `bbs_ring.cpp`, `ring.h`, `bbs.cpp`, parts of `chat.cpp`, `bbs_sysop.cpp`, `bbs_shell.cpp`)

| Model | Code |
|---|---|
| `ses[s]` | a slot of `nodes_`/`sysop_`: state, owning plugin, rank, there to be rung or not, output waiting, mailbox; and, as ghosts, the rings this caller has made and the wait they still owe |
| `ring`, `seq` | `ring_` with its time left, `ring_.seq` |
| `used`, `gap` | `ringLimits_`, by slot; AllowanceIsTheCallers compares them with the ghosts |
| `turn` | the pass of `Bbs::tick`: a slot's service, then `serviceRing` at the end |
| `owed` | ghost: rings begun and not yet settled by an answer or a note |
| `Pushed`, `Popped`, `Taken`, `Has` | `Mailbox::push`, `pop`, `take`, `has` |
| `RingStart`, `RingAnswer`, `RingDecline`, `RingAway`, `AskLater`, ... | the handlers in `bbs_ring.cpp`, each whole, with what it prints and posts |
| `Connect`, `HangUp`, `LogOff`, `Elevate`, `Drop`, `MoveSession`, `CloseSession` | `openSession`, `readSession`'s end of line, `hangup`, `elevate`, `cmdDrop`, `moveSession`, `closeSession` |

A session's screens are reduced to what a ring asks of them, and printing is followed
only where waiting output holds a ring or a key back. Notices, pages and the other mail
are kinds of message with no content.

### SshLink (`core/sshlink.h`, `sshd.cpp`, `bbs_ssh.cpp`)

| Model | Code |
|---|---|
| `link[l]` | the words of `ssh::Link` both sides use: `state`, `loopDone`, `taskDone`, `auth`, the text of the question, the fill of the two rings, the descriptor, the peer |
| `mine[l]` | the task's own: where wolfSSH is, `asks`, a byte held for want of room, a full socket, how long a hang-up has been waited out |
| `sess[l]`, `loop`, `wake` | the session of the link (waiting or up), the next access of the loop, `g_wake` |
| `task` | the next access of the SSH task, its pass, and whether that pass is spent |
| `Claim`, `ClaimStart` | `sshd::claim`, cut at its publishing store |
| `ReadPop`, `ReadPost`, `ReadEnd` | `sshd::read` and `Bbs::sshRead` |
| `WaitAsked`, `AnswerWipe`, `Answer`, `Waiting` | `Bbs::sshWait`, `sshd::asked`, `answer` |
| `Release`, `ReleaseNo`, `LetGo` | `sshd::release` |
| `Look`, `Select`, `Serve...`, `Handshake`, `Auth...`, `Pump...`, `Finish...`, `Reclaim` | `sshd::taskMain` and what it calls, one step per shared word |
| `KeyExchange`, `Rekey` | the key exchange of a login; one the caller asks for again, in `wolfSSH_accept` or in `pump`'s `wolfSSH_worker` on an open link |

There is no lock here, so **every access to a word the other side writes is a step of
its own**. Abstractions: a ring is the number of bytes in it; the eight rounds of `pump`
are one; wolfSSH is its outcomes (want more, a question, the shell, failure); the time
limits of a login may strike at any time; a pass is given up only after a key exchange
(of a login or of a rekey), the one thing that takes that long; refusals that change no link (no memory, the
`ssh_lines` setting), window resizes, the count of wrong passwords and the ban behind it
are left out, the latter as "a refused login may end the connection".

What the model shows beside its properties. The comment at `kPassMs` (`sshd.cpp:722-726`)
says that a pass given up is ordering, not starvation, as no link can hold the front for
longer than its own handshake takes. That is so of handshakes. It is not so of rekeys: a
caller on an open link may have wolfSSH exchange keys as often as they ask, each exchange
uses up a pass, and the links behind in the pool are not reached in it. So ClaimIsServed
and LetGoComesBack say of link l that it is served, or comes back, *unless callers before it
exchange keys for ever* (`RekeysBefore(l)`); without that disjunct TLC finds both violated,
by a caller of the first link who rekeys in every pass while the second one waits.

### Xmodem (`core/xmodem.cpp`, `xmodem.h`, the drive in `plugins/files.cpp`)

| Model | Code |
|---|---|
| `tx`, `rx` | the `Engine` of a sender and of a receiver: status, phase, block number, place in the file, errors in a row, the flags of YMODEM, the control bytes waiting to leave |
| `fwd`, `back`, `left`, `dead` | the line: what is on it and for how long, the faults still to come |
| `TxFed`, `RxFed` | `feed` for each phase, a block being one unit |
| `TxTick`, `RxTick` | `tick`: the time limit of each phase |
| `TxPullCtl`, `TxPullBlock`, `RxPull` | `pull`: control bytes first, then the block |
| `FrameNext`, `Retransmit`, `Placed`, `Repeated`, `EndOfFile`, ... | `frameNext`, `retransmit`, `blockDone`, `endOfFile`, each whole |

A block on the line is its number, its place in the file and its length, and arrives
whole, damaged, or cut short; so bytes of a broken block are never read as control
bytes, which in the code they may be (`xmodem.h:305-307` says they are not). Data is
counted in small blocks. Both engines run against one clock, and a trip there and back is
shorter than a start poll and than the wait for a block (`LineAssumption`). That is asked
of the line, not of the code: with `kStartPollMs` 3 s and `kBlockTimeoutMs` 10 s it is
what the comments at `xmodem.cpp:688-699` rest on, a NAK being in flight for less time
than an end waits before it sends again.

Things the model shows that are the protocol's and not this code's, which the properties
leave room for: a fault may cost the receiver two errors, so `kMaxErrors` is more than
twice the faults a run allows; a sender that has heard a `C` never follows a receiver
that has fallen back to the checksum, so FileArrives asks that they agree; a closing
header that is damaged and not repeated fails a YMODEM batch whose file is complete. One
is this code's: an EOT out of nowhere is answered with a NAK (`xmodem.cpp:831-832`), which
the sender answers with a copy nobody asked for, so that a transfer with such an EOT may
find the sender a block ahead. If what the sender sends next is lost as well, or the line
dies, the receiver's silence takes the file as ended; a second such EOT is believed. The
comment at `xmodem.cpp:937` says that a line-hit EOT does not reach there.

A second is YMODEM's header. `tick` says of a block resent off the sender's own clock that
a NAK in flight is answered by it (`xmodem.cpp:905-906`), and sets `selfNak_`; the timeout of
SendY0Crc (`xmodem.cpp:910-912`) resends the header off the same clock and sets nothing. When
the ACK of the first header and the C of the second are lost, the receiver has `started_`
set by the repeat (`xmodem.cpp:818`) and NAKs as the sender times out; a third header goes
out, both are answered, and the sender reads the second ACK as block 1's. From there a lost
last block ends in Done at the sender with the file short, and the transfer may fail
although the damage was within the retries.

The properties name both, and the cut-down block of the finding: DoneIsWhole is asked but
for StrayEotAmongOthers (an EOT from nowhere *and* any other fault), HeaderTwiceUnheard
(YMODEM with two answers lost) and CutDownUnheard (a large block cut down and an answer lost);
NeverAhead but for a stray EOT and HeaderTwiceUnheard; FileArrives but for HeaderTwiceUnheard,
and within the retries (WithinRetries). The run has jobs of each kind (`Astray`), so that
the rest is asked of them too. Take a named exception out of a formula and TLC shows the
disagreement within a minute: DoneIsWhole fails of XMODEM with `Faults(1, 0, 1, 0)`,
`Faults(0, 1, 1, 0)` or `Faults(0, 0, 2, 0)` and of YMODEM with `Faults(1, 2, 0, 0)`;
NeverAhead and FileArrives fail of YMODEM with `Faults(0, 2, 0, 0)`. With them in, TLC
has found the safety properties to hold with up to six faults besides, twice the run's.

### BoardLink (`core/link.cpp`, `linkfam.h`)

| Model | Code |
|---|---|
| `boot`, `epoch`, `key`, `up`, `pend` | boot epoch, the far one's, the session keys, `up`, the HELLO the host has answered but not seen proved |
| `state`, `np`, `ackUsed`, `hello`, `ping`, `miss` | the peer's `PeerState` and what its timers look at |
| `snd[id]`, `rcv[id]`, `tombs` | a `Sess` as its sender and its receiver use it, and `Tomb`s |
| `air`, `left` | frames on their way, faults still to come |
| `HearHello`, `HearHelloAck`, `HearPing`, `HearPong`, `HearAck`, `HearReset`, `HearData` | `onClear`, `onFrame`, `onLinkMsg`, `onFamily`: each frame's whole handler, with what it sets off in the others (`farRestarted`, the swap to the new key) |
| `FindHost`, `HelloTimer`, `PingTimer`, `HostQuiet`, `Rekey`, `PeerGone`, `Retransmit`, `IdleOut`, `DropClosed`, `TellClosed`, `TombGoes` | the timers of `peerTimers`, `hostTimers`, `sessTimers` |
| `CloseOutright` | `closeSession` and `resetSession`, by either owner at any time: no tombstone. In a message's event it is an outcome of `Deliver` |
| `Bury`, `MakeWay`, `kTombs` | the tombstone table, whose oldest entry makes way when it is full |
| `forgot` | ghost: the sessions the receiving end knew and knows no more, with how many messages it had been given |
| `Open`, `Send`, `Transmit`, `SendAck` | `openSession`, `send` and `closeAfter`, `transmitOne` |
| `Lose`, `Delay`, `Repeat`, `Restart` | the radio; a restart of either end |

Assumptions, each stated where it is used. What a poll queues leaves in that poll, so a
frame has the key of the step that queued it. The replay window is what it promises: a
sealed frame is received once. A timer is longer than a round trip, so it runs out when
nothing is on the air, or costs a "late" fault. Owners close with their last message,
in a message's event, or, at the cost of a "trouble", outright at any time. Session numbers after a boot may always collide with those
before it, the worst case of the random start. `transmitOne`'s order of control frames,
acknowledgements and messages is not kept, which only adds behaviour.

What the model shows beside its properties. `LINK.md:408` says of a session's messages
that none comes twice, whatever the radio does, and `LINK.md:432-435` that the tombstone of a
closed session sees to it. The code keeps that only while the receiving end has the session
or its tombstone. It has neither when

* an owner closes the session outright before the ACK of its last message has come
  (`closeSession`, `resetSession`, also inside the message's own event,
  `link.cpp:1604-1617`): the ACK is still queued, but nothing is left to answer a repeat;
* the far end's RESET, two seconds after it closed (`kTombTellMs`), overtakes a repeat
  that is still on its way: it drops the session with no tombstone (`link.cpp:1377-1391`);
* the tombstone has made way for a newer one, the table being full (`link.cpp:526-539`), or
  has timed out (30 s) in an outage through which the sender kept trying;
* the session was dropped as idle, or with its peer, and no tombstone was made.

A repeat of the session's first message then opens a new one and is given to the owner
again. InOrderOnce says exactly this: messages come in order, none missing, and the
count starts again from the first only for a session that is in `forgot`. Take that
disjunct out and TLC finds the duplicate, in a job of one message with one radio fault and
one session closed outright (`Job({Peer}, 1, 1, 1, 0, 0, 1)`, which the run has). What else
rests on it counts what was given by any of the session's lives (`GivenUpTo`): an
acknowledged message was given, in this boot of the sender (AckedIsTaken), and both ends
agree when up (UpAgrees). Both are proved.

### BulkWindow (`core/link.cpp`, `struct BulkRx`)

| Model | Code |
|---|---|
| `st`, `msg`, `consumed`, `have`, `slot` | `BulkRx`: its state, whose it is, the atomics both threads use, the slots |
| `Arrive` ... `Begin` | `onFragment`, cut at each access to a shared word |
| `PumpStart` ... `PumpOut` | `pumpBulk` likewise; it holds no lock |
| `DropSess`, `Cancel` | `dropSess` and its compare-and-swap |
| `EndCheck`, `PumpCheck`, `HandBack` | `bulkEndCheck`, cut between reading the state and asking `pumping_` |
| `place` | who takes the radio's frames: the loop, or the runner under the same lock |

Fragments come in any order and any number of times. Which of them are acknowledged when
is left out. A message may be found whole by the sink (`bulkFinish(true)`) and still
end as failed, if its session goes before the loop has looked: `link.h:239` names
the second call only.

### ForumStore, Topic (`plugins/forums.cpp`)

| Model | Code |
|---|---|
| `card` | `INDEX.TXT`'s header and records, the bodies, `PTRS.TXT` |
| `queue`, `done` | `g_ops` from `g_opHead`, `g_opCount` long; `g_opDone` |
| `work` | the op `opsWork` has in hand, and how far `runPost`, `runRemove`, `runSeed` or `writePtr` is with it |
| `accepted`, `finished` | `g_opJob`, as `JobService` has it: taken by the runner, or refused; done once; collected |
| `wait`, `asked` | `g_walk`'s `W_WRITE` and its ticket, `g_ticket` |
| `figures`, `place` | `g_forum`'s `newest` and `total`; a caller's read pointer as they left the forum |
| `told`, `lost`, `missed` | ghosts: what callers were told; pointers known not to have saved; a wrong header known to be left |
| `Take`, `ReadHeader`, `Count`, `Look`, `Write`, `ReadFails`, `WriteFails`, `EndJob` | `opsWork` and what it runs, **one card operation a step** |
| `Post`, `Remove`, `GiveUp`, `PtrFlush`, `Tick`, `Deliver`, `TickEnd`, `Boot`, `Save` | `finishPost`, `removeShown`, the keys and hang-ups that end a wait, `ptrFlush`, `opsTick` with `opDeliver`, `start`, `stop` followed by `start` |
| `PowerCut` | the board restarts; the write under way is on the card, or not, or (a header) in part |
| `Topic` | the promise: numbered messages, one added behind the others with its text, one taken down; nothing else ever happens to them |

One forum. A message is the ticket of the wait it was queued with, its body a member of
`body`, so that a record whose text is missing would show. Abstractions: a record's 128
bytes land whole or not at all (one cut short is past the end the rebuild counts to); a
flag is one byte; a header that is left in part does not parse (`parseHead` asks for
all of its fields); what has been written stays written (a header is not synced, but
may be lost only as `PowerCut` inside its write has it). A queue that has no memory
refuses like one that is full. Body segments and the sixteen answers a tick stops at are
left out, and the pointers `stop()` flushes are `PtrFlush` steps before `Save`.

What the model shows beside its properties. A removal cut by the power between its flag
and its header leaves a header that reads, with a count one too high; `start()` believes
it, and nobody recounts until a write fails (`missed` in FiguresAreTrue). The same goes for
a recount that fails itself: it is not asked for again. And a post whose record reached
the card but whose sync failed is said not to have saved, its record staying unnamed
(`forums.cpp:977-979`); if the header is later torn and rebuilt before the next post
has taken its place, that record becomes a message after all. Topic allows all three: the
messages are right in each.

### Bans (`core/guard.cpp`, its callers in `bbs.cpp`, `bbs_shell.cpp`, `bbs_ssh.cpp`, `bbs_sysop.cpp`)

| Model | Code |
|---|---|
| `slots` | `BanList::slots_` |
| `time`, `passNow`, `heard` | the true time; when the pass read its `now`; when the last connection was accepted |
| `calls` | how far each call has come: on the line, asked for the sysop password, past it; `Session::sysopAhead` |
| `due`, `wrongs` | ghosts: the true end of the ban an address has earned; when its wrong answers were counted |
| `Millis`, `Since`, `Before` | `plat::millis`, which comes round; `plat::since`; the signed difference of `banLive` |
| `Swept`, `Banned`, `SlotFor`, `Failed`, `Cleared`, `Returned` | `banned`, `slotFor`, `fail`, `clear`, `aheadGive` |
| `Connect` | `acceptAll`, and the SSH listener, which asks the same |
| `Arrive`, `Ask`, `AskHeld` | `offerSysop`, `askSysop`, with `aheadTake` |
| `Skip`, `Right`, `WrongHeld`, `Wrong` | `onSysopPassword`, `staffPassword` |
| `WrongBye`, `SshEnd`, `Unban` | `cmdBye`, `closeSession` of an SSH call that gave a wrong password, `cmdUnban` |

A `Tick` may fall inside a pass, so that the question, which reads the clock again, is
up to `kLag` later than the pass. Entry numbers, not addresses' text, and no "table is
full" on the console. `kQuiet` bounds the time without any connection: only a connection
sweeps the table, so a ban nobody has swept for half the clock (24.8 days) is running
again, which `guard.cpp:60-66` accepts.

## 4. The runs

| Run | What it asks | Bounds |
|---|---|---|
| `runner` | One task at most; `busy()` covers all work; each job runs once and is never shared; every accepted job is finished; the whole implements `JobService` | three jobs, a queue of two, two task handles; both schedulings, chosen in the initial state. That the wake after `post()`'s unlock finds its task alive is asked of the board's only: on threads the task may have ended by then, which is harmless there, as the host's wake is a flag |
| `operator_ring` | One ring at a time, none left behind by a hang-up or a move; none lost to a full mailbox; no key answers another ring; each settled once | two callers and the sysop node, one of them elevated in place, a mailbox of two, `seq` wrapping at 1 |
| `operator_ring_places` | The allowance follows the caller from slot to slot; no ring lasts for ever | one caller, two rings a call, every place a session can be in |
| `ssh_link` | No link is given back while held; no late answer admits the next caller; neither side sleeps on what the other has handed it; unless a neighbour before it exchanges keys for ever, every claimed link is served, and a link let go of comes back to the pool, with a caller who may never open his window | two links, rings of one unit; one caller comes as far as the question, the shell and the hang-up, the other's logins fail before |
| `ssh_link_text` | **finding**: the question's text is touched while the other side holds it | one link |
| `ssh_link_keys` | **finding**: a caller is closed as gone with keys unread | one link |
| `xmodem` | Nothing is stored twice or out of place; a transfer ends; and, but for the cases section 3 names, Done means the whole file, the sender is never ahead, and damage within the retries is repaired | files of up to five small blocks, a large block of two, numbers modulo 4, up to three faults, XMODEM and YMODEM, both checks, and jobs of the excepted kinds |
| `xmodem_reframe` | **finding**: a 1K block cut down after a lost ACK is stored twice in part | one large block, three faults |
| `board_link` | Messages in order, and again only once the session was forgotten; an acknowledged message was taken; no key comes back; both ends agree when up; the link comes up and every message settles | one session or two in turn, a window of two, one retry, one miss, room for one tombstone; up to two of: lost, repeated or reordered frames, late timers, restarts, and troubles (a refusal, a rekey, a session closed outright) |
| `forum_store` | A message that is there is never moved, changed or lost, and none comes back; what a caller is told is about their own message and stays true; the count comes right after any card error; a caller's place is kept; every wait ends | two callers, one read pointer, a queue of four; three posts and removals with two card errors or a power cut, two with both, and a pointer that moves twice beside one of them (`Budgets`, one chosen in the initial state) |
| `bans` | An earned ban stands its time whatever the other addresses do, ends then, and, on a board up for less than a turn of its clock, was earned by its own address in one window | three addresses, one call, a table of two, two tries, a clock of six that comes round, a run one step longer than BanIsEarned asks about, four wrong answers |
| `bulk_window` | The sink gets each message's fragments in order and once; the end is told once and last; the window is free again | two messages of three fragments, a window of two, either thread taking the fragments |

Why these bounds are enough. In `Runner` a third job is what finds the queue full while
one is in hand, and a second handle is all it takes for two tasks to exist at once. In
`OperatorRing` the least `seq` makes every ring number a repeated one, and a mailbox of
two is full as soon as a ring has one neighbour; two callers and two sysops give every
pair of ends that can meet. In `SshLink` a ring of one unit is always empty or full; the
two sides meet in one link only, so that a second link matters for the pass over all of
them (a look that has gone by, a post that is for the neighbour, a pass given up before it).
`Askers` bounds the callers who come as far as a question; the proofs leave it open. In `Xmodem` a file of five blocks passes a number modulo 4 round, and
three faults reach `kFallbackErrors`; of XMODEM the proofs leave sizes, faults and clocks
open. In `BoardLink` the least
counts of tries and misses make every timer's last chance its first; a window of two
under one lost frame gives gaps and repeats, a table of one session makes every new one
meet the last, and two restarts bring an epoch and a session number round. In
`ForumStore` a header that fails twice takes two card errors; a write behind a torn
header takes a second post, a rebuild followed by one more a third; four is the least queue that
has room for a write where a pointer is refused. In
`BulkWindow` three fragments go round a window of two, with a repeat of each before, in
and behind the window, and the second message finds what the first has left. In `Bans` three addresses over
two entries fill the table with bans and have a third look for room; half of a clock of
six is longer than a ban and a window, and the time of the run takes it round; that a held
answer given back leaves alone a ban another call has earned is proved for any number of
calls. Each
property has a mutant in `PROJECT.json`: a plausible slip in a mapped definition which
that run then catches.

### Findings

* `ssh_link_text`. `sshlink.h` says of the login question that neither side touches the
  text while the other one holds it. `finish()` in `sshd.cpp` does: a handshake that
  fails or has taken too long clears the text whatever `auth` says, while the loop may be
  checking it. The loop's verdict can then be about a half-wiped password. No caller is
  admitted by it (`AdmittedByItsOwnAnswer` holds), but a failure may be counted.
* `ssh_link_keys`. `sshd::read` says the next pass reads on or sees the end, the end
  being behind the last of the keys. `Bbs::sshRead` asks `gone()` after a read that
  found nothing: if the task pushes the last keys and ends the link between the two, the
  session is closed with those keys unread.

* `xmodem_reframe`. `xmodem.cpp:427` says, of a 1K block cut down to 128 bytes after
  too many errors, that the data is untouched in the buffer and nothing has to be re-read.
  If one of those errors was a lost ACK the receiver has stored the kilobyte under that
  number already: it acknowledges the 128 bytes as a repeat, the sender goes on behind
  them, and the other 896 are stored a second time under the next number.

Five more disagreements have no run of their own: a passing run's formula names the case, and
section 3 or 5 says how to see it by taking the exception out.

| Where the repository says it | What the code does | Named in |
|---|---|---|
| `sshd.cpp:722-726`, ordering and not starvation | callers who rekey for ever keep the task from the links behind them | `RekeysBefore` |
| `xmodem.cpp:937`, a line-hit EOT does not reach here | with a second fault it ends a short file as whole | `StrayEotAmongOthers` |
| `xmodem.cpp:905-906`, a NAK in flight is answered by the copy just sent | not so of a YMODEM header sent again by SendY0Crc | `HeaderTwiceUnheard` |
| `LINK.md:408`, `432-435`, none twice | a session forgotten without a tombstone is opened again by a repeat | `forgot` in InOrderOnce |
| `guard.h:12-13` and `platform.h:60-61`, inside one window, wrap harmless | a failure a turn of the clock old counts again | `UpLessThanATurn` |

### Fairness

* `Runner`: `post()` never blocks, so the loop leaves it; a task that can run gets the
  core whenever the loop sits in its `select`, at least once a pass; `work()` returns.
  That is weak fairness of the end of `post()` and of each task.
* `OperatorRing`: the loop goes round, so each slot's turn and the end of a pass are
  weakly fair; the clock is strongly fair at the end of a pass (a pass in which no tick
  falls is possible, passes without end in which none does are not). Nothing is assumed
  of callers: they may type nothing for ever.
* `SshLink`: the loop and the task are both scheduled, and the task's wait ends after a
  quarter of a second at the latest, so `Loop` and `Task` are weakly fair as wholes; ten
  seconds after a hang-up do pass (`HungLong`). Nothing is assumed of the network, of
  wolfSSH's outcomes, or of a claim.
* `Xmodem`: the loop drives both engines and time passes, which is weak fairness of one
  action (`Pass`); what is on the line arrives within `Latency` ticks or was lost to a
  fault, and the faults are counted.
* `BoardLink`: each end is polled, so what it has to send and hear is weakly fair; a
  timer that keeps running out is taken in the end (strong fairness, since hearing
  anything puts it off). The faults are counted, so the radio carries in the end.
* `ForumStore`: the plugin is ticked every 20 ms and the runner's task runs, so `Tick`,
  `Deliver`, `TickEnd` and `Boot` are weakly fair as one, and so are the runner's steps.
  A job is refused only while the runner's queue is full or its task did not start, so
  one offered at every tick is taken in the end: strong fairness of `TickEnd` with the job
  accepted. The card's errors and the power cuts are counted; callers may do nothing.
* `BulkWindow`: both threads run. `pumpBulk` leaves at once when the state is not its own
  and rests until it is called again, and the loop looks every tick, so a look of the
  loop falls in such a rest sooner or later: strong fairness of `EndCheck` and
  `PumpCheck` at those moments. Nothing makes a fragment come.

## 5. The proofs

TLAPS proves the following for **every** value of the constants that meets the named
assumption of the module (`RunnerAssumption`, `SshLinkAssumption`,
`BoardLinkAssumption`, `BulkWindowAssumption`, `ForumAssumption`, `BansAssumption`,
`RingAssumption`, `XmodemAssumption`), with `ClockAssumption` for the one result that reads
a clock that comes round and `LineAssumption` for those about the XMODEM line.

* `RunnerProofs`: TypeOK, OneTask, NoStrandedJob, BusyCoversWork, RunsOnce (of the runs,
  ServiceSpec says as much), LoopOwnsItsJobs and WakeFindsTask. None is inductive by itself. `RunnerInv` adds what
  the lock protects: `alive` says exactly that a task exists or is being started
  (AliveIsTask), `g_inHand` that one is between taking a job and having run it
  (InHandIsTask), what a task's position says of the job it holds (HandState), that
  queued jobs wait, once each, in nobody's hand (QueueState), and RanState. OneTask then
  follows: a start is attempted only when `alive` was false. `RunnerServes` adds that
  the runner implements `JobService` (ServiceSpec): under RunnerInv each step of the loop
  or of a task is one of the promise's (accept, finish the first, collect) or leaves the
  mapped queue and the finished jobs as they were.
* `OperatorRingProofs`: NothingLeftBehind, RingIsDelivered, QuestionIsItsRing, RingsAreSettled
  and AllowanceIsTheCallers, for any number of nodes, any mailbox of at least two, any
  limits and any wrap of `seq`. `RingInv` says, slot by slot, that both ends of a running
  ring are on the line; that a Ring in the mail is the running ring's and is there
  until it has been shown (MailIsTheRings); that a question on screen belongs to a ring that
  was shown; and that the counts in the limiter are the caller's own. One conjunct is
  less obvious (StepDownHoldsBack): a sysop who steps down with a Ring in the mail still
  has the command's own output waiting, which holds the Ring back until the end of
  the pass has ended the ring. The mailbox underneath is looked at first: `take` removes
  one message of the kinds it is asked for and nothing else (TakenIs), a full box makes
  room by dropping one (RoomKeeps, PushedKeeps), and taking until nothing is left leaves the
  rest in order (AllTakenIs).
* `SshLinkProofs`: TypeOK, HeldIsNotFree, AdmittedByItsOwnAnswer and PasswordIsWiped.
  With no lock the invariant `LinkInv` has to say what each place of one side still
  knows of a word the other may write: the loop between its check and its answer still
  finds the question asked (LoopAsked), because only the loop moves an asked question;
  the task at its "finish" has a link that is not Done (TaskState), because only the task
  does that; a link let go of is no session's (LetGoIsFree), so that giving it back takes
  it from nobody; and an answer in a link is the loop's last word to the connection that
  is in it (AnswerIsTheLoops), because a claim resets both. The proof has the types first
  (one lemma per side and variable), then a step per access in `LoopKeeps` and
  `TaskKeeps`, then the claim. SleepMissesNothing and LoopIsWoken have invariants of their
  own over it. `SleepInv`: a link the task has looked at in this pass and found idle still
  is, or `g_wake` is posted, or the loop is at a post; the post must come after the word it
  is for, and the look after the wake is drained. `WokenInv`: a link with keys in it, or
  whose caller has gone, has its descriptor readable, or the loop is between the pop
  and its repost, or the task between its push and its post.

* `BoardLinkProofs`: KeysAreFresh, for any number of boots, sessions and faults: neither
  end starts its packet numbers again under a key it has had. A key is a pair of nonces,
  one from each end. `KeyInv` says that every nonce in a frame, a key or `pend` has been
  drawn; that the peer's keys have the nonces of HELLOs it has sent, and a HELLO's is
  answered once (`ackUsed`); and that the host's nonce in `pend` is of no key in use, since it
  leaves `pend` when it is put to use.
  Over KeyInv, AckedIsTaken and UpAgrees, in any outage, with any number of tombstones and
  sessions closed outright at any time: a message the sender counts as acknowledged was given to the other
  owner in this boot of the sender, and two ends under one key know each other's
  present boot. No frame of a session says which boot it is of; its key does. `AgreeInv`
  says that there is a map from the nonces drawn to the boots that drew them. `EndInv` has the
  keys, the epochs and the frames of the greeting agree with that map, and two facts about
  the order of things: when the peer has put the pending key in use, no later answer is
  on its way that it would still take (PendingIsLast), and a host that has answered a
  PING under the peer's key has put no other in use since (HostStays). `SessInv` reads every
  table and frame through the map: a DATA is of the boot of its key's opener, an ACK says no
  more than was given in that boot, and what an end has from another boot goes in the step in
  which it learns of the new one.
* `BulkWindowProofs`: TypeOK, TakenInOrder and EndIsTheLastWord, for any number of messages
  and fragments and any window. `WinInv` says what each thread, inside the message without a
  lock, may find: a fragment about to be copied is in the window and its slot
  free, though the runner may have moved the window since it was read (RxInv); where the
  runner can be in each state, so that a state the loop hands back from finds it outside
  (PumpInv, LoopInv); and that a marked slot holds the one fragment of the window that
  belongs there (WindowInv), which rests on two lemmas of arithmetic: two fragments less
  than a window apart do not share a slot (SameSlot), a window further on is the same slot
  (NextSlot).

* `ForumStoreProofs`: TopicSpec, that the writer implements `Topic`, for any number of
  callers and writes, any queue, and any number of card errors, power cuts and CONFIG
  saves. The messages are the records the header names, so a message appears in the step
  that writes a header, not in the one that writes its record, and a rebuilt header may
  name one more than the last. What makes that safe is `CardInv`: the header is behind
  the records by one at the most, never ahead, and every record has its text, the one
  behind included; and `WorkInv`, what the writer knows of the card at each step (a
  post's record is written only after its text, over nothing that is named; the header it
  is about to write names at most one more than the card's). Each card operation is then
  looked at with all that may become of it (HeaderLands, RecordLands, FlagLands, DataLands),
  once for the write that goes through, fails or is cut by the power.
  Three more invariants are about the callers. `AnswerInv`, over `QueueInv` (the op in hand
  is the first not yet written): an op that says "ok" has its message in the files, under
  the ticket it was queued with, one that says "gone" or has removed has it out of sight, and
  `Topic`'s steps keep both true; hence ShownIsThere. `PlaceInv`: the last pointer op
  in the queue has the caller's place, or the card has it; hence PlaceIsKept. `FigInv`:
  a header is right, or a recount is owed, and the last answer on its way to the loop has
  the header's figures, or the loop shows them; hence FiguresAreTrue. Its exceptions are
  named there: a post or removal between its record or flag and its header (Counting), a
  failed header whose recount is queued (Due, Owed), and what `missed` records.

* `BansProofs`: TableIsSound, BanIsKept, BansStandTheirTime and BanIsEarned, for any number of
  entries, addresses and calls, and any clock. The invariant is the sound table itself (one entry for each
  address, nothing in an empty one, a ban exactly where the last failure was counted)
  with one thing more: a call on the line has an address, so that no entry is made for
  the empty one. `SlotFor` and what each caller does with its entry are lemmas about
  tables, so that each action is a few citations. That the first entry of an address
  exists comes from the well-foundedness of the strict subsets of `Nat`.
  BansStandTheirTime compares what the board reads on a clock that comes round with true
  time. It needs `ClockAssumption`: a ban is shorter than half a turn of the clock (15 minutes
  of 49 days), and somebody calls in less than the other half, which is what sweeps the
  table. `StandInv` says that every ban in the table reads, on that clock, the true end it
  was earned with, and that every ban still to be stood is in the table.
  BanIsEarned is about what an entry without a ban counts: `EarnInv` says that its window
  began at a true time which its stamp reads, and that the last wrong answers of its
  address, as many as it counts, were given since, or at most a pass's lag before. It is
  kept by every step while the board has been up for less than a turn of its clock
  (`UpLessThanATurn`, the condition in BanIsEarned; nothing is assumed of how long the board
  runs). Past that it is not so: nothing takes out an entry that has no ban while no other
  address needs its place, and after a whole turn (49 days) its stamp reads as new. The run
  goes one step beyond the turn, and without the condition TLC finds in it an address
  banned for one new wrong answer and one a turn old, where `guard.h:12-13` says that the
  failures that ban are inside one window and `platform.h:60-61` that the wrap is harmless.
  An address has to come back within minutes of the 49 days.

* `XmodemProofs`: NeverAhead for XMODEM, and WrittenIsAPrefix and DoneIsWhole while no large
  block has been cut down (Uncut; past that point the finding `xmodem_reframe` is a
  counterexample, and a transfer in blocks of 128 never gets there: SmallBlocksWhole). For
  any file, block size, modulus of at least 3, limit on errors and polls, any number of
  losses, damages, lost answers, cancels and full disks, and a line that may die; from
  `XmodemAssumption` and `LineAssumption`. Plain names what is left out: YMODEM, and a line
  that makes up an EOT. It excludes every exception DoneIsWhole and NeverAhead make (section 3),
  so the theorems say that Done means whole, and that the sender is never ahead, outright.
  The hard part is not the block numbers but whose turn it is. PlaceOK says that the
  receiver waits for the block in hand or has it and waits for the next, which needs that
  a copy is of the block in hand (CopiesOK) and that an ACK means it is stored (Answered); and
  that needs that there is never a second ACK for one block. `Budget` counts it: a copy on
  the line or in the engine, or its answer, is one at most; and beside it there is no word
  that asks for another, but for one while `selfNak_` is set. A NAK owed for a bad block
  counts from the moment the block arrives. What keeps the count is time: TxClock says that
  the sender's clock cannot run out while a copy or its answer is on its way, so that
  resending off that clock adds nothing, and at most one NAK (which `selfNak_` then drops); RxClock
  the same of the receiver's clock and the words it has said. Each is a sum of a clock and
  an age, which `Tick` leaves as it was. The module has lemmas about counting places on a
  line, about what each engine makes of each input (SenderHears, ReceiverHears), and one for
  each kind of step.

Only model-checked: everything about liveness (AcceptedIsFinished, RingingEnds,
LetGoComesBack, ClaimIsServed, TransferEnds, FileArrives, LinkComesUp, MessagesSettle,
WindowComesBack, WaitsEnd), which the prover used here cannot state; of `Xmodem` what
WrittenIsAPrefix, DoneIsWhole and NeverAhead say of YMODEM and of a line that makes up an
EOT, and DoneIsWhole of a file one of whose large blocks has been cut down with no answer
lost; and of `BoardLink` InOrderOnce.

## 6. Not modelled

Layout and parsing (terminals, screens, forms, editors, the panel, skins, digests) have
no state that several actors share. Drivers and the platform layer are modelled only
where the core rests on what they promise: the lock, the wake, the start of a task.
wolfSSL and wolfSSH (`src/components/wolfssh`) are vendored third-party code and most of
the lines in this repository; they stand as their outcomes. The link's sealing is a frame
that opens under its key or not at all. Of the board link, pairing, several boards on one
satellite, channel hops, unreliable messages, the sending side of a bulk message and the
families on top are left out. The components the plan has not reached (slots and claims,
account lockouts, storage, port mapping, announcements and the other plugins) are listed in
`PROJECT.json`, and not claimed. Of the forums, body segments, the readers' walks and
several forums at once are left out.
