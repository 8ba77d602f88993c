# Verification of the RCOM-FEUP programs

TLA+ models, TLC runs and TLAPS proofs about the two projects of this repository: a file transfer
over a serial line (`src/Projeto1`) and an FTP client with the network it is used in
(`src/Projeto2`). File names below are relative to `src/Projeto1/Trabalho_FSilva_JMarinho` and
`src/Projeto2/Trabalho_FSilva_JMarinho` unless a longer path is given.

## 1. Inventory

### Sender — `write_noncanonical.c`
State: the place in `main`/`llopen`/`llwrite`, the sequence bit `seq`, the attempts made for the
current packet, the chunk number. Operations: `llopen` sends SET once and reads for UA (6 s);
`llwrite` frames a payload (stuffing, BCC1, BCC2), writes it and reads for `C_UA ^ seq`; `main`
sends the file size as packet 0 and the file in 4-byte chunks, each with up to five attempts one
second apart; `llclose`. `readRead` is dead code.

### Receiver — `read_noncanonical.c`
State: the place in `main`/`llopen`/`llread`, the automaton of `llread` (state, escape flag, data
collected), the static `expectedSeq`, the idle count, the announced size, the bytes received.
Operations: `llopen` reads for SET (3 s) and answers UA; `llread` takes one frame and answers it
(acknowledgment, duplicate acknowledgment, or "NACK"), and gives up after ten empty reads of 3 s;
`main` reads the size, then chunks until the size is reached or `llread` fails, and writes
`recebido.gif`.

### Virtual cable — `cable.c`
State: one ring buffer of bytes and validity flags per direction, the position in each, whether the
cable is on, the byte error rate, the byte delay, the time of the next byte, the log. Operations: the pacing of the loop
(`timespec_*`), one byte in and one byte out per direction and tick, errors of one bit, and the
commands `on`, `off`, `ber`, `baud`, `prop`, `log`, `endlog`, `quit`.

### FTP client — `clientFTP.c`
State: the addresses not tried yet, the control socket and what is unread on it, the data socket, the local file, the step of the session.
Operations: parsing
of the URL, connection, reading of (multi-line) replies, login, passive mode, retrieval or listing,
quit. A failure up to the login and the binary mode ends the program; one of the transfer goes on to quit.

### Alarm examples and earlier versions — `alarm.c`, `src/Projeto1/Referencia1`, `src/Projeto1/Referencias2`
A loop that sets an alarm again whenever it has gone off, and two generations of the handshake, SET and UA, in such
a loop: `Referencia1` polls with a read of 0.1 s and compares the bytes with an automaton, `Referencias2` blocks
until five bytes have come. State: `alarmEnabled` and `alarmCount`, shared with the handler of SIGALRM, the timer, the
automaton. The files `alarm_sigaction*.c` repeat `alarm.c`, those with (1) and (2) in their names the handshakes, and
`Referencia1/cable.c` the cable.

### Laboratory network — `Auto_Setup`
Static addresses and routes of three computers, a router and a switch.

### Rest
`read_canonical.c`, `write_canonical.c`, `getip.c`, `clientTCP.c` are straight-line samples of system
calls. The other files are reports, captures, images and binaries.

### How they interact
The sender and the receiver share nothing but the serial line; the cable program sits between them and
moves one byte per direction and tick, or loses or damages it. They meet in frames: SET and
UA once, then one frame with data and one acknowledgment per attempt. The FTP client talks to an FTP server
over two connections, through the routes of the laboratory network.

### Hard behaviours
* The handler of the early programs runs between any two statements, and what it assigns may be undone by the next one.
* Either program of the link may be stopped and started again, and meets what the run before left on the line.
* Timeouts are not synchronised: the sender tries every 7 s, the receiver gives up after 30 s; a late
  acknowledgment meets a retransmission already on the line.
* UA and the acknowledgment of sequence number 0 are the same bytes; the "NACK" of a damaged frame is
  an acknowledgment of the other number.
* Any frame may be lost or damaged in either direction, including the last acknowledgment; the
  receiver is gone one second after it has answered.
* The two programs cut a file at different sizes (1 000 000 and 100 000 bytes).
* One damaged byte can cut a frame in two, or glue a frame to the next.
* `llread` acknowledges a packet before `main` has looked at it: the sender may have gone on, or have ended, by then.
* The sender counts chunks, the receiver bytes, and the last chunk is short.
* In the FTP client, replies are matched by order only, and several failures are silent.
* A signal ends the blocking `read` of `Referencias2`, with -1 or with the bytes that have come.

### What makes each component correct
| component | it is correct if |
|---|---|
| sender and receiver | the received file is a beginning of the sent one; a packet is left behind only when it was delivered; exit status 0 of the sender means a complete transfer; both programs end |
| framing | an undamaged frame is recovered byte for byte, a damaged one is not taken for another, and the automata find the next frame |
| virtual cable | bytes leave in order, after the delay asked for, at the rate of the line |
| FTP client | every reply is matched to its command; exit status 0 means a complete file; a refusal destroys nothing; it fails only for a cause; the program ends |
| URL | each part is what the user wrote, or the URL is refused |
| alarm loops | while an answer is awaited an alarm is set; SET is written once per alarm; the loop ends |
| laboratory network | every machine reaches every other one and its replies come back, without loops |

## 2. Plan

The link comes first: it is the core of the repository and the place where two programs, a lossy line
and unsynchronised timeouts meet. Its frames are atomic there; a second layer looks inside a frame.
Then the other programs, each with the properties of the table above.

| step | modules | state |
|---|---|---|
| 1. the link | `SerialLine`, `WriteNonCanonical`, `ReadNonCanonical`, composed by `StopAndWait`; abstract: `FileTransfer` | modelled, checked, proved (`StopAndWaitProofs`) |
| 2. the bytes of the link | `SerialFrames`, `LineDamage`, `FrameReceiver`, `SupervisionReceiver`, composed by `NoisyLine` | modelled, checked, proved (`NoisyLineProofs`) |
| 3. the virtual cable | `Timespec`, `CablePacing`; `Cable`; abstract: `DelayLine` | modelled, checked, proved (`CableProofs`, `CablePacingProofs`) |
| 4. the FTP client | `FtpConnections`, `ClientFTP`, `FtpServer`, composed by `FtpSession`; `UrlParsing` | modelled, checked, proved (`FtpSessionProofs`, `UrlParsingProofs`) |
| 5. alarms | `AlarmSignal`, `AlarmLoop`, `ByteLine`, `PollingHandshake`, `BlockingHandshake`, composed by `EarlyPrograms` | modelled, checked, proved (`EarlyProgramsProofs`) |
| 6. the link against the clock | `TimedLink`, on top of `StopAndWait`: the timers, and programs stopped and started again | modelled, checked, proved (`TimedLinkProofs`) |

## 3. Modules

### The link: `SerialLine`, `WriteNonCanonical`, `ReadNonCanonical`, `StopAndWait`
A frame is atomic: `[ctrl, pkt]` towards the receiver, where `pkt` is 0 for the file size and `n` for
the n-th chunk, and a control byte towards the sender. `pkt` is what the frame carries; the programs
look at `ctrl` and at its length in bytes (`Payload`): `main` of the receiver tells the size from a chunk by it, and counts
bytes (`totalReceived`) until they are as many as announced, where the sender counts chunks, rounded up (`NumChunks`). Each direction is
a queue from which the line may drop any frame; a frame damaged in its header is read over
(`R_ReadsOver`), one damaged in its data is answered by the "NACK" (`R_RejectsDamaged`).

`WriteNonCanonical` has `spc`, the place in `llopen`, `llwrite` and `main`, and `pkt`, `seq`,
`attempts` of `main`. `S_Transmits`, `S_ReceivesAck`, `S_IgnoresAck`, `S_TimesOut` and `S_WriteFails` are the
outcomes of the calls in `llwrite`; what `main` does when `llwrite` returns is part of the same action (`NextPacket`,
`AttemptFails`). `ReadNonCanonical` has `rpc`, the static `expectedSeq`, `idleCount`, `frameData` of `llread`, and `fileSize`,
`totalReceived` and `received` of `main`; `R_Acknowledges`, `R_AnswersDuplicate`, `R_RejectsDamaged`, `R_ReadsOver` and
`R_ReadsNothing` are the outcomes of `llread`. A packet that is accepted takes two steps: `R_Acknowledges` writes the answer, and
`R_Takes` changes `expectedSeq` and does what `main` does with the packet. Between the two (`sizeAcked`, `chunkAcked`) the
sender may send again, go on or return. The toggle of `expectedSeq` and `main`'s store are one step, memory of one process. A call
may fail wherever the code tests for it; a `read()` may time out at any moment, which includes every timing of the real
timers.

`FileTransfer` is what the two promise together; `StopAndWait` gives the refinement mapping (`FT`).

Left out: a partial `write()` of an acknowledgment (5 bytes), a failing `llclose` (printed only), and the
statistics. The data of a chunk is its number.

### The bytes: `SerialFrames`, `LineDamage`, `FrameReceiver`, `SupervisionReceiver`, `NoisyLine`
A byte is the set of its bits. `SerialFrames` builds what `llwrite` builds; `FrameReceiver` is the automaton of
`llread`, one action per state; `SupervisionReceiver` the one of `llwrite` (the sender's `llopen` has the same one; the receiver's,
for SET, is modelled as an atomic frame only). `LineDamage`
inverts one bit or drops consecutive bytes, as the noise and `off` of the cable do. `NoisyLine`
joins them: one damaged frame and undamaged copies read by `llread`, or a damaged sequence of
acknowledgments read by `llwrite`. It justifies how `StopAndWait` treats damage, and shows the exception: a wrong bit
that makes a flag cuts a frame, and a piece of its data may pass the checks (`OnlyACutDeceives`).
`StopAndWait` does not include this: there a damaged frame is never accepted.
Two errors that cancel in the XOR are not detected either, and are not modelled.

### The cable: `Cable`, `DelayLine`, `Timespec`, `CablePacing`
`Cable` is the loop of `main` in two steps, the exchange of bytes and the command. `DelayLine` is the
abstract cable: a queue in each direction, as long as the delay asked for to the nearest byte (`Fits`), and set up anew when the
rate or the delay changes. The mapping reads the ring from the entry
after the index (`InFlight`). The log (`logging`, `logged`) is one line per tick with what came in and went out in each direction. Noise replaces a byte by any other, a superset of one wrong bit.
`CablePacing` is the same loop seen as time: `Paces` computes the wait, `Works` lets the body of the loop take
some time, `Waits` sleeps for the wait or longer, `Skips` does not sleep. `due` is a history variable. The warning
about an unreliable rate is left out.

### The link against the clock: `TimedLink`
`TimedLink` EXTENDS `StopAndWait` and takes its actions as they are, each allowed at its own time only. A tick is half a second.
A frame carries its age on the line (`fwdAge`, `backAge`) and is read once it is `Delay` old; `sLeft` and `rLeft` are the time
that is left of a `read()`, of the second of sleep after a failed attempt, or of the pause before a program is started again.
`Tick` is allowed only when no program has anything to do: the programs take no time of their own. `T_SendSet` and
`T_OpensPort` add the `tcflush` of `llopen`, which `StopAndWait` does not need, as its line is empty then.
`KillSender` and `KillReceiver` stop a program anywhere, `RestartSender` and `RestartReceiver` start it with fresh
variables and the line as it is. What a receiver held is gone when it is killed (`Forgets`): `recebido.gif` is written at the very end.
`lost` is a history variable, the packets it had acknowledged by then. `Attempts`, `Silence` and `PatienceAssumption` say how the time-outs of the two programs have to
fit together; `UnderWay` are the places of the frames that have not arrived. `TimedInv` is the inductive invariant. `S_SkipsAck` and `R_SkipsFrame` are the frames of another run that the two `llopen` read over.
Of the failing calls only the time-outs are kept, the others are in `StopAndWait`.

### The early programs: `AlarmSignal`, `AlarmLoop`, `ByteLine`, `PollingHandshake`, `BlockingHandshake`, `EarlyPrograms`
`pc` is the place in the running program at the grain of single tests, assignments and calls, since the handler
(`E_GoesOff`, `P_GoesOff`, `B_GoesOff`) may run between any two of them. `pending` is the timer of the kernel. It is not
measured: an alarm goes off at any moment after it was set. `heldUp` is a history variable: the last alarm went off where the program
undoes its effect, or does not notice it. `AfterByte` is the automaton of both programs of `Referencia1`. The read of five bytes of
`Referencias2` is one step. An alarm inside it ends it (`B_Interrupted`, there is no `SA_RESTART`): with -1 if nothing has come, and the program
leaves its loop; with the bytes that have come otherwise, and the loop goes on. The build is taken to be one without optimisation: `alarmEnabled` and
`alarmCount` are not `volatile`, so a compiler may keep them in registers. `buf[5] = '\n'` of `Referencias2` (l. 112)
writes beyond its array and is taken to hit nothing that matters. Writes of five bytes are taken to succeed; the code does not look.

### The FTP client: `FtpConnections`, `ClientFTP`, `FtpServer`, `FtpSession`, `UrlParsing`
`ClientFTP` has `step`, named for the command in hand, `reading` (in `read_reply`), `code` (its `expected_code`),
`message` (its first line), `untried` (addresses of the host that are left), `status` of `main` and the local file. `Welcome`, `ftp_login`, `ftp_set_binary`,
`PasvReply`, `ftp_retr_file` and `ftp_list` say what each function goes on to do after a reply. A line of a reply is its first digit, whether a space
follows the code, whether it has an address in it, and a label that says which command it answers: only the properties look at the label. `FtpServer` is external: it
answers each command once and a transfer twice, in order, with any of the codes that the client tells
apart; a line may be longer than the client's buffer, which then reads it as two (`Overlong`); the server may refuse, put the address of PASV in
a later line, give up a transfer or close the control connection, in the middle of a line too, and the data connection may break.
The client's machine may refuse it a socket or a file, a write (`WriteFails`) or, when the file is closed, the rest of what was written
(`FlushFails`: any part of the file may be missing at its end).
`wrong` of `FtpSession` is a history variable, what has gone wrong so far: a fault of the server, of a connection or of the machine; a correct reply that the
client misreads (`Unusual`); a flush that failed. The first two are `trouble`, what makes the client fail. `UrlParsing`
is `parse_url`, `basename_path` and the decision of `main`, over strings of one-character strings,
because what the parts may contain is the question. The words are those of the grammar in the usage message (`GrammarAssumption`): no
separator in a part that ends at it, so no `:` in a user or a host, no `@` or `/` before the path; a password may hold `:`, a path anything.

## 4. Runs

| run | shows | bounds |
|---|---|---|
| `transfer` | `ReceivedInOrder`, `AcknowledgedIsDelivered`, `SuccessMeansComplete`, `BacklogBounded`, the inductive `TransferInv` (`LinkInv` and `Copies`), the refinement of `FileTransfer`, and, under fairness, that both `main` return | a file of 10 bytes in chunks of 4 as in the code: four packets, so that each value of the bit is used twice, the last one short; 5 retries as in the code; 3 idle reads for 10 (the count is only compared with its limit) |
| `oversize` | a file longer than the receiver's buffer is never reported as sent | buffers of 9 and 8 bytes for 1 000 000 and 100 000, a file of 12: the sender sends one byte more than the receiver keeps, in a chunk of its own |
| `noisy_line` | stuffing is transparent, what one wrong bit can do, resynchronisation, answers do not multiply, damage only removes acknowledgments | payloads of 1 and 2 of 7 critical bytes, two copies; four acknowledgments. Payloads of 3 bytes (3.1 million states) behave the same |
| `timed_link` | `OneUnderWay`, `NoAttemptWasted`, `SuccessAcrossRuns`, the inductive `TimedInv`, of which `ReceivedInOrder` is a part | the time-outs of the code in ticks of 0.5 s: 6 s, 3 s ten times, 1 s of sleep, 5 attempts; a frame takes one tick; the file of `transfer`; two runs of each program (three, 0.34 million states, behave the same); 1.5 s between two runs |
| `early_programs` | the inductive `EarlyInv`, `AlarmIsSet`, `OneSetPerAlarm`, `Resynchronises`, `SilenceIsNotResent`, `LoopEnds` | the programs' own bounds: three or four alarms, reads of `BUF_SIZE` = 5 bytes; `alarmCount` is at most 5, as a last alarm may go off after the last test; every byte on the line may be lost or become another byte of the two frames |
| `ftp_session` | the inductive `SessionInv`, `InStep`, `OldFileKept`, `DownloadedUnlessUnnoticed`, `NoFailureWithoutCause`, `ClientReturns` | two blocks, one or two addresses of the host, three forms of replies: one line, several, several with a line without code; each line may be overlong |
| `ftp_unnoticed` | finding 1 | the same |
| `url_parsing` | `PartsRecovered`, `DownloadIsNamed` | arrays of 3 to 16 characters in the proportions of the code, parts around their sizes |
| `url_credentials` | finding 2 | the same |
| `cable` | `ImplementsDelayLine`, the log and the length of the delay included | byte delays of 9600 and 1200 baud with 0, 1 and 2 ms: rings of 1, 2 and 3 entries, rounding up and down |
| `cable_bad_ber` | finding 3 | the same |
| `cable_pacing` | `OnSchedule`, `TimesOK` (normal times, no negative wait), the inductive `PacingInv` | the same two byte delays, a start 2 ms before a second ends, wake-ups up to 4 ms late |

`BacklogBounded` counts the frames and the answers of both directions together, and is tight: if the receiver takes one of the `MaxRetries` copies of a packet and is then held up,
the acknowledgment lets the sender add `MaxRetries` copies of the next packet to the `MaxRetries - 1` that are left.

Deadlock is checked in the runs of the FTP session, whose only final states are those after `exit`
(`Exited`). Elsewhere the programs end or the inputs are used up, so it is switched off.

## 5. Fairness

Liveness is checked for the link, the FTP client and the early programs. For the link each program is weakly fair in what it does by
itself (`SenderRuns`, `ReceiverRuns`): the system schedules it, and `VTIME` ends each `read()`. Losses, damage
and failing calls are not fair, they need not happen. For the FTP client
the server is fair as well (`ServerRuns`, or `Aborts` for a transfer that cannot go on): it answers each command or closes the connection. The client has no timeout, so with a
silent server it waits for ever; `ClientReturns` is about what the client brings on itself.
For the early programs the running program is fair, and so is its alarm: a timer that is set runs out. The other program and the
line are not, `LoopEnds` holds with nobody at the other end.

## 6. Proofs

All theorems hold for every value of the constants that the assumptions named below allow. Each module proves one inductive
invariant, with a lemma for every action, and derives the other theorems from it; a run checks each of these
invariants on its instance too.

### The link: `StopAndWaitProofs` (1886 obligations)
For every file, buffer sizes, retries and idle reads.

* `LinkCorrect`: `TypeOK /\ LinkInv` is an invariant. `ReceivedInOrder` is not inductive: why an accepted frame is
  the next piece depends on what both queues may still hold. `LinkInv` says it. Either the handshake is
  not over and there is one frame at most on the line (`Handshake`), or the two programs are in step
  (`Transfer`): while packet `pkt` is not delivered (`Outstanding`) the queue to the receiver holds copies of
  `pkt - 1` and then of `pkt`, and no acknowledgment of `pkt` exists; once it is (`Released`) only copies of
  `pkt` are left, and acknowledgments of it come after those of the other number. With `Bits`, an alternating bit is enough
  to tell the packets apart.
* `ReceivedInOrderHolds`, `AcknowledgedIsDeliveredHolds`, `SuccessMeansCompleteHolds`, `OversizeIsNotReportedSentHolds`: consequences.
* `Refinement`: `Spec => FT!Spec`, each step a step of `FileTransfer` or a stutter.
* `TransferCorrect`, `BacklogBoundedHolds` (the bound is on frames and answers together): `LinkInv` does not count. `Copies` does: a copy of the packet in hand that has
  n frames behind it was followed by n more transmissions, and a packet that is delivered leaves fewer than `MaxRetries` copies to the next one.
  The SET is the one frame that no attempt accounts for (`SetIsAlone`).

### The bytes of the link: `NoisyLineProofs` (5552)
For every alphabet, length of the payload, number of copies and length of the run of acknowledgments.

The model computes with `FlattenSeq` and `FoldSeq`, which are recursive. `Induction` and `SeqInduction` are the principles
of induction on sets (from the well-foundedness of `<`, `WFMin` and `NatLessThanWellFounded` of the library, which needs no operator
for a parameter); from them `FlattenFirst` says what a flattened sequence begins with. `FrameFirst` and `RestFirst`
then give the next byte at every place of a frame. The fold of BCC2 takes the bytes in an order of its own: any order gives the same
(`AnyOrder`), so one more byte is one more exclusive or (`Bcc2Append`).

* `TypesHold`: types of both automata and of all bytes on the way; the data and the escape flag belong to the state DATA.
* `TransparentHolds`: `Undamaged` is an invariant. While a copy is read, the automaton is in the state that belongs to its place, with the
  bytes collected so far (`AtAddress` to `AtEscaped`, `InCopy`), and everything before it has been recognised; a step moves it to the next place
  (`CopyStep`), so undoing the stuffing is an invariant of the automaton and not a computation over the whole frame.
* `SecondCopyRecognisedHolds`: `BackInStep` is an invariant. Nothing is said of the damaged frame: it leaves the automaton in any state
  (`AnyStateAtFlag`). The copy that follows may be read over or taken for data, but what it escapes it escapes in pairs: its
  last FLAG is not taken for data, and the copy after it begins in START or FLAG_RCV (`AstrayStep`).
* `AnswersBoundedHolds`: `Answers` is an invariant. A verdict costs two FLAGs, one to leave START and one to end the frame (`Spent`,
  `SpentStep`); a damaged frame has three at most, a copy two (`CarriedHasThree`, `FrameHasTwo`).
* `DamageOnlyLosesHolds`: `AcksInStep` is an invariant. Acknowledgments have five bytes each (`FlattenFives`), so
  a place on the line is a frame and a byte of it. Before the damage, and again some bytes after it, the automaton of `llwrite` is in the state
  that belongs to its place (`SoundAt`); between the two it may be astray, but in one of a few states none of
  which can accept a frame that was not sent (`StrayAt`), and the next undamaged FLAG ends that. `Explains` says the rest: what has been
  accepted so far is what `Alternating` makes of the frames without some of the damaged ones. One lemma for each kind of step:
  `SoundStep`, `StrayStep`, `FlipStep`, `LossJump`.
* `OnlyACutDeceivesHolds`: `OneBit` is an invariant. Until the bit is read, the automaton is in step with the frame as it was sent (`Pending`);
  `StruckHeader`, `StruckData` and `StruckEscaped` say where each byte leaves it if the bit was in that one, and `AfterBit` lists what follows: it is in step
  with the next copy; or it waits for a FLAG in START (`Idle`); or it collects data whose exclusive or is not that of the body so far, and which
  fails the check at the end. Where the bit made or unmade an ESC, the exclusive or is first off by ESC or by ESC with that bit inverted
  (`FalseEscape`, `LostEscape`), which no later byte makes up for (`NearEscIsFar`, `FarIsOff`). Only a FLAG made of a data byte ends the frame
  early, and what the check then lets through is a beginning of the payload (`CutAnswer`).

### The cable: `CableProofs` (457), `CablePacingProofs` (203)
* `CableTypeOK`, `CableRefinement`: `Spec => ImplementsDelayLine`, for every set of bytes, rates and delays (`CableAssumption`). The
  place of a byte in the queue of `DelayLine` is its distance to the index, modulo `bufSize`; that the ring moves by one
  place per tick while the queue moves by one byte (`RingTurns`) is the heart of it. Each command is a step of `DelayLine`, a change
  of rate or delay starts both with empty queues of the same new length, which is the nearest to the delay (`Rounds`).
* `SumMeans`, `DiffMeans`, `NegativeMeans`: `timespec_sum`, `timespec_diff` and `timespec_is_negative` are
  addition, subtraction and sign on normal times, and keep times normal.
* `PacingCorrect`: `nextTxTime` is always the start plus the byte delays since then; a turn begins at most
  `Lag` after its place in it. From it `OnScheduleHolds` and `TimesOKHolds`. `PacingAssumption` is what it needs of the machine:
  the body of the loop is no longer than the shortest byte
  time, and no turn is longer than its wait plus `Lag`. The program can only ask for the first with its
  real-time priority, and warns when it falls a second behind.

### The link against the clock: `TimedLinkProofs` (2966)
For every file, delay, time-out, number of attempts and number of runs.

* `TimedCorrect`: `TimedInv` is an invariant. `Turns`: a frame is live while it can still be read; there is one live frame at most, and
  the sender's read does not end before it, or the answer to it, has been read. `Links`: which run of the sender the
  receiver is linked to (`peer`), and that the two agree on packet and bit, as only the linked run is answered. `Patience`: how long
  the receiver has heard nothing (`Idle`), and that this, with what the attempts that are left will take, is at most `Silence`.
  The actions are sorted into kinds (a program sends, reads, times out, ends) and the clocks are reasoned about once for each kind.
* `OneUnderWayHolds`, `NoAttemptWastedHolds`, `SuccessAcrossRunsHolds`: consequences. The last says that one run of the receiver has acknowledged
  the whole file, not that it still has it: it may have been killed since (`lost`).
* The assumptions are part of the result. `TimedAssumption`: the sender's time-out and the pause between two runs are longer than
  the way there and back. `PatienceAssumption`: the idle reads of the receiver outlast `Silence`, which is
  the way there and back and all the sender's attempts but one. With the times of the code this is 60 ticks against
  56 and two delays: it holds for the delay of the run, one tick, and not for two, as section 7 says.

### The FTP session: `FtpSessionProofs` (2075)
For every number of blocks and of addresses, and every set of reply forms that `ServerAssumption` allows (of the lines of a reply the last one
has a code and a space, and no other).

* `SessionCorrect`: `SessionInv` is an invariant. Up to QUIT (`Following`; later the client looks at nothing the server
  says) it says for each step of the client which commands and lines can be on their way (`InStage`, `LinesInOrder`,
  `TransferInOrder`), what the first digits tell of the server (`CodesTell`), where the blocks of the file
  are (`BlocksInOrder`), that the address of PASV is in the line the client looks at (`AddressComes`), and that `local` is what was received unless a flush failed
  (`Downloaded`).
* `InStepHolds`, `OldFileKeptHolds`, `DownloadedUnlessUnnoticedHolds`, `NoFailureWithoutCauseHolds`: consequences.

### The URL: `UrlParsingProofs` (900)
For all words of the grammar (`GrammarAssumption`; the empty ones are not excluded) and all sizes of the arrays.

* `PartsRecoveredHolds`: nothing here is inductive but that `url` is `parse_url` of the parts (`UrlInv`); the work is in the algorithm. `SplitAt`: the first
  place of a separator in `s \o <<c>> \o t` is the one after `s`, if `s` lacks it. `PathParsed`, `AuthorityParsed`, `CredentialsParsed` and
  `HostPortParsed` apply it once for each `strchr`, in the order of the code; `CopiedIsWord` is `strncpy` of what fits.
* `DownloadIsNamedHolds`: `NameInv`. Whatever was cut, a path is empty or begins with `/` (`PathIsRooted`), so one that does not end in `/` has
  a name after its last `/` (`NameOfPath`; that a last one exists is `HasGreatest`).

### The early programs: `EarlyProgramsProofs` (413)
* `EarlyCorrect`: `EarlyInv` is an invariant, the handler interrupting any two statements. `AlarmAwaited` and `NoAlarmUnawaited`: whether an
  alarm is set at each place of the loop, `heldUp` the only exception; `CountIsTested` and `SetsArePaired`: how the number of SETs
  follows the number of alarms; `TurnsReturnBytes`: every turn of the second generation's loop but the last ends with a read that has returned
bytes, all of them or, interrupted, some; `OneAnswer`.
* `AlarmIsSetHolds`, `OneSetPerAlarmHolds`, `ResynchronisesHolds`, `SilenceIsNotResentHolds`: consequences. `BUF_SIZE` may be
  any number but zero (`BufAssumption`).

### Only model-checked
Liveness (`SenderReturns`, `ReceiverReturns`, `ClientReturns`, `LoopEnds`), for which the provers have no rule of fairness. Every invariant
and every other temporal property of a passing run is a theorem.

## 7. Findings

1. `clientFTP.c:703` (run `ftp_unnoticed`, `DownloadedIfFlushed`): the loop of `ftp_retr_file` ends alike for the end of the data and for a failed
   `recv`. After a reset of the data connection that the server does not notice, the reply is 226 and the exit
   status 0, with a part of the file. It needs no failure of the client's machine; a failed `fclose` (l. 715), which
   nobody looks at, has the same effect. `DownloadedUnlessUnnoticed` says that these two are the only ways to status 0 without the whole file.
2. `clientFTP.c:165` (run `url_credentials`): the test for "credentials too long" can never be true; a longer user name is cut.
3. `cable.c:466` (run `cable_bad_ber`): a bit error rate that is refused as bad is in force nevertheless.

Seen in the code, without a run of their own:
`read_line` stops at the end of its buffer, so a longer line is read as two, though the comments promise a whole line and a whole reply
(`clientFTP.c:296`, `:344`): only after TYPE, where the rest hides the address of PASV, does the session fail for it (`Unusual`, `NoFailureWithoutCause`);
the sender may report a failure although the file is complete, if the acknowledgments of the last packet are lost; the
receiver returns 0 for an incomplete or unwritten file; the comment on `read_reply` gives
"150 ...\r\n230 ...\r\n" as one reply of several lines (l. 354), which `read_reply` reads as two;
`readRead` of the sender returns 1 when nothing was read, its comment says the opposite, and nothing calls it;
the comment "4096 bytes of raw data" (`write_noncanonical.c:426`) stands beside a chunk of 4 bytes; after a local failure of a
download, QUIT reads the late reply of the transfer (`InStep` excepts QUIT for it).

`NoAttemptWasted` depends on the margin between 5 times 7 s and 10 times 3 s, less the delay of the line: the fifth attempt goes out
28 s after the receiver's last byte, give or take two crossings. With the cable's longest delay (`prop`, 1 s; `Delay = 2` in `timed_link`) the fifth attempt
may arrive in the very moment in which the receiver gives up, and the property fails.
`tcflush` helps a program that is started again only against frames that have arrived; without a pause as long as the line takes
there and back (`Pause`), an acknowledgment or a chunk of the run before is taken for one of the new run, and the received file may hold
a chunk twice. No code makes that pause: `OneUnderWay` and `SuccessAcrossRuns` are about users who wait that long.
A sender that returns 0 knows only that the file was acknowledged; a receiver killed before it has written `recebido.gif` has nothing to show for it (`lost`).
The early programs: the handler's reset is undone if the alarm goes off between `alarm(3)` and the assignment, and then `alarm.c` goes
round for ever and `Referencia1` sends no SET any more and polls for ever (`heldUp` in `AlarmIsSet` and `LoopEnds`); an alarm between the tests of
`alarmCount` and `alarmEnabled` lets `Referencia1` write SET four times where its message says three attempts (`Referencia1/write_noncanonical.c:157`); `Referencias2` blocks for
ever if the alarm goes off before it is inside `read`;
`Referencias2` sends SET again only to a line on which something has come: silence ends it at the first alarm (`SilenceIsNotResent`), while a part of an
answer, which `read` returns when the alarm ends it, or a whole one, sends it round its loop; the answer it accepts is any bytes;
an answer that is half read when SET is repeated is lost, and the receivers of both generations answer once only.
The log of the cable shows as received by the other side the bytes that were in flight when the cable was switched off, though they are never written
(`cable.c:405`): `Told` of `DelayLine` says so.
A line within a reply of several lines that itself begins with three digits and a space ends the reply too early (`clientFTP.c:393`):
the forms in `Shapes` have none.

## 8. Not modelled

The laboratory network: addresses and static routes in scripts of the machines' own commands, without state or messages of their own; what
they bring about is decided by systems that are not in the repository. The numbers in the reply to PASV (an address is there or not) and the
digits of an address; the layout of the log, the help and the terminal of the cable, and the setting of its ports; at the byte level the automaton of the
receiver's `llopen`, which is the one of `Referencia1/read_noncanonical.c` (`AfterByte` in `ByteLine`) but for its time-out; two errors in one frame; the canonical examples,
`getip.c` and `clientTCP.c`, a few system calls in a row; the copies named in section 1; reports and captures.
