# Verification of the embedded air-conditioner controller

The program runs on an 8-bit AVR. It serves web pages over a W5100 Ethernet
chip, and turns requests such as `/cgi-bin/ac/on?temp=72&fan=2` into infrared
commands for an LG air conditioner. This directory holds TLA+ models of it, the
TLC configurations that check them on small instances, and TLAPS proofs of the
most important results for every value of the constants.

## 1. The system

    peers ==network==> W5100 --SPI--> w5100.c <-- socket.c <-- httpd.c --> romfs.c
                                                                 |
                                                         main.c cgi_handler
                                                          |             |
                                              ratelimit.c <-- TIMER1    lg.c --> TIMER0 interrupt --> LED

    SPI bus: W5100 (w5100.c) and SD card (mmc.c <-- pff.c <-- httpd.c)
    two-wire bus: temperature sensor (i2c.c <-- mcp9800.c <-- main.c cgi_handler)

One main loop (`main.c:356`) calls `httpd_loop()` for ever. Two interrupts run
between any two machine instructions of it: TIMER0 overflow (lg.c, once per
carrier period) and TIMER1 overflow (ratelimit.c, every few seconds). AVR
interrupts do not nest. The W5100 and the peers behind it act at any time.
A watchdog resets the program if `httpd_loop()` does not return for 8 seconds.

| component | state | operations | what makes it correct | what is hard |
|---|---|---|---|---|
| limiter, ratelimit.c | `count`, `seconds` | `ratelimit(limit)`; TIMER1 interrupt | no more than `limit` commands in a window; a refused caller is let through later; no window starts half used | `count++` is three instructions and the interrupt clears `count`; two limits share the counter |
| transmitter, lg.c | `next_command`, the buffer of `lg_send`, the statics of the interrupt handler, the LED pin | `lg_send`; TIMER0 interrupt | an undisturbed command arrives bit for bit; the LED is never on too long; every command ends | buffer shared with the interrupt; a 16-bit pointer stored in two halves; 8-bit counters |
| commands, lg.c | the table | `lg_cmd`, `lg_create_cmd`, `lg_checksum` | valid checksum; warmer is warmer | sums in 8 bits, codes cut to nibbles |
| CGI handler, main.c | settings of the request | `cgi_handler`, `do_on_cmd`, `ratelimit_lg_cmd` | OK exactly if a command was sent; the last value of each setting counts | parameters in any order, repeated, unknown, out of range |
| web server, httpd.c | `_clients`, `_connected_clients`, `_fdset` | `httpd_loop` | every client is answered once, by the right answer, and closed; the loop goes on | the list, the set and the chip are three views of the same connections, and the chip moves on its own |
| request parsing, httpd.c | word buffer, directory reached | `_httpd_read_method`, `httpd_read_path`, `_httpd_handle_uri`, `_httpd_handle_uri_mmc` | what is served is what was asked, with its content type | requests arrive in pieces and break off |
| socket layer, socket.c | none that is read (see below) | listen, select, accept, read, write, close | ended connections return to the pool, live ones are left alone | event bits are read, cleared and acted on in separate accesses while new ones arrive |
| W5100 driver, w5100.c | none; the chip's registers | `w5100_sock_rw`, `w5100_drain` | each buffer is a queue: bytes in order, none twice, none invented | two-byte registers read byte by byte while the chip changes them; pointers that wrap |
| ROM file system, romfs.c | an image in program memory | `romfs_root`, `romfs_open` | finds the entry with the name | - |
| sensor, i2c.c, mcp9800.c | the bus, the sensor's register pointer | `mcp9800_init`, `mcp9800_get_temp` | what is returned was measured, or is 0 | every transfer can fail half-way, and a call may end without STOP |
| SD card, mmc.c and pff.c | `CardType`, `FatFs`, the select line | `disk_initialize`, `disk_readp`, `pf_mount` | the sector asked for; the bus is left to the W5100 | cards of four kinds that miss commands, stay busy and are changed; resets in the middle of a block |
| main program, main.c | where the start stands, watchdog | start, loop, reset | a start ends in the loop; one device at a time on the SPI bus | the processor is reset, the other chips are not |
| SPI, UART, debug log | SPI clock | byte transfers | - | - |

`allocated_socks` of socket.c is written by `sock_listen()` and `sock_close()`,
and after the one `sock_listen()` nothing that is built reads it (the makefile
defines `SOCK_NO_CLIENT`). The build modelled is that of the makefile:
`SUPPORT_MCP9800` and `SUPPORT_MMC` are defined, `SUPPORT_RAW_CMD` is not.

The hazards are listed in `PROJECT.json`, each at its line and with the
properties that would catch it going wrong.

## 2. The modules

| module | models | size of a step |
|---|---|---|
| `RateLimit` | ratelimit.c | the four steps of `ratelimit()` between which an interrupt can run; the interrupt handler |
| `LgTransmit` | `lg_send()` and the TIMER0 interrupt of lg.c | a byte of `memcpy`, a half of the pointer store, one invocation of the handler (one action per branch) |
| `LgCode` | table, codes and checksum of lg.c | operators |
| `AcCommand` | `cgi_handler()` and its callees in main.c, over `LgCode` | a word read by `httpd_read_path()` |
| `SocketPool` | the chip's sockets and peers (external), and what socket.c does to one socket | one access to the chip |
| `Httpd` | `httpd_loop()` and the socket.c calls it makes, over `SocketPool`; the watchdog | one access to the chip, or the code between two |
| `Request` | reading, parsing and answering one request, over a tree of files and a card | one `sock_read()` |
| `ByteQueue` | abstract specification of one buffer of a socket | - |
| `W5100Sock` | `w5100_sock_rw()` and `w5100_drain()` on one buffer | one register or one byte of the buffer |
| `SockIo` | the callers of these: `sock_read`, `_sock_write`, `sock_close`, and what sends a response, the head in short writes and the file in chunks | as `W5100Sock`; the code between two accesses |
| `Sensor` | i2c.c and mcp9800.c, the two-wire bus and the sensor (external) | one command to the two-wire hardware |
| `SdCard` | `disk_initialize()` and `disk_readp()` of mmc.c, and the card (external) | one card command with its answer |
| `Board` | `main()` from reset to loop, `pf_mount()`, the select lines, the watchdog, over `Sensor` and `SdCard` | as these; one access to the W5100 |

`LgCode` is used by `AcCommand`, `SocketPool` by `Httpd`, `W5100Sock` by
`SockIo`, `Sensor` and `SdCard` by `Board`. `AcCommand`, `Httpd`, `Request`,
`SockIo` and `Board` look at the same main loop at different grains: `Httpd` sees
a request as two parts, `Request` as characters, `SockIo` as bytes in the ring of
the chip; what the loop does to a bus in `Board` is any sequence of accesses.

`MC*.tla` give the constants their values. `*Proofs.tla` hold the theorems.
Operators whose comment begins with "Mutant" are plausible bugs of the code;
no specification uses them. They show that each property can fail.

### RateLimit

`count`, `seconds` are the variables of the source, `reg` the register in which
`count++` happens, `pc` the place in `ratelimit()`. `accepted` is a history
variable: the commands accepted since the counter was last cleared, per limit.
`Test`, `Load`, `Store` are lines 52 and 55; `ResetWindow` and `CountSecond` are
the two branches of the interrupt. Its log output has no effect on the state.

`Replenished` says that a caller at a limit is let through again: there comes a
state between two calls in which a request with its limit would pass. The clearing
of `count` is not enough for that, as a `count++` under way puts the old value
back. It can do so more than once, but each time the counter is one higher, and
at the largest limit nobody starts a `count++`. The property leaves out a limit of
1, which the program does not use (it has 3 and 20, `main.c:46-47`): there it is
false, since a command of another limit that is let through before each reset and
stored after it fills a limit of 1 for ever.

### LgTransmit

Main: `Submit` (the call), `CopyByte` (`memcpy`, one byte), `StoreHalf` and
`StoreOtherHalf` (the pointer; the compiler may store either byte first, so the
order is a choice). Interrupt: `Idle` or `PickUp`, then one of the branches of
lines 142-181, then `Advance` (lines 184-188). `PickUp` also drives the first
tick, as the handler does. A pointer of which only one byte is stored points
somewhere else: `command_len` and the bits read through it are then arbitrary
(`frame = "torn"`). The receiver (`since`, `heard`) is external and measures the
distance between the starts of pulses, one block for a 0 and two for a 1, which
is what the source says of the code ("data is transmitted in silence between
pulses"). `intended` is the command that main last asked for at the pick-up.

### AcCommand and LgCode

A word is the result of one `httpd_read_path()`: a name or a number, and the
status. The words are chosen as they are read, so every request of up to
`MaxWords` words is covered. The limiter is seen from outside (a count with a
limit, cleared at any time), which `RateLimit` justifies: `LimitHolds`.
Of `/temp/raw` only the answer is modelled here; the reading is in `Board`.

### SocketPool and Httpd

The chip is modelled from the way the code uses it: status, interrupt bits and
unread data of each socket. Assumptions about the chip: a socket without a
connection ignores DISCON; LISTEN puts a socket back and empties its buffer; a
closing connection ends, acknowledged or given up. A request is counted in
parts, the method and the rest. `Httpd` walks through `httpd_loop()`:
`SelectCleanup`, `PollClient`, `PollPool` (sock_select), `AcceptCleanup`,
`AcceptScan` (sock_accept), `AddClient`, `WalkOn`, `WalkDone`, `ReadMethod`,
`MethodStatus`, `ReadUri`, `UriStatus`, `Respond`, `Close`. The clean-up of one
socket is three accesses, `CleanupRead` (the event bits), `CleanupClear` (one bit
is cleared) and `CleanupListen` (LISTEN), between which the peers act. The entry behind the
array that `Close` may read is unknown (any descriptor); a write behind it
destroys other variables, and the model stops there (`overrun`). An answer is
one step and does not block: a peer that stops reading while the chip's buffer
is full is not modelled. `Restart` is the reset by the watchdog, possible when a
read or the scan of accept cannot go on, or by a power cut at any time.

### Request

The request is a sequence of characters that arrives in pieces and may break
off. It ends with the space behind its URL, since what follows is never parsed.
`ReadMethod` and `SkipMethod` take what is there, as `sock_read()` does;
`ReadChar` is one turn of the loop in `httpd_read_path()`; `NoChar` and
`PathStatus` are the two accesses of the wait between which anything may happen.
`Delegate`, `OpenDirectory`, `NoDirectory`, `EndOfPath`, `DropWord`, `OpenFile`
are the branches of `_httpd_handle_uri()`; `MmcChar`, `MmcNoChar`, `MmcStatus` and
`MmcOpen` are `_httpd_handle_uri_mmc()`, and `ContentType` is the choice of the
type by the part of the name behind its first dot. `romfs_open()` is a look-up;
`pf_open()` finds a file that is on the card or fails. A local variable that was
never written holds any value. Where `.gz` does not fit
behind a name that fills the buffer (one byte), the model stops (`overrun`).
An observation without a document against it: a directory named at the end of
a URL, without a slash, is opened and sent like a file (`httpd.c:283`).

### ByteQueue, W5100Sock and SockIo

`W5100Sock` follows one buffer of one socket; `dir` is the argument `write` of
`w5100_sock_rw()`, which is one procedure for both directions. `ReadLow`,
`ReadHigh`, `ReadPtr`, `CopyByte` and `Commit` are its accesses in order,
`DrainPtr`, `DrainHigh`, `DrainLow` and `DrainCommit` those of `w5100_drain()`.
The two registers of the pointer are changed by this code alone and are read, and
written back with the command, in one step. The chip (external) adds a byte to
its receive buffer or takes one from its transmit buffer between any two
accesses. A cell of the memory that no byte occupies holds `NoByte`, so that a
byte read from behind the data is seen. `Waiting`, the bytes between the two
pointers, is the refinement mapping to the queue of `ByteQueue`; `QueueSpec` says
that every step is a put, a take, a drop of old bytes, a reset, or nothing. What a put
appends is the beginning of what is `offered`, an input of `ByteQueue`: the buffer
that `w5100_sock_rw()` was called with, or the byte that arrives from the network.
So bytes that are written in the wrong order, or one twice, are no put.

`SockIo` adds who calls: a read of any length that waits for its first byte, a
response, `sock_close()` with its drain, the next connection on the same socket
(the pointers go on where they were) and the reset. A response begins with its
head (`SendResponse`, `NextHeadPiece`): the status line, the content type and what
else `sock_write_P()` is called for, in pieces of at most 30 bytes that all go into
the same buffer. Where the cuts between them are is left open. Some responses end
there (`EndWithHead`: HEAD, errors, the answers of `cgi_handler()`); the others go
on with a file from program memory or from the card in chunks of 255 (`SendFile`).
The bytes of a response, head first, are named by their offset in it, and `off`
counts both.

### Sensor, SdCard and Board

`Sensor`: a START (first or repeated), an address, a byte written, a byte read
and STOP are one step each; every one may be refused or lose the bus, and the
`return 1` of i2c.c ends the call where it stands. The bus errors of the hardware
(status 0) are not modelled.

`SdCard`: `SendCmd` is `send_cmd()` with its answer, of which 255 means none. A
card is of one of four kinds, or missing, and `Swap` changes it at any time, also
during a call. `Retry` is the loop of the polls. The bytes of a block are pairs
of a sector and an offset.

`Board`: `W5100Init`, `W5100Config`, `CardPin`, `StartDisk`, `DiskStarted`,
`MountStart`, `MountRead`, `MountStep`, `spi_fullspeed`, `EnterLoop` are the start
in its order. Of `pf_mount()` the calls to the card and the branches are kept;
which offsets of a sector are read and what they say is left open, but that a
partition does not begin at sector 0. The select line of the W5100 is toggled, as
in the code, so a reset in the middle of an access matters. `Reset` keeps the
state of the other chips, `PowerCut` does not. `age` is the time that a start has
taken, counted in polls of the card (`PollCard`). At the clock of the start, 64
microseconds to a byte, a poll takes 1.28 ms (an ACMD) or 0.64 ms, so 12000 or
25000 polls are longer than 8 s. The wait for a data token (`AwaitToken`) ends
after 30000 bytes, which are 1.9 s, as long as 1500 polls (`WAIT`); `pf_mount()` may
come to it six times. All else in the start is short against that: single commands,
of 13 ms each if they get no answer, and blocks of 514 bytes, of 33 ms.

## 3. What TLC checks

| run | bounds | shows |
|---|---|---|
| `RateLimit` | limits 2 and 4 for 3 and 20, 3 interrupts to a window for 240, wrap at 8 for 256 | `LimitHolds`, `SharedLimitHolds`, `FreshWindow`, `Replenished` |
| `LgTransmit` | 2 bytes of 2 bits, two commands of 3 and 4 bits, block of 3 ticks with 1 active, prolog of 4 blocks with 2 active, wrap at 16 | `CleanFrameArrives`, `PendingIsLatest`, `ReadsInBuffer`, `PulsesBounded`, `FrameEnds`, `TakenUp` |
| `LgOverlap` | the same | a violation of `HeardWasSubmitted` |
| `Httpd` | 2 sockets, list of 2, select without extra rounds, 1 part buffered, 2 connections, impolite peers | `AcceptFindsConnection`, `EndedIsFlagged`, `AnsweredOnce`, `NoCrossTalk`, `RoundEnds`, `Relisted` |
| `HttpdSequential` | 3 sockets, list of 3, one polite connection at a time, one extra round of select | `ListMatchesSet`, `AlwaysCloses`, `RequestAnswered` |
| `HttpdLost` | the same, two connections | a violation of `AlwaysCloses` |
| `HttpdTimeout` | as `Httpd` | a violation of `TimedOutIsOver` |
| `AcCommand` | 6 words, limits 2 and 1 for 20 and 3, numbers 3 and 336 | `OkMeansSent`, `LastSettingWins`, `ChecksumHolds`, `WarmerIsNotColder` |
| `Request` | 26 requests, 11 entries in the tree, 4 files on the card, names of 3 letters for 16, 4 on the card for 255 | `ServedWasAsked`, `NotFoundIsNotThere`, `Answered` |
| `RequestSplit` | the same | a violation of `NextReadIsUrl` |
| `SockIo` | 4 values to a byte, a ring of 8 bytes, pointers that wrap at 16, heads of 1 and 4 bytes, files of 0, 3, 4 and 7, chunks of 3 | `QueueSpec`, `FitsIsWhole`, `ResponseEnds` |
| `Board` | sectors of 3 bytes, 2 sectors, 2 temperatures, 2 and 5 polls for 12000 and 25000, 3 polls to the watchdog, 1 to a wait for a token, 3 configuration bytes | `OneOnTheBus`, `SectorIsAsked`, `TempIsMeasured`, `Boots` |

Every passing run but `HttpdSequential` checks the `TypeOK` of its module as well.

Why the bounds are enough. `RateLimit`: two different limits, a window long
enough for a lost reset and a counter that could wrap are all there is to tell
apart; the safety properties are proved for all values. `LgTransmit`: two bytes
make the byte border, two commands of different lengths make every mixture, the
prolog is long enough to be told from a 1, and the wrap at 16 is reached by a
torn length; again the safety properties are proved for all values. `Httpd`: two
sockets are enough for one client to be served while another connects, hangs up
or is relisted, and a list of two overruns; each pass of a scan over two sockets
has a first, a next and a last; the safety properties are proved for all values,
as are those of the modules that follow. `AcCommand`: six words are "ac", "on" and two
pairs, so that a repeated and an unknown parameter occur; 336 is 80 in eight
bits, 3 a fan speed and a temperature below the range; the arithmetic is checked
against all 256 temperatures and proved. `Request`: the requests hold an empty
name, a name that fits, fills and overfills the buffer, a query, directories
two deep, a file in place of a directory, names with an extension that is known,
is not, and is cut, the same on the card, and all three methods and a fourth.
`SockIo`: a ring of two pages has sizes with a high byte of 0, 1 and 2, a carry
into it between any two accesses, a wrap of the ring and two rings to a wrap of
the pointers; a head of 1 is one piece, one of 4 two or more; with their heads the
files take less than the ring, exactly the ring (8 bytes, 1 + 7 or 4 + 4), and more;
a file of 3, one chunk, ends on the card with an empty write. `Board`: three bytes have a part
that is skipped, one that is stored and one that is not; sector 1 has different
addresses in sectors and in bytes; 3 polls to the watchdog lie between the
tries for a version 2 card and those for the others, so that both a start that
gives up and one that is cut off occur; of the waits for tokens, too, a few fit
before the watchdog (four on the board, two here) and six do not; the two temperatures are one that fits
into the packed byte and one that does not.

The runs that a document, a comment or the code disagrees with are violations on
purpose; the findings in `PROJECT.json` quote both sides:

- `HeardWasSubmitted`: a static buffer does not keep the next call from
  overwriting a command on the air (lg.c:73-76).
- `AlwaysCloses`: the removal from the client list takes the entry behind the
  last client and loses a client (httpd.c:355-358). `HttpdSequential` shows that
  with one connection at a time the same property holds.
- `TimedOutIsOver`: a TIMEOUT bit survives a clean-up, or comes between its
  accesses, and hits the next connection on the socket (socket.c:83-91).
- `NextReadIsUrl`: short reads leave a part of the method to be read as the URL
  (httpd.c:81, 109, 350).

Observations that are not findings, because no document is contradicted by a
behaviour, or because the point is outside a model:

- The constants `LG_CMD_TEMP_UP` and `LG_CMD_TEMP_DOWN` (lg.h:41-42) and the
  comments of the table (lg.c:37-38) name the rows the other way round. The
  models take the rows by their constants.
- `w5100_drain()` (w5100.c:148-153) may leave data that arrives between its
  reads, but never moves the pointer past the data, as long as the high byte of
  the size is read first. C does not say which operand of `|` comes first; gcc
  calls the left one. With the other order `QueueSpec` fails: this is its mutant.
- A file on the card whose length is a multiple of 255 ends with a write of no
  byte, which `_sock_write()` repeats until the peer hangs up or the watchdog
  fires (httpd.c:228, socket.c:100). `ResponseEnds` states this exception.
- A response that is longer, head and file together, than the transmit buffer is
  cut when the peer acknowledges slowly (httpd.c:316); if the head is cut, too, the
  file follows all the same. `FitsIsWhole` says that nothing shorter is cut.
- Of "500 SERVER ERROR" and its line end, 18 bytes, only 11 are written
  (httpd.c:65). Wording is not modelled.
- A card that never gets ready, or a sensor that holds the data line after a
  reset in the middle of a read, lets the watchdog fire in every start: the
  program never comes to its loop until the power is cut or the card changed.
  The retries of mmc.c:148 and 161 are not used up before. Nor does it if a card
  lets nearly every read of `pf_mount()` wait the 1.9 s for its token, which takes
  five reads of the six at least; a wait that fails ends the mount or, at the
  first type field, leads on to the table of partitions. `Boots` states these three
  exceptions.
- If the bus is lost at the last byte, `i2c_read()` reports success (i2c.c:142)
  and the fraction of the temperature is 0. `TempIsMeasured` states it.
- The temperature is packed into a byte (mcp9800.c:73): 64 degrees and more, and
  anything below zero, do not fit and come out as others.
- A card that is pulled in the middle of a block returns what is on the line as
  data, with success (mmc.c:212-218); hence `~pulled` in `SectorIsAsked`.
- Comments of mmc.c that the code has outgrown: "timeout of 10 attempts" where
  200 are made (mmc.c:111), and a wait of "100ms" that is 1.9 s
  at the slow clock and less than 100 ms at the fast one (mmc.c:199).
- A path on the card longer than the 255 bytes of the buffer is cut and may name
  another file; the content type is chosen by the part behind the first dot
  (httpd.c:169 says so itself).

### Fairness

- `RateLimit`, `LgTransmit`: weak fairness of the timer interrupt. The timers
  run freely once `sei()` is executed. In `RateLimit` a call of `ratelimit()` that
  has begun ends, too, as it has no loop; that another one begins is not assumed.
  In `LgTransmit` main needs none.
- `Httpd`: weak fairness of the program (the processor runs), of the watchdog
  when the program blocks, and of the end of a connection that the server is
  closing (the chip retries a bounded number of times). No peer is assumed to
  do anything, except in `EagerSpec` (`HttpdSequential`, `HttpdLost`), where a
  connected peer sends its request.
- `Request`: weak fairness of the program and of the network.
- `SockIo`: weak fairness of the program. While a connection is open, a byte
  that waits to be sent is acknowledged, or the connection ends (the chip
  resends a bounded number of times). A peer need not send anything.
- `Board`: weak fairness of the program, and of the watchdog once it must fire.
  `Boots` assumes that resets from outside end; nothing is assumed of the card,
  the sensor, or who changes the card.
- `AcCommand` checks safety only.

`CHECK_DEADLOCK FALSE` is set for `Request` only: a request ends with its answer.

## 4. What TLAPS proves

For every value of the constants that the named assumptions allow:

| theorem | module | property |
|---|---|---|
| `TypeCorrect`, `NeverOverLimit`, `NeverOverSharedLimit`, `AlwaysFreshWindow` | `RateLimitProofs` | `TypeOK`, `LimitHolds`, `SharedLimitHolds`, `FreshWindow` |
| `TypeCorrect`, `AlwaysReadsInBuffer`, `PendingAlwaysLatest`, `PulsesAlwaysBounded` | `LgTransmitProofs` | `TypeOK`, `ReadsInBuffer`, `PendingIsLatest`, `PulsesBounded` |
| `CleanFramesArrive` | `LgFrameProofs` | `CleanFrameArrives` |
| `TypeCorrect`, `OkAlwaysMeansSent`, `ChecksumAlwaysHolds`, `WarmerIsNeverColder`, `LastSettingAlwaysWins` | `AcCommandProofs` | `TypeOK`, `OkMeansSent`, `ChecksumHolds`, `WarmerIsNotColder`, `LastSettingWins` |
| `TypeCorrect`, `EndedAlwaysFlagged`, `AcceptAlwaysFinds`, `AlwaysAnsweredOnce`, `NeverCrossTalk`, `ListAlwaysMatches` | `HttpdProofs` | `TypeOK`, `EndedIsFlagged`, `AcceptFindsConnection`, `AnsweredOnce`, `NoCrossTalk`, `ListMatchesSet` |
| `TypeCorrect`, `FittingIsWhole`, `BufferIsAQueue` | `SockIoProofs` | `TypeOK`, `FitsIsWhole`, `QueueSpec` |
| `TypeCorrect`, `OneAtATime`, `AlwaysTheSectorAsked`, `AlwaysTheTempMeasured` | `BoardProofs` | `TypeOK`, `OneOnTheBus`, `SectorIsAsked`, `TempIsMeasured` |
| `TypeCorrect`, `NotFoundIsNeverThere`, `ServedIsAlwaysAsked` | `RequestProofs` | `TypeOK`, `NotFoundIsNotThere`, `ServedWasAsked` |

These are all the safety properties that a passing run checks, and the refinement
of `ByteQueue`. The assumptions are those stated as `ASSUME` in the modules that
declare the constants, which TLC evaluates on every run:

- `RateLimit`, `LgTransmit`, `AcCommand`: limits, lengths and counters fit into
  the bytes that hold them, and the limit of a power command is the smaller one.
- `SocketPool`, `Httpd`: there is a socket, and room for a client and for a part
  of a request.
- `W5100Sock`, `SockIo`: a byte has two values or more, the buffer is a whole
  number of pages, and divides the range of the pointers (2048 divides 65536).
- `Sensor`, `SdCard`, `Board`: temperatures are pairs of bytes, a sector has two
  bytes or more, and there is a sector 0.
- `Request`: a request has its method, a slash before its URL and a space behind
  it; names in the tree and extensions have no slash; every directory above an
  entry is there (`buildfs.py` writes them from directories); a file name on the
  card does not end with a slash.

`ListAlwaysMatches` has two hypotheses more: one connection at a time, and peers
that wait for their answer, as in the run `HttpdSequential`. Without them the
property is false: with two connections the list and the set come apart, which is
how `HttpdLost` loses a client.

**RateLimit.** The bound on `accepted` is not inductive: while `count++` is
under way the register may hold a count that the interrupt has already cleared.
The invariant says that the commands accepted under any two limits together are
covered by the count, and between the load and the store also by the register,
and that the value a call has seen past its test is below its limit.

**LgTransmit.** `Inv` relates the counters to one another: as long as a frame is
not torn, `sent - 1` is `BYTE_BITS * byte + bit`, the latched length is that of
a command, and so `byte` stays in the buffer whatever `lg_send()` copies
meanwhile. `CopyProgress` says which bytes of the buffer are already those of
the argument. `LedAgrees` relates the LED and the age of the pulse to the
counters. For `CleanFrameArrives`, `FrameInv` adds what the receiver has seen:
`SinceAgrees` gives the distance to the last pulse in terms of `tick`, `block`,
`half` and `sent`, and `HeardSoFar` says that the bits heard are the first
`sent - 1` bits of the command intended. The bit that a pulse completes is 0 or 1 by
the distance, and that is the bit the interrupt read.

**AcCommand.** `TypeOK` with `Progress` (where the request stands and that no
frame is there before an answer) makes `OkMeansSent` inductive. For the checksum
and the temperatures, `SettingFrame` and `Warmer` are lemmas about `LgCreateCmd`
over all bytes, and `TableFrame` goes through the table. For `LastSettingWins`,
`Parsed` says for every place in the query what the settings are: names and
values alternate, and a setting is its default, or the value of the last
complete pair with its name. `NameRead` and `ValueRead` are what one word does
to that.

**Httpd.** Five invariants, each small, because the hard part is what the
network may do in between. `WalkInv`: the walk stands at an entry of the list
that sock_select() found ready. `EndedIsFlagged` needs the types only: a
connection that ends raises its bit in the step in which it ends, and the
clean-up clears it only if it goes on to LISTEN. `SeenInv`: from the moment
sock_select() has seen a CON bit until sock_accept() clears one, there is one,
since nothing else takes them away. `AnswerInv`: an open connection that was
answered is the one about to be closed; hence no second answer, although the
list may hold stale entries. `RequestInv`: a listening socket has no data, and
while a request is read its socket does not listen. For the list, `SeqInv` adds
that flags mean what they say (`FlagsMean`), that one socket at most is open,
and that the list is empty or holds the one descriptor watched; the entry that
the wrong removal would lose never exists.

**SockIo.** `SizeInv`: a size that was read in two accesses is no more than the
size now. Waiting data and free room only grow while the program reads them; a
low byte that covers the request decides alone, and otherwise a high byte that
is 0 by then says that no carry came in between, and one that is not says that
there is enough for any request of one byte. `CopyInv`: the bytes copied are
those behind the pointer that the chip has latched; `ChipInv`: the program's
pointer is that one, and what waits fits the ring. So a RECV drops exactly what
was handed over, a SEND adds exactly what was copied, and each step is a step of
the queue or nothing (one lemma for each action); that the cells written hold the
bytes of the caller's buffer, in their order, is part of `CopyInv`. `DrainInv` says
the same of what `w5100_drain()` drops, which reads the high byte first. `FitInv`
bounds what waits by what was sent on this connection, head and file together: a
write can come out short only when the response has passed the size of the ring.
Most of the lemmas are about remainders: a position in a ring whose size divides
the range of the pointers.

**Board.** `SensorInv` and `CardInv` follow a call through its states: what was
read so far of a temperature is the first byte of what was measured; a block is
whole when its read begins, and the driver's idea of addresses (`CT_BLOCK`) is
right as long as the card it was formed about is ready (`CardMatches`). A card
that was changed is no longer ready, so a wrong idea never reads. `CallInv` says
who may call mmc.c in which stage, and `LineInv` that the select line of the
card is released whenever no call is under way: a reset does not release it, the
start does. `AddressDivided` is the lemma that a sector number survives its way
through the byte address of the command.

**Request.** `GotInv`: as long as the connection is open, the end of the URL is
not behind the program, whichever way the request is split. `PlainInv`: what was
read of the URL is the way to the directory reached, and the word in the buffer;
`WordInv` is the same for the card. `PathsInv`: every entry that the URL names
lies below that directory, so that when a word opens no directory, or no file,
there is none. It rests on `BehindSlash`: two ways to cut a text at its next
slash are the same (`SameName`), if the names have none. `UrlOf` is a fold over
the names of a path; the provers cannot do induction over it, but they can take
a least counterexample (`LeastNumber`), which gives `UrlOfEntry`: the URL of an
entry is that of its directory, a slash, and its name. `SameType` relates the
code's search for the first dot to the suffix that a URL with one dot has.

### Only model-checked

- Liveness (`Replenished`, `FrameEnds`, `TakenUp`, `RoundEnds`, `Relisted`,
  `AlwaysCloses`, `RequestAnswered`, `Answered`, `ResponseEnds`, `Boots`): temporal
  reasoning under fairness is out of the prover's reach.
- The violations: a run shows each one, and a theorem could only say that the
  property does not follow.

## 5. Not modelled, and why

- `pff.c` is Petit FatFs, third-party code, unchanged. `pf_mount()` and
  `check_fs()` are followed in `Board` for the calls they make to the card;
  `pf_open()` and `pf_read()` are external: how the chain of clusters is followed
  is not this program's logic.
- `spi.c`, `uart.c` and the log: a byte transfer waits for a flag of the
  hardware. The order of whole accesses and the clock of the bus are in `Board`.
- `romfs_open()` is a look-up; its linear search through the image, and
  `buildfs.py` which writes the image, are not modelled.
- `sock_connect()`, the ephemeral ports, `disk_writep()` and `do_raw_cmd()` are
  not built. `disk_readp()` without a buffer is never called.
- The timer and UART registers are set once, with interrupts disabled.
- The chip: the command register is taken to be executed at once (the code never
  waits for it, w5100.c:136); a table of partitions that names sector 0, and the
  errors of the two-wire hardware itself, are left out.
- Wording of answers and headers. Their lengths are any lengths in `SockIo`.
- `sock_accept()` scans with `sock & 0x07`, and so also looks at a fifth socket
  that the chip does not have (socket.c:157): left out, as no event comes from it.
- The entry behind `_clients` is a descriptor or none in `Httpd`, and not any byte.
- `httpd_init()` between the card and the sensor (main.c:321) makes accesses to the
  W5100 like those of the loop, and waits for nothing; `Board` goes on without it.
- `htdocs` and `pcb` hold no program.

## 6. Plan

Done, in this order: `RateLimit`, `LgTransmit`, `SocketPool`/`Httpd`,
`LgCode`/`AcCommand`, `Request`, the proofs of the first, the second and the
fourth; then `ByteQueue`/`W5100Sock`/`SockIo` with their refinement, `Sensor`,
`SdCard` and `Board`, the clean-up of `Httpd` access by access, and the card and
the content types in `Request`; then the proofs of all safety properties that the
runs check, and of the refinement. A separate specification of the limiter that
`AcCommand` sees was dropped: it would say no more than `LimitHolds`.

Left for the proofs:

1. What liveness rests on can be proved although liveness cannot: that a step of
   `Httpd` always leads on (nothing but the two reads and the scan of accept
   waits), and that a call of mmc.c in `Board` makes its counters smaller.
2. The mapping from `SockIo` to the parts of a request that `SocketPool` counts.
