# A TLA+ model of libdfu

libdfu programs the flash memory of a microcontroller (STM32, AVR, Nordic) from
another one (ESP8266) or from Linux.  A file arrives from a client in blocks, is
recognised, decoded, cut into chunks of the size of a flash page, and sent to
the target through a serial line or a SPI bus.  Everything runs in one thread,
in an idle loop the application calls again and again; nothing blocks, so every
part is a state machine that advances by one step per call, and the hard
behaviours are those of the order of these steps.

All paths below are relative to the root of the repository's copy (`src/` holds
the library, so its own sources are in `src/src` and `src/include`).

## The system

| Part | Code | State | Operations | Modelled in |
|---|---|---|---|---|
| Ring buffers | `include/dfu-internal.h` 193-329 | head and tail of the raw ring, of the decoded ring and of the pool of chunks | count, space, put and get chunks | `DfuRing` |
| Binary file layer | `src/binary-file.c` | raw and decoded bytes, write chunks, `written`, `really_written`, `rx_done`, `flushing`, rx timeout | append, flush, decode and enqueue, write a chunk, chunk done, timeout | `BinaryFile` |
| Raw binary format | `src/binary-format-bin.c` | current address | decode | `BinaryImage` |
| Intel HEX format | `src/binary-format-ihex.c` | private data, base address, next address | probe, decode line by line | `IhexImage` |
| Idle loop | `src/dfu.c` 193-294 | error count | poll, fire a timer, target idle, write and flush, wait in the host | `BinaryFile` (order of the steps), `TimeoutList` (timers) |
| Timeouts | `src/dfu.c` 122-191 | a list of differences of deadlines | set, cancel, trigger | `TimeoutList`, abstract `Timers` |
| Command engine | `src/target/dfu-cmd.c` | status, index of the buffer, bytes received, timer, busy flag | start, run a buffer, interface event, timeout, synchronous wait | `DfuCmd` |
| STM32 target | `src/target/stm32-usart.c`, `src/target/stm32-device-f469.c` | bit masks of erased sectors, sectors being erased, address in flight | synchronise, probe, erase on demand, program a chunk, fini | `Stm32Target`, abstract `FlashTarget` |
| STK500 target | `src/target/stk500.c` | page in flight, attempts to load its address and to synchronise | synchronise, set up, erase, load an address, program a page | `Stk500Target`, abstract `FlashTarget` |
| AVR ISP target | `src/target/avrisp.c` | bytes of the chunk already loaded, a timer left by a failed exchange | synchronise, erase the chip, load a page byte by byte, program, poll | `AvrispTarget`, abstract `FlashTarget` |
| Nordic target | `src/target/nordic-spi.c` | kind, size and offset of the object on the device, chunk and file in flight | select, create, send, checksum, execute | `NordicSpi` |
| Nordic zip format | `src/binary-format-nordic-zip.c` | state of the archive, files, manifest, image being sent | probe, store, ignore, read the manifest, send, realign | `NordicZip` |
| File container | `src/file-container.c`, `src/file-container-esp8266.c` | descriptors, free sectors, files, sectors and headers in flash | open, read, write, close, remove | `FlashAccess`, `FlashFiles` |
| Reception over lwIP | `src/rx-method-http-lwip.c`, `src/tcp-conn-lwip-raw.c`, `src/http-url-flash-upload.c` | pool of connections, the request being received and served | accept, receive, poll, serve, answer, close | `HttpLwip`; as a client of `BinaryFile` |
| Interfaces, hosts | `src/interface*`, `src/host` | bus registers, file descriptors | read, write, poll, clock | external: bytes on the wire and the clock |

How they interact:

- the **client** appends blocks to the raw ring, from an event of the loop (HTTP)
  or from the application between two iterations (a file);
- the **loop** calls, in this order, the interface, the file, the first timer, the
  target's idle operation, `dfu_binary_file_on_idle()` (write, then flush), and
  the host's wait, which delivers events again;
- **flush** calls the format, which takes raw bytes and fills the decoded ring; what
  it returns is cut into chunks; **write** hands a pointer into the decoded ring to
  the target, which calls `dfu_binary_file_chunk_done()` later;
- the **HTTP server** gives the whole body of a POST to the binary file layer in one
  block, once the block fits, and tries again at the next iteration while it does not;
- the **zip format** stores the members of a package in files of the container, then
  reads them back into the decoded ring; what it returns tells the Nordic target, by
  its address, whether it is a command, data, or bytes to throw away;
- a **target** sends commands; a synchronous one calls `dfu_idle()` from inside
  `chunk_available()`, itself called from `dfu_idle()`;
- a **timer** calls back the command engine or the binary file layer, and is removed
  from the list only when the callback returns.

The behaviours that are hard to test are listed in `PROJECT.json` under `hazards`,
each with its line and the properties that would catch it: bytes in flight while
the ring moves on, chunks that grow or wrap, nested loops, the order of the end
of file and of the last chunk, a timer that races an answer, answers that are
late or left over, deadlines at the limits of an int and of the clock, requests cut
anywhere into segments, connections closed while they are served, resets between
two writes of the flash, unaligned accesses to it.

What makes each part correct:

- rings and chunks: the chunks tile the decoded ring; nothing is overwritten while
  a target reads it;
- binary file layer: every byte taken from the client is programmed once, at its
  address; completion is reported when, and only when, all is programmed; an
  upload never hangs;
- formats: flash holds the bytes of the file and no others; a package is executed
  whole, the command of an image before its data;
- HTTP: what is appended is the body of one upload, once; a client is told that its
  upload is good only then; a complete request is always disposed of;
- file container: no sector is shared or lost; a file reads back as it was written;
- timeouts: a timer fires neither early nor late, whatever the others do;
- commands: one callback per command, a timer for every wait, the right answer;
- targets: nothing is programmed where it was not erased, nothing is erased that was
  programmed, and a chunk reported done is in flash.

## Modules

`DfuRing` has the ring arithmetic as operators on head, tail and size.

`BinaryFile` holds the variables and actions that do not depend on the format.
`pc` is the point an iteration of `dfu_idle()` has reached ("top", "poll",
"write", "flush", "decode", "enqueue", "host") and `calling` says that the loop
is nested in `chunk_available()`.  The nested loop is the same loop: its
iterations go through the same values of `pc`, and the outer one goes on with
the flush when the call returns.  Each round of the loop of
`bf_enqueue_for_writing()` and each call of `decode_chunk()` is a step.  A decoded
byte is the address the file gives it, so "programmed correctly" is
`flash[a] = a`.

Who appends is `Client`: a file of the application announces its end
with an empty block once (`"file"`); the HTTP server appends blocks and says nothing of the
end (`"http"`), or appends an empty block too, at any time, which is what an upload without
a body does (`"http_end"`).  The history `early` says that an end came while raw bytes were still to be
decoded.

`BinaryImage` and `IhexImage` add `decode_chunk()` and the next-state relation.  In
`IhexImage` a line is two raw units (header and body), which is what the decoder
tells apart, and each line decoded is a step.

`TimeoutList` has the list of `src/dfu.c` slot by slot; a round of the insertion
loop is a step, so that the loop has an invariant.  `due` is a history variable:
the time each timer is to fire.  `Timers` is the promise: a set of deadlines.
`ImplementsTimers` maps the first to the second (`deadline` is `due` for a listed
timer).

`DfuCmd` runs scripts: sequences of OUT, IN, OUT_IN and NONE buffers with the
attributes the engine looks at.  A byte on the wire is the number of the command
it answers, which is what `AnswersMatch` needs.  `armed` counts the entries of the
command's timer in the list; the timer may fire at any moment it is there, which
covers every delay.  `MCDfuCmd` has the scripts of the targets: sync, load and read
of the serial ones, byte loading, page polling and delays of the SPI ones.

`FlashTarget` is the promise of any target to the binary file layer: it takes a
chunk, writes its bytes and no others, erases nothing it reported, and reports the
chunk done when it is all in flash.  `Stm32Target` is the STM32 one with its boot
loader: from reset to the end of an upload, and on to the next, which finds the
flash and the bit masks as the first left them.  `flash[a]` is `a` for a byte of this
upload, `Old` for one of another program, and `Garbage` for a byte programmed over
what was not erased.  Bits are indexed as the code does, by the bytes of a word, so
that the last sectors of a bank have bits of the next mask, or bits that belong to nobody
(`Foreign`), whose value is any.  A command is four kinds of steps there: it is started,
its bytes are sent, the device works through it sector by sector or byte by byte,
and it ends, well or not; how it advances between is `DfuCmd`.  `ImplementsFlashTarget`
maps the chunk in flight to the one that is being programmed.  `MCStm32Target` has a
device with two banks and a RAM, and files whose chunks cross sectors and banks.

`Stk500Target` is the STK500 one, over several uploads too.  Its unit is a page, which
is what the device programs: `flash[p]` is the page whose bytes page `p` has.  The
device programs at the address it has (`loaded`), which survives everything but a
reset, so that what the target believes and what the device does are two pieces of
state.  `stk500_reset_and_sync()` is called by the application and from
`chunk_available()`; `loads`, the attempt to load the address it belongs to, says
which, and `Return` where it goes on.  A command that fails once `dfu_idle()` has
failed ends with a positive status, which some callers take for success.

`AvrispTarget` is the AVR ISP one, over several uploads.  `page_buf` is the page buffer
of the device, a byte in each place, and `writing` the page it is programming: a
byte of a chunk reaches the flash only through both.  A byte is loaded per step, and
each may fail, after the device has seen it or before (`LoadFails`).  Commands are
reduced to their outcome, but for one thing: the timer of an exchange that failed
stays in the list (`stale`) and ends whatever command runs when it fires
(`StaleTimer`).

`HttpLwip` is a composition of its own: the TCP pool (`tcp`), the HTTP connection
(`http`), the two flags of the upload URL and the ring it appends to (`room`, `written`).
A request is a sequence of units [client, position], headers then body, so that
`request_buf` shows whose bytes it has.  The callbacks of lwIP (accept, receive, error,
poll) are actions between two iterations; `chain` is the second pbuf of a segment,
which is received by a step of its own, because what happened to the first one decides
what is done with it.  `Event` is an iteration of the loop.

`NordicZip` is the decoder of a package over `BinaryFile`, `NordicSpi` the target and the
device, and the composition of the three.  A raw unit is a header, a name or a piece of a
member, so that a block may end between a header and its name.  A round of the
loop of `nz_decode_chunk()` is a step (`Round`), one action per state and outcome.  The
nested loop that waits for the device in `chunk_available()` is the same loop
(`calling`), as in `BinaryFile`: it goes on receiving and decoding.  `hidden` and `dropped` are
histories that mark the places where the code goes on after a failure it does not
look at (see below); properties are stated outside of them.

`FlashAccess` has the byte-wise reads and writes of a flash that is accessed by words, as
operators: each gives the calls it makes to the flash in their order, so that a failed
call or a reset leaves those before it done.  `FlashFiles` has the sectors, their headers and
the files.  What is in RAM (`free`, `spifiles`, `files`) is lost by `Restart`, what is in
flash (`header`, `data`) is not; an operation that the flash refuses stops after any of
its calls (`FlashDoes`).  Byte k of the n-th file created is `<<n, k>>`, so that stale
and misplaced bytes are seen.

`UploadProofs` (for `BinaryFile`, `BinaryImage` and `IhexImage`), `NordicProofs` (for `NordicZip`
and `NordicSpi`, with the lemmas of `UploadProofs` on the layer), `LoopProofs` (for `TimeoutList`
and `DfuCmd`, which `dfu_idle()` runs), `Stm32TargetProofs`, `Stk500TargetProofs`,
`AvrispTargetProofs`, `FlashFilesProofs` and `HttpLwipProofs` have the proofs.

An operator whose name ends in a description of a slip (`Enqueued_All`,
`CentralHeader_Whole`, `Freed_First`, ...) and whose comment begins with
"Wrong" is a mutated form of the one that follows it.  No specification uses one;
`PROJECT.json` says which property each of them breaks.

## Runs

Those that pass:

| Run | Shows | Bounds |
|---|---|---|
| `bin_http_pages` | bytes are neither lost, moved nor programmed twice with a target of fixed pages that waits in a nested loop, fails and times out; a page neither wraps nor grows while it is written, also when a pending chunk is handed out at the end; decoding does not get stuck; a completed upload is in flash | equal rings of 8, as the library allocates them, pages of 2, 11 bytes in blocks of 1 and 3: every ring wraps, at every offset; the client may announce the end with an empty block at any time |
| `bin_http_stm32` | an upload ends, under the fairness of the loop, with chunks of any size and sectors erased on demand (that each is erased once, before its bytes, is the theorem `ErasedOnce`) | pool of 3 chunks, so it runs out; 3 sectors; the loop does not nest (that an upload ends with a target that nests it is checked by `ihex_pages`) |
| `ihex_pages` | flash holds the file and nothing else; `really_written` means all; an upload ends | three files: a jump, a base record, a page completed after it and a start record; a line that may find no room, an empty one and a refused record; a jump into a page. Blocks of 1, 2, 3, 5 units split lines everywhere, the first one too; an empty block may come at any time |
| `timers` | the list is consistent, is a set of deadlines, and forgets no timer | 4 timers for 3 slots, two delays, time up to 3: insertions at the head, in the middle, at the end, and into a full list |
| `cmd` | one callback per command, a timer for every wait, right answers, and commands that end without an answer | 3 commands out of seven: answers in one and two buffers, retries, delays, buffers without a timeout; flush of 2 bytes |
| `stm32` | where sectors have a bit for themselves, nothing is programmed over what was not erased; the target keeps the promise of `FlashTarget`; an upload ends | two uploads out of five files, two banks of 3 sectors with masks of 2 bits each (as in the table of the f469, whose banks of 12 have masks of one word) and a RAM: chunks in one sector, in two, in three (one more than `MaxErase`), across the banks, in RAM, in sectors whose bit is shared or lies behind the masks; commands that fail at any point, the upload's timeout at any moment; 3 attempts to synchronise instead of 5 |
| `stk500` | a page is programmed at its own address, unless no attempt loaded it; the target keeps the promise of `FlashTarget` until then; an upload ends | two uploads out of three files of one or two pages, in increasing and decreasing order; every command may fail, be answered late or out of sync, all attempts to load an address included, and the upload's timeout comes at any moment; 3 attempts to synchronise instead of 8 |
| `avrisp` | the target keeps the promise of `FlashTarget` through the device's page buffer; an upload ends | two uploads of two chunks: half a page and an odd rest of it, a jump backwards over half a page; every transfer may fail, seen by the device or not; 3 attempts to synchronise instead of 50; pages of 8, chunks of 4 |
| `http` | only whole uploads are appended, once; the right client is told so; the HTTP connection is the owner's; complete requests are disposed of | eight clients for 2 connections: a page, then two competing uploads (one reset or closed early at any point, one in chains of pbufs whose close is refused once), then a page again, a 404, a request that is not HTTP, an empty upload and one longer than `request_buf`; headers of two units in segments of 1, 2 and 3, which are cut within them for the page and an upload; what a refused request leaves behind meets every next one |
| `flash` | no sector is shared; files are intact and read back right; what is opened has its name | 3 sectors of 8 bytes for 2 files of 4 and 14, 2 descriptors, accesses of 2 and 7 bytes from buffers aligned or not, so that pieces begin and end anywhere in a word and a sector; one refused call or reset, at any of the calls of any operation |
| `nordic` | a package reported written has been executed by the device, in order; bytes reach the target intact and in a state it accepts them; the upload goes on unless something fails | rings of 8, chunks of 2, objects of 4: three packages, as the tool makes them (a file of almost 4 objects), with another member in front, and with two images; blocks of 3, 4 and 5 units cut every header and name apart |

The sizes of the rings only matter modulo their relation (the code masks every
index), so small powers of two reach every relative position of head, tail,
write tail and end of buffer; the theorems lift the structural ones to every size.
Commands only share their timer, their status and the wire with the next one: two
commands show an interference, the third one leaves room for what the second
left behind.  A file of the flash shares with the others the list of free
sectors only, so two files and one sector more than the larger needs show a sector
given away too early; one fault is enough because a reset forgets all that RAM knew and a
descriptor whose close failed is not used any more.  Three operations of a client
compete for the HTTP connection at most (its own, that of the next one, the poll of lwIP), and two
slots make the pool full with one client waiting.

One run checks a statement of the code's own comments and ends in a violation,
listed under `findings`:

| Run | Statement | What happens |
|---|---|---|
| `flash_close` | a file written and closed can be read: "Written something, let's store length if sector header(s)" (`src/file-container-esp8266.c` 697) | the length is counted in whole sectors, headers included: the last sector may keep the size "not completely written", and reading it fails |

Deadlock is checked except where the system stops: in `cmd`, whose specification
stops after the last command (`MaxCommands`) and when the loop fails; in the runs of
the three targets, which stop after the last upload (`MaxUploads`); and in those of
the flash, where it stops after `MaxCreated` files, `MaxFaults` faults, or a crash.

### What does not hold

The code does not do all that its comments and messages say.  These properties are
defined beside those that the runs check, and TLC refutes each of them when it takes the place of
the properties of the configuration named, with the changes named (and the specification
without fairness):

| Property | Configuration | Statement | What happens |
|---|---|---|---|
| `OwnedIsWhole` | `bin_http_pages` | a pending chunk is taken "if this is the last one" (`src/binary-file.c` 248) | an empty block sets `written` while raw bytes wait: they extend the chunk that is being written |
| `ReallyAll` | `bin_http_pages` | `really_written`: "All bytes flushed and target said all bytes written" (`include/dfu-internal.h` 142) | completion looks at the chunks alone (`src/binary-file.c` 462), and raw bytes wait |
| `EstimateIsSafe` | `bin_http_pages` | "Safe estimate of decoded chunk's size" (`include/dfu-internal.h` 180) | with equal rings, the default, one decoding of more than half a ring asks for room that never comes (`src/binary-file.c` 299) |
| `NoCrash` | `ihex_pages` | "Format probed, initialize private data" (`src/binary-format-ihex.c` 225) | a first block without a whole line is taken by the format, without private data (222) |
| `FlashIsFile` | `ihex_pages`, `Files <- BaseFiles`, `FileSize = 8` | "output buffer shall contain countiguous data" (`src/binary-format-ihex.c` 329) | a base record sets the next address to the new base (390), so that a line at offset 0 after it continues the other region |
| `NoWrapInChunk` | `ihex_pages`, `Files <- ShortFiles`, `FileSize = 12`, `MaxAddr = 19` | "we don't want wrap arounds in the middle of a flash page" (`src/binary-file.c` 37) | after a page cut short by a jump (178) pages are not aligned in the decoded ring, and one wraps |
| `ReallyWrittenMeansAll` | `ihex_pages`, `Files <- LongFiles`, `FileSize = 10` | "Not enough bytes in output buffer, do nothing" (`src/binary-format-ihex.c` 261) | the tail is past the header of the line already (321): the line is skipped |
| `NeverEarly` | `timers`, `IntMod = 8`, `Horizon = 5` | "Timeout in millisecs" (`include/dfu-cmd.h` 29) | past the greatest int (24.8 days) a deadline is negative (`include/dfu-internal.h` 125), and the timer fires at once |
| `NeverLate` | `timers`, `ClockMod = 6`, `Horizon = 8` | the same | the clock of the ESP8266 wraps every 71 minutes at a number that is no power of two (`src/host/esp8266.c` 29), and a deadline is not reached |
| `SyncCompletes` | `cmd` | "Synchronously complete command" (`include/dfu-cmd.h` 84) | when the nested loop fails the command still runs, and the positive status returned (`src/target/dfu-cmd.c` 360) passes for success with callers that test for `< 0` |
| `ChunkErased` | `stm32` | "Sectors corresponding to this chunk have already been erased" (`src/target/stm32-usart.c` 738) | bits are indexed by the bytes of a word (45): a sector takes the bit of another for its own |
| `AddressLoaded` | `stk500` | "address loaded ok" (`src/target/stk500.c` 615) | after three failures (609) the page is programmed at whatever address the device has |
| `ReadyIsComplete` | `http` | "Incomplete request, waiting" (`src/rx-method-http-lwip.c` 407) | a request with split headers is answered 400 (372) and leaves its method (86): the next one is ready half received |
| `WrittenStands` | `flash`, `MaxFaults = 0` | "Now read the first dword, replace 1 to 3 bytes" (`src/file-container-esp8266.c` 551) | a write whose source and destination are equally far off a word overwrites its first word and drops its last bytes (563, 574) |

Where no change is named (and `WrittenStands`) the failure is among the behaviours of the
passing run.  What that run checks holds in spite of it: the formula excepts what the failed
property shows.  An exception that depends on what happened is a history
variable: `early` (the end of the file was announced while raw bytes were to be
decoded), `stray` of `Stk500Target` (pages none of the attempts loaded the address of), `misread`
and `stray` of `HttpLwip` (requests that begin with the method an earlier one left; a
refused request of which something is left), `sound` of `FlashFiles` (a file with no
misplaced write and prepared sectors), `hidden` and `dropped` of `NordicSpi`.  One that is a matter
of the present state is in the formula: `EstimateFits`, `Private`, `WaitsForBody`.  Where files or clocks
are changed, the passing run stays clear of the failure, and only the table shows it.

### Other places where the code and its comments part

These were met while modelling and while reading, and the models do what the code
does.  Where a property is named, TLC refutes it with the constants given.

Binary file layer and formats:

- An Intel HEX file whose end of file record comes after its last chunk is done ends with
  the timeout though all is programmed (`src/binary-file.c` 462).
- `NoCrash`, `Client = "file"` (`src/binary-file.c` 467): completion calls the rx
  method, which a file made by `dfu_new_binary_file()` does not have.
- A first block of less than nine characters is not refused by the raw binary format,
  which is probed next and takes an Intel HEX file for raw bytes (`ProbeRefuses`, which
  ends the model with `OTHER_FORMAT`).
- With a target that runs the loop in `chunk_available()`, a chunk refused there
  (misaligned, or no chunk left) does not end the upload: the error is seen by the
  nested loop only, and the bytes stay in front of those that follow (`RefusedInside`).

Timers and commands:

- `AnswersMatch`, an answer longer than `FlushLen` (`MCDfuCmd!ReadScripts`,
  `src/target/dfu-cmd.c` 181): a flush reads 8 bytes, and what is left of a longer
  answer is read by the next command.  `LateAnswers` has the same effect.
- `ReportedOnce`, an exchange with a timeout (`MCDfuCmd!SyncScripts`, avrisp
  `_get_sync()`, `src/target/dfu-cmd.c` 254): when the transfer fails the timer stays
  in the list and ends the command a second time.
- An IN buffer without a timeout (`src/target/dfu-cmd.c` 204-228) is read twice, and the
  second time the command waits without a timer; no target has one, and
  `CommandEnds` leaves it out.

Targets:

- `_get_sync()` of the STK500 ("Flush input and wait 300ms more", `src/target/stk500.c`
  305-309) waits for a timeout alone.  A device that keeps talking holds it there, and
  so does a loop that has failed, which no longer fires timers: the function never
  returns.  `UploadEnds` makes the exception explicit (`[](pc = "flush")`).
- A page the STK500 fails to program is reported to `dfu_binary_file_chunk_done()`, which
  does nothing because "the target will signal this" (`src/binary-file.c` 455); the
  target does not, and only the timeout of the upload ends it (`ChunkFails`,
  `RxTimeout` in `Stk500Target`).
- `_check_get_param_reply()` stores the sync byte of the answer (`src/target/stk500.c`
  153), not the parameter: the version that selects the extended parameters is 0x14.
- AVR ISP: the model offers chunks once `dfu_target_reset()` and `dfu_target_erase_all()`
  have returned, as the Linux and Arduino samples do.  The sample
  `samples/esp8266-http-lwip-stampv13.c` starts flushing before, tries the reset again
  from its loop and never erases: a chunk may then be loaded by the nested loop of a
  synchronisation, whose status they share, and its bytes are programmed over others.
- `src/target/avrisp.c` 189: the polling of a page has no limit, and a page that fails
  is reported to `dfu_binary_file_chunk_done()`, which does nothing: only the 10 s
  timeout ends either.
- `src/target/avrisp.c`, `_get_sync()`: the timer of a failed exchange stays in the list
  (`StaleTimer`).  When it fires it ends the command that runs; the index of the
  buffers may by then be past their end, which is undefined and not modelled.
- `src/target/nordic-spi.c` 639: the status of an execution is not looked at, and the chunk
  is reported done (`hidden`).  The checksum that comes from the device is never compared.
- `src/target/nordic-spi.c`: the first data object of an image is as long as what
  the device offers less what was written to the object of the command, which the
  device refuses for small images (`hidden`).
- A command that ends `chunk_available()`'s nested loop with an error leaves the two
  steps that follow (select, create) to run with what the device last said.

Nordic zip format:

- `src/binary-format-nordic-zip.c` 1047: the loop of `nzbf_calc_crc()` does not advance, so
  a package whose object is partly on the device ("Partial packet already on target,
  send what is missing", `src/target/nordic-spi.c` 793) stops there (`HANG`).
- `_next_file()`: after the data of an image the state stays what it was, the next call
  reports "invoked with wrong state" from the branch marked "NEVER REACHED", and the
  command of a second image is never sent.
- `_do_ignore()` (931) throws away the whole buffer, because the size to ignore is not
  set: headers in it are lost, and the rest of a longer member is taken for headers
  (`dropped`).
- `_peek_local_file_header()`: a block that ends between a local header and the end
  of its name fails the upload, though the comment says "Not enough characters in
  buffer"; if it is the first one, the next format takes the file (`OTHER_FORMAT`).
- The tail moves by the length of a header, whatever preceded the header in the buffer.
- The head of the decoded ring is masked with the size of the raw one (equal by
  default, and in the run).
- The 10 s timeout is renewed by blocks that arrive, not by the device: it may end an
  upload that goes on well (`SlowPeers`, FALSE in the run).

HTTP reception:

- `content_length` is not reset between connections (269-281): a GET after an upload waits
  for a body that does not come (`WaitsForBody`, which `RequestEnds` excepts; the page
  `again` of `http` meets it).
- `src/tcp-conn-lwip-raw.c` 139: an error of lwIP frees the TCP connection without telling
  HTTP, whose only connection stays taken, or follows a pointer to no connection
  (`CRASH`); `OwnerIsServed` makes the exception explicit.
- `http_poll()` and `_http_request_error()` free the HTTP connection also when
  `tcp_close()` failed; the second pbuf of a chain that follows an error finds no
  connection.
- A request that is too long leaves its method and the length of its body behind, too
  (283-293): the headers of the next one are not looked for.
- A client that closes before its request is complete holds the server for ever, and an
  upload without data is tried again for ever; `RequestEnds` leaves them out.

File container:

- A write inside one word from a buffer of another alignment underflows the length of
  the aligned part, and so does a short access with equal misalignments
  (`WriteCrashes`): the processor faults.  What such an access programs before that
  is not modelled.
- The last byte of a read is stale when it is the first of a word and the buffer has
  another alignment (`ReadFetches`).
- A write of the last bytes of a sector may overrun into the header of the next (`Overrun`).
- `_new_file()` ignores the result of the allocation of the sectors in flash, and a header
  that cannot be read makes a second file of the same name (`Found`).  Files of maximum
  size 0 share an entry and are left out.

## Fairness

- The application calls `dfu_idle()` again and again: weak fairness of the loop's
  own steps.  Nothing in them waits.
- Uploads (`bin_http_stm32`, `ihex_pages`) also assume that a client that has room for a
  block sends it, that the device answers and that `chunk_available()` returns.  These are
  strong: the events are delivered at points of the iteration the loop passes
  through infinitely often, not continuously.  `UploadEnds` does not depend on the
  peers being alive for ever: once nobody has anything to do (`Stuck`, `IhexStuck`, `NordicStuck`) the 10 s
  timeout of the upload fires.  It may fire earlier too (`SlowPeers`).
- Timers: time passes, calls of the application return, and the loop looks at the
  first timer between any two of them.
- Commands: a buffer that can run is run, a timer that is set fires.  No fairness
  of the device.  Page polling is left out of `CommandEnds`: a device that is never
  ready makes the engine retry for ever, and only the upload's timeout ends it.
- STM32: the loop goes on, and a command that is not answered ends with its timeout
  (`HostStep`).  No fairness of the device, so `UploadEnds` holds for one that is
  mute.
- STK500: the same, and the device need not stop talking: `Flushed` and a first
  `OutOfSync` are left to it.  The upload's timeout is assumed to come for a page
  the device refused, which nothing else ends.
- AVR ISP: the loop goes on (`HostStep`), and the timeout of the upload comes for a page
  that is polled in vain or was refused.  No fairness of the device.
- HTTP: the loop, the timers of lwIP and the binary file layer, which makes room.
  Nothing is asked of the clients, so `RequestEnds` holds whatever the others do.
- Nordic: as for uploads; a command of the target ends, well or not, because it has a
  timeout.

## Proofs

All are for every value of the constants the assumptions of the modules allow.

- `UploadProofs!TypeCorrect` and `RingTiled`.  The property `ChunksTileRing` is
  inductive together with the types; the proof goes action by action, and begins with
  the arithmetic of rings it needs (distances from the tail, the space up to the end of
  the array, freeing and filling) from facts on powers of two.
- `NothingLost` (`NoByteLost`): the raw ring, the decoded ring, the queue of chunks, the
  chunk the target owns and the flash are one sequence of addresses, in order and
  without gaps, until an error is reported or the end comes early, for every client.  The
  inductive invariant (`InOrder`, in
  `DataInv`) says which address each place has: the raw ring begins where the decoded
  one ends, what was not enqueued is at its end, a chunk begins where the one before it
  ends and only the last one is shorter than a page, and what was freed is in flash.
  Hypotheses: `EnoughChunks`, because a pool that runs out in a nested loop is an error that does not
  end the upload (`CONFIG_MAX_CHUNKS`, 32, is enough for pages of 128 bytes in
  2048 bytes, and outside of a nested loop no hypothesis is needed); `FileFits`, which
  only says that the modelled memory has room for the file.
- `NeverStuck` (`NeverStuckEarly`), from the same invariant: when nobody can go further
  all was consumed and its full pages are in flash, for rings of any sizes, equal ones
  included.  `_bf_do_flush()` asks for room for twice the largest decode, so the formula
  says as long as that much fits beside a page (`EstimateFits`): `EstimateIsSafe` shows
  what happens after a larger one.  `SomeBlockFits`: the client has a block that fits.
- `RingTiled` and `ChunksInOnePiece` (`NoWrapInChunk`): a target that ignores alignment gets the
  latter from the cut at the end of the ring, one with pages because a page begins at a
  multiple of its size; a target with pages that runs the loop in `chunk_available()` needs
  `EnoughChunks`.  With an Intel HEX file pages do wrap (see above), and nothing is
  proved about that.  `ErasedOnce` (`EraseOnceBeforeProgramming`, which no run checks) has no hypothesis; what is
  inductive is `ErasedFirst`: what the target was given and what is in flash lies in erased
  sectors, and none of these is being erased.
- `InFlightKeepsBounds`, `IhexInFlightKeepsBounds` (`InFlightNotExtended`): the chunk the target owns is
  the first one and keeps its bounds, for every client and target, without a hypothesis.  The case that
  matters is a chunk that is pending when it is handed over, at the end of the file.
  The inductive invariant (`InFlightClosed`) says that such a chunk was handed over because
  the end was announced, and that nothing is cut into chunks any more; what makes it so is
  that nothing is left to decode (`QuietEnd`, and `IhexQuiet` for an Intel HEX file, where the end of file
  record may be read in a call that has decoded other lines).
- `FlashHoldsFile` (`FlashIsFile`): what an Intel HEX file leaves in flash is the file's,
  at the addresses of its lines.  What a step of the layer preserves is stated once for a relation
  `R` that says which byte may be where (`HeldGood`, `LayerKeepsHeld`, `LayerKeepsFlash`),
  so that a format only has to say what it puts into the decoded ring.  The inductive
  invariant (`IhexInv`) says that the chunks, the bytes to be enqueued and those this call of
  `decode_chunk()` has decoded hold the bytes of the file for their addresses; that nothing comes
  after them in the decoded ring (`HeadAfter`); that the private data is the last base
  record read; and where the lines decoded end (`RunEnds`), which is what makes a line that
  `next_addr` lets in the continuation of those before it.
  Hypotheses, each a thing the code does: `BasesApart`, because a base
  record also sets `next_addr` (the table above shows what happens to other files); no step is one of
  `Forgets`, which leave bytes in the decoded ring that no chunk will have and that the next chunk
  takes for its own: `decode_chunk()` returns 0 for want of room after it decoded other lines
  (261 and 334), or fails on a segment record in a nested loop (353), which are `DecodedLost`; or
  `bf_enqueue_for_writing()` refuses a chunk in a nested loop (`RefusedInside`).
- `IhexTypeCorrect`, `IhexRingTiled` and `IhexErasedOnce` are
  the theorems above for an Intel HEX file, from the same lemmas on the layer.  The
  tiling needs no `Forgets`: what is forgotten lies behind the chunks.
- `NordicProofs!HandedOver` (`HandedOverIntact`): every byte the Nordic target is handed is the one that
  the package has for its address, that is, for its image, kind of file and offset, however the
  package is cut into blocks, whatever cannot be stored and whatever the device
  answers.  The inductive invariant (`NordicLive`) has two halves.  *The package is read in
  step*: the tail of the raw ring is between two members or in the member that the
  parser thinks, what was stored of it is what was read since its header, and every file in
  `received` is stored whole (`InStep`); or else a file that is needed was passed without being
  received (`OneLost`, after an open or a write that failed), and the manifest will be refused
  although the parser may be anywhere.  So when sending begins every file is complete, and it
  stays so to the end (`ReadyToSend`).  *The ring is cut in pages*: bytes in the chunks and to
  be enqueued are good for their addresses (`HeldGood(RightBytes)`), and every chunk lies
  in one page of addresses and of the ring (`OnePages`), because the format realigns the
  ring before a file begins and there is room for that (`Roomy`).  So a chunk is either
  data of one file or what realigns the ring, never both, and it never wraps.
  Hypotheses: the two rings are as large (`RawSize = DecodedSize`: the decoded head is masked
  with `bf->max_size`, 537 and 565 of the format; they are unless they are configured otherwise); no chunk
  is refused in a nested loop (`RefusedInside`, as for an Intel HEX file); and every file of the
  package that is stored is the manifest or one that it lists (`EveryFileListed`).  The
  parser does not look at a failed open: it goes on in the data of the file, as if they
  were headers, and only a file that the manifest lists is missed.  The packages are well
  formed (`PackagesOK`): members are not empty, have their header, name and data in a row,
  come once each, and no file is in two images; offsets stay below `NZ_FWFILE_THROW_AWAY`
  and the bits of an address are apart (`AddressesOK`; they are bits 28, 29 and 30 up).
  As for the run, a package is left out once ignoring a member took more or less than
  the member (`dropped`).
- `LoopProofs`, for `TimeoutList`: with deadlines that fit in an int and a clock that does not
  wrap (`NoOverflow`; the table above shows the others) the fields are the differences of the deadlines (`ListIsDeltas`), a
  timer fires neither early nor late (`NoTimerEarly`, `NoTimerLate`), and the list
  implements `Timers` (`ListImplementsTimers`).  The inductive invariant adds the
  state of the insertion loop (what is left of the delay is the distance from the
  timers passed) and the range of the numbers.
- `LoopProofs`, for `DfuCmd`: for commands whose exchanges have no timeout
  (`ExchangesUntimed`; see above for the others) the callback runs once
  (`CallbackRunsOnce`), the timer is set exactly while the command waits
  (`TimerIffWaiting`) and the index stays in the script (`NeverPastScript`), late
  answers included.  The three depend on one another: a timer that outlives its
  command would report it twice.  The inductive invariant adds which buffers a
  status is possible at.  `NoForeignAnswer` (`AnswersMatch`): a command reads no answer to
  an earlier one.  It needs that what a command may leave unread, at any of its
  buffers, is never more than a flush drops (`FlushSuffices`, over the scripts; a flush reads
  the 8 bytes of `dummy_buf`), and that the device has sent it by then (`~LateAnswers`).
  The inductive invariant (`AnswerInv`) bounds the bytes on the wire by what is due at the
  buffer that runs (`UnreadBounded`), and says that they are all of the command that runs
  once it has sent something (`UnreadMatch`).
- `Stm32TargetProofs`: no theorem has a hypothesis.  A marked sector that has a bit of a mask
  for itself (`Private`) is erased and holds this upload only
  (`BitmaskIsHonest`): `fini()` clears the masks, and whatever the other sectors do with the bits they
  share, or the bits behind the masks hold, concerns them alone.
  In such sectors, and but for chunks that lie in no area (`Mapped`; `must_erase()` takes
  them for erased), nothing is programmed
  over what was not erased (`NothingIsGarbage`), in every upload; and the target implements
  `FlashTarget` in the uploads that are all in such places (`Straight`, `IsAFlashTarget`), whatever
  the uploads before did.  In the table of the f469 the first sectors of the first bank are private;
  `ChunkErased` shows what becomes of the others.  The inductive invariant adds that the sectors of the
  running erase command are not marked, that those of the chunk being programmed
  and of the chunks done are, and that what the device has done so far is in
  place; the areas of the device's tables (`TablesOK`) make marked sectors cover a
  chunk.
- `Stk500TargetProofs`: the types need no hypothesis (`TypeCorrect`), nor does
  `PagesStayInPlace`: a page is programmed at its own address, unless it was sent although none of
  the attempts loaded it (`stray`, which `AddressLoaded` shows).  The inductive
  invariant (`AddressInv`) says that the device has the address of the page it is
  sent, or the page is one of those.  If no page is twice in an upload (`PagesDiffer`) the target
  implements `FlashTarget` until it sends such a page (`IsAFlashTarget`): what is programmed next was not reported
  done (`CurrentIsNew`), and the device is erased before anything is (`PagesInv`).

- `AvrispTargetProofs`: the types need no hypothesis (`TypeCorrect`).  If no address is twice
  in an upload (`ChunksDiffer`) the target implements `FlashTarget` (`IsAFlashTarget`): a byte
  loaded in a half of a word of the page buffer (`LoadedBuffer`) has there the place of its
  address in the page (`PlaceInPage`, `Parity`), and a chunk that begins at a multiple of
  its size lies in one page (`InOnePage`), so the device programs the bytes of the chunk
  where they belong and no others (`WritesChunk`).  The inductive invariant says what the
  page buffer holds of the chunk (`BufferInv`), that what was not reported is erased
  until the device programs it (`FlashInv`), and where in an upload the device may still be
  programming (`PhaseInv`): a timer left behind, or a transfer that fails, ends the
  command of the target but not the work of the device.
- `FlashFilesProofs`: a sector is in the free list or belongs to one file, and none is lost
  (`SectorsNeverShared`), for any flash, whatever it refuses and whenever the processor
  is reset.  There is no hypothesis but the types of the constants.  The inductive
  invariant (`IInv`) says it position by position: free sectors differ from one another
  and from those of files, those of files differ, every sector is somewhere.  A file
  is created with a prefix of the free list and gives it the whole of its list back;
  the other operations move no sector (`NothingMoves`).  A descriptor opened by a name has
  the file of that name (`DescriptorHasItsFile`), without a hypothesis either: the flash keeps
  names of files that are gone, and a refused call may leave sectors without a name,
  but the first sector of every file in use was erased and named when it was made
  (`NameInv`), and `_find_file()` looks at nothing else.
  What was written stays (`FilesKeepTheirBytes`) and is what a read copies
  (`ReadsWhatWasWritten`), for any sizes of the sectors, the files, the writes and the
  temporary buffer and any alignment of the buffers, without a hypothesis.  The
  inductive invariant (`FileInv`) says more than `FileIntact`: a byte of a file beyond
  its length is erased or is already the one that will be written there (`Contents`),
  because a write that the flash refuses half way is repeated over what it left; the
  file pointer is not past the length, so that nothing is skipped.  The argument has
  three layers: the calls for a buffer put every byte in its place and nothing
  elsewhere, with the loop around `_slow_flash_write()` as a function of the number of
  the call (`WriteCalls`); the parts of a write tile it, one in each sector
  (`SegmentParts`); any prefix of the calls, in any sector of the file, keeps `Contents`
  (`StoredBytes`).  Neither theorem says anything of a file of which a write was
  misplaced by `_equally_unaligned_flash_write()` (`sound`; `WrittenStands` shows one), and `ReadsRight`
  leaves out the reads that do not fetch their last word (`ReadFetches`).  That a
  file that went wrong is not written further (`Worthwhile`) only bounds the run: the
  lemmas on writes (`FilesWriteWhole`, `FilesWriteFails`, `FilesWriteFaults`) do not need it.
- `HttpLwipProofs`: the uploads are appended whole and once (`UploadsInFull`), a client is
  told so only then (`OkIsTrue`), and the HTTP connection has one owner, whose bytes
  alone are in `request_buf` (`OneOwner`), for any number of clients that come, send,
  reset and leave in any order.  The inductive invariant: there is no open
  connection but the owner's, and the owner keeps it when it resets
  (`OneConnection`); `request_buf` is what the owner sent, from its beginning (`Buffered`);
  a request is ready only when it is complete, or misread (`Served`); what was appended is of
  clients that are not served again (`Uploads`).  There is no hypothesis: headers may be
  cut, and what a refused request leaves behind meets every next one.  A request
  that begins with the method an earlier one left (`misread`) may be ready half received, and
  the formulas except it; they end when a request is refused while something of it is left
  (`stray`): the HTTP connection is freed although `tcp_close()`
  failed, and the later callback frees it again, under the next client; or the second pbuf
  of the chain finds no connection.

Model-checked only: liveness, which is out of the reach of the prover, and how the Nordic
device gets what its target was handed, and in which order (`ExecutedInOrder`,
`DoneMeansExecuted`, `HandedOverInState`).  The induction
theorems of the library cannot be instantiated, but over sets of numbers induction is
possible: `LeastNumber` (`FlashFilesProofs`, `NordicProofs`) is the least element of a set, from the
well-foundedness of the naturals, and what a sequence of calls leaves (`AfterCalls`)
is proved with it.  The theorems on
types, `BitmaskIsHonest` and `NeverPastScript` state invariants that no run lists, because
others that are listed depend on them.

## Plan

What was planned and is done: the AVR ISP target against `FlashTarget`, the Nordic
target and zip format, the file container with resets, the HTTP server with its pool.
What is left, most important first:

1. proofs for the order of execution of the Nordic target, on top of `HandedOver`: the
   state of the target has to be tied to the file that the next chunk comes from;
2. `Upload`, an abstract upload (bytes accepted, programmed, completion), which
   `BinaryImage` and `IhexImage` implement;
3. `Lifecycle`: `dfu_init()`, `dfu_fini()`, lazy set up of the interface.

## Not modelled

- `jsmn.c` and `picohttpparser.c` (third party), `crc32.c` (no state);
- pin and register access of the boards (`src/interface`), and the Arduino glue:
  pure I/O; what the library sees of them is a write that may fail and bytes that
  may arrive;
- `dfu_init()` and `dfu_fini()`, the ends of the parts (`nz_fini()`, `http_rx_fini()`,
  `spi_flash_fc_fini()`, `dfu_binary_file_fini()`) and `run`, which leaves programming mode;
- characters, hexadecimal digits and checksums of Intel HEX lines: the decoder
  ignores checksums, and the properties are about whole lines;
- of packages: names longer than the buffers, compressed or encrypted members, data
  descriptors, the limits of the tables of files and images, members without bytes;
  of the Nordic target: probing, resetting, the check of the MTU;
- the set of dfu timers is larger than any target uses, so a command never finds
  the list full; `TimeoutList` covers the full list by itself;
- what follows a failure of `dfu_idle()` inside a synchronous command: the model of
  the commands ends there;
- a device that lost its power and reads as ready (AVR ISP);
- `dfu_file_seek()`, which nothing calls, and the POSIX container (pure I/O);
- stubs (`rx-method-tftp-lwip.c`, `rx-method-dummy.c`, `dummy-linux.c`).
