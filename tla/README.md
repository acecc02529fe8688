# Verification of avionicpp

avionicpp is a C++23 library that reads and writes the byte streams of avionic devices: NMEA 0183 sentences, MAVLink
frames, and the UARTs they arrive on. This directory holds TLA+ models of its parts, the TLC runs that check them and
theorems that TLAPS proves about them.

    tlc -config MC_NmeaFramer.cfg MC_NmeaFramer     # model-check
    tlapm NmeaFramer_proofs.tla                     # check the proofs

Paths below are relative to the repository; `PROJECT.json` lists the runs, maps every definition to its lines of code and
names, for every property, a mutation of the model that breaks it (the `Bug...` operators, each beside the definition it
stands in for).

## 1. The system

| Component | State | Operations | Talks to |
|---|---|---|---|
| Framer hand-off (`nmea0183/framer.hpp:41-111`, the same in `mavlink/framer.hpp:20-93`) | promise fields `current_input`, `current_output`, `just_yielded`; where the coroutine is suspended | `push_byte`, `await_ready`, `await_resume`, two `yield_value` | the receiving application calls `push_byte`; the coroutine body awaits and yields |
| NMEA framer (`nmea0183/framer.hpp:132-232`) | `buffer_idx`, `field_start_idx`, `is_first_field`, `calculated_checksum`, the view under construction, two checksum digits; the caller's buffer | six `co_await`s, six kinds of report | view of offsets into the caller's buffer, given to bind/dispatch |
| MAVLink framer (`mavlink/framer.hpp:95-193`) | `idx`, `magic`, `len`, loop counter, view; the caller's buffer | fourteen `co_await`s, two kinds of report | view given to `deserialize()` |
| MAVLink serializer, deserializer, CRC (`mavlink/serializer.hpp`, `deserializer.hpp`, `checksum.hpp`) | none | `serialize`, `deserialize`, `crc_accumulate` | sender and receiver of a link |
| MAVLink messages (`mavlink/payloads/*.hpp`) | 27 structs | - | serializer and deserializer |
| POSIX UART (`uart/posixuart.{hpp,cpp}`, `uart/settings.hpp`) | `uarthandle_`, `isopen_`, five settings; descriptors and terminals of the system | `open`, `close`, five setters, `read`, `write`, destructor | system calls |
| Windows UART (`uart/win32uart.{hpp,cpp}`) | `uarthandle_`, `isopen_`, five settings; handles and ports of the system | the same | Win32 calls |
| UART wrapper and stub (`uart/uart.hpp`, `stubuart.hpp`) | none of their own | forward, or answer success | - |
| NMEA serializer, field types, dispatcher (`nmea0183/serializer.hpp`, `types.hpp`, `deserializer.hpp`) | none | `serialize`, `value`, `bind`, `dispatch` | sender and receiver of a link; the NMEA framer's views |
| NMEA sentences (`nmea0183/payloads/*.hpp`) | 12 structs | - | serializer and dispatcher |
| NMEA utilities (`nmea0183/utilities.hpp`) | none | timestamps and coordinates | application |

**What is hard here.** The framers are coroutines: `push_byte()` and the body take turns, and which of them owns the byte
and the report is decided by three flags that have to be right at each suspension point. Their views are zero-copy, so
they outlive the byte that completed them but not the next sentence. Both parse whatever arrives, with unsigned indices
into a buffer of the caller's choice, and neither has a timeout: a lost or changed byte shifts the boundary between
frames. MAVLink payloads are cut at trailing zeros, in the middle of a field if need be. A UART operation is a row of
system calls, each of which may fail after the ones before it took effect; descriptors and handles are numbers that the
process reuses, and on Windows `close()` keeps the one it closed.
Nothing is persisted, and the documentation asks that an object be used by one thread at a time, so crash recovery and
races on members are not in the list of hazards.

**What makes each part correct.**

* Hand-off: every byte is taken once and in order, every report is returned by the call whose byte caused it, and every
  call returns.
* NMEA framer: it answers every byte as the text of the sentence calls for; it accepts exactly the well-formed sentences;
  views stay inside the buffer and readable while they are held; no input keeps it inside a sentence.
* MAVLink framer: the same, with the layout of the frame in place of the grammar; no stray write to the buffer.
* MAVLink link: a message goes through unchanged; what the line damages costs a bounded number of frames.
* UART: handles are never stale, nobody else's descriptor is closed, and what an object lost is at most what its failed
  `open()` calls left behind; objects that share a terminal never mix their settings in it, and settings that are not in
  force were reported. On Windows handles are only known to be the object's own as long as nobody uses one after `close()`.
* NMEA link: what is formatted is parsed back, to the decimals of the field; a sentence reaches the handler of its type; no
  single damaged byte is delivered as something that was not sent, and damage costs a bounded number of sentences.
* NMEA utilities: a time or a position that is put into a payload at one end is taken out at the other, across the turns
  of the calendar and on every side of equator and meridian.

## 2. Modules

    Octets                          bytes, exclusive or, hexadecimal digits, delimiters
    PushByte                        abstract: push_byte() as one step
    InputAwaiter     => PushByte    the promise flags
    NmeaSentence                    abstract: the answer to each byte, from the text of the sentence
    NmeaFramer, NmeaFramerRefinement   => NmeaSentence
    MavlinkFrame                    abstract: the answer to each byte, from the layout of the frame
    MavlinkFramer, MavlinkFramerRefinement   => MavlinkFrame
    MavlinkMessages                 the 27 messages as field widths
    MavlinkCodec                    serialize, deserialize, CRC
    MavlinkLink                     sender, serial line, MavlinkFrame, deserialize
    NmeaMessages                    the 12 sentences as field types, precisions and widths
    NmeaCodec                       serialize, field parsers, bind, dispatch
    NmeaUtilities                   times and positions to and from the fields of a payload
    NmeaLink                        sender, serial line, NmeaSentence, dispatch, utilities at both ends
    PosixUart                       port objects, descriptor table, terminals
    Win32Uart                       port objects, handle table, ports
    X_proofs                        theorems about X
    MC_X, MC_X*.cfg                 instances for TLC

The levels rest on each other. `InputAwaiter` shows that a call of `push_byte()` behaves as one step that takes a byte and
returns the body's reaction to it, for any body that yields at most once between two `co_await`s. The framers can
therefore be modelled with one action per `co_await` and one step per byte. `NmeaFramer` and `MavlinkFramer` keep the
code's indices, flags and buffer and are shown to implement `NmeaSentence` and `MavlinkFrame`, which have none of them.
`MavlinkLink` and `NmeaLink` use the framers at those specifications, which keeps buffers of real size within TLC's reach.

### State and actions

**InputAwaiter.** Variables carry the names of the promise fields; `caller` and `coroutine` say where the two sides are.
`push_byte` is the first half of the function, up to and including `resume()`, and `push_byte_return` the second;
`await_ready` and `yield_value` are the awaiter's and the promise's functions. `current_input` is uninitialised in the
code, so `Init` leaves it open. The body is the constant `Reaction`, a function of the bytes it has taken.

**NmeaFramer.** `pc` is the `co_await` the coroutine is suspended in. A `string_view` is a start and a length in the
buffer. The code's `field_start_idx` runs one ahead of `buffer_idx` after a separator that does not fit, and the model
keeps that. An error inside the payload goes to the label `next_message`, which stands before STATE 3, so the actions
`ReadHex1` to `ReadLF` follow it in the model as well. `sentence` and `held` are history: the bytes since the delimiter,
and the last view returned with its text.

**MavlinkFramer.** Header and checksum bytes are written without a bounds check. Such a byte is lost in the model and `idx`
records that it was written; what is read behind the span is any byte. The message id is kept as its three bytes. The
set of bytes that may arrive depends on the `co_await` (`Arrives`), which only limits the inputs. The variables of the
loop body are reset with the first byte of the next frame.

**MavlinkMessages, MavlinkCodec, MavlinkLink.** A message is the list of its fields, a field its width and the width of its
elements, and a value its bytes in memory order on a little-endian host. `serialize()` and `deserialize()` are operators;
the CRC is the code's shift-and-xor update, with its narrowing, and the reference `X25` is the bitwise division.
`CrcExtra` is a constant per message: the code computes it at compile time from type and field names. `Send`, `Deliver`
and the actions of the line (`Lose`, `Change`, `MakeUp`) are external, modelled from how the benchmarks and tests use the
library: serialize and write, read and push, deserialize the type the view names.

**NmeaMessages, NmeaCodec, NmeaLink.** A field is its type, precision and width, and a `std::optional` is `None` or `Some` of
a sequence. A floating point number is an integer that counts tenths of the last decimal its field shows, so that rounding
is modelled; the two decimals that lie equally near, exponents and numbers that do not fit their C++ type do not occur.
`serialize()` writes as much as fits and takes the checksum of that, as the code does with `std::format_to_n`; `Sentence` is
what it writes where everything fits. Texts hold no character with a meaning in a sentence and numbers have up to nine
digits on each side of the point (`SendAssumption`): the code writes them as they are. `FixAssumption` says which payloads
take a fix, and that its time is one of the calendar. `Receivable` is no assumption of the module but a hypothesis of the
theorems about what arrives: talkers and types of two and three characters, which is where the framer cuts the address, at
most 32 fields, room in the framer's buffer for the payload, and the right handler first. `Detectable` adds, for the theorem
about damage, what the checksum can tell. `value` is the lazy
parser, a prefix parser like `std::from_chars`; `dispatch` takes the first handler of the type, whoever the talker is.
`Send` and the actions of the line are external as above.

**PosixUart.** A step is one system call with the code up to the next. `fdtable` is the descriptor table of the process,
shared with the rest of the program (`OtherOpens`, `OtherCloses`); `termios`, `rx` and `tx` are the terminals.
Every system call may fail. `tcsetattr()` succeeds if it can carry out *any* of the changes, so `Unsupported` names values
that a driver leaves as they were. `failures` counts, per object, the `open()` calls that failed in `configure()`, each
of which leaves a descriptor open: the code clears `isopen_` before it calls `close()`. The member `currenttio_` is left
out: it is written and never read. `tios` is the local variable of `configure()`: `tcgetattr()` fills it, the lines up to
`tcflush()` overwrite every modelled part of it from the members, and `tcsetattr()` writes it back two system calls later,
when another object may have configured the same terminal. `configured` is history and remembers which object's settings a
terminal took last. A `read()` returns no bytes only from a terminal that some `configure()` has given a VMIN of 0; any
other one waits. `MemberFunction` is the list of calls that `uart.hpp` forwards, here and in `Win32Uart`.

**NmeaUtilities.** A time point is a day, a second of the day and a tick of the clock; an angle counts hundred-thousandths of
a minute, as the fields' numbers do, so that the arithmetic is exact where the code's is floating point. `FieldNo` stands
for the `requires` expressions: which payload has a field of that name, and where (`RmcFields` to `GstFields`). The calendar is `std::chrono`'s and external.
`set_timestamp` adds the ticks to the seconds as they are, as the code does. `from_decimal` is the number that
`from_decimal_lat` and `from_decimal_lon` share; the direction is in the two setters. In `NmeaLink` the sender sets the time
and the position of a fix in the payload before it serializes it (`Payload`), and the properties
take them out of the values that the receiver has read from the fields of its view.

**Win32Uart.** As in `PosixUart` a step is one call of the system. `table` says for whom each handle of the process is open,
`dcb` and `timeouts` what is in force at each port. A port is opened with a share mode of 0, so it has at most one handle
(`Shareable`). `close()` forgets neither the handle nor `isopen_`; `closed` is history and remembers it. `strayed` is
history too: a call was made on a handle that has become somebody else's. `open()` sets the timeouts and then the line,
and returns the *value* false when the first of them fails, with the port left open (`SetCommTimeoutsFails`).
What `read()` and `write()` transfer is left out, only on whose handle they act is kept.

## 3. Runs

| Run | What it shows | Bounds |
|---|---|---|
| `hand_off` | the invariant of the three flags, bytes and reports in order, every call returns, refinement of `PushByte` | 2 bytes, 6 calls |
| `nmea` | views in bounds and readable while held, running checksum, fields tile the payload, bounded time in a sentence, exactly the well-formed sentences accepted, refinement of `NmeaSentence` | 7 bytes, buffer of 3, 2 fields |
| `nmea_restart` | finding 2 | buffer of 2 |
| `mavlink` | no stray write, index where the layout puts it, overruns at the right byte, returned payloads were received, the framer comes back to the start marker, refinement of `MavlinkFrame` | payload 0, 1, 4 or 5, signature 2, buffer 13 |
| `mavlink_stray` | finding 3 | buffer 11 |
| `link` | scenario *all*: each of the 27 messages goes through serializer, framer and deserializer unchanged, with its X.25 checksum and wire order; scenario *damaged*: every frame that finds the framer between frames is delivered intact, and a lost byte costs at most two frames | zeros from each field on, noise between frames; 3 frames of 1-3 payload bytes, 1 fault anywhere |
| `link_crc` | finding 1 | scenario *damaged* |
| `nmea_link` | scenario *all*: each of the 12 sentences reaches its handler with the fields it was sent with; *damaged*: a lost or changed byte is never delivered as something else and costs at most two sentences; *cut*: so does a sentence that `serialize()` cut short; *fixes*: times and positions arrive in every payload that has them | absent, short, full-width and negative values; 3 sentences, 1 fault anywhere with 11 replacements; buffers of 1-20 bytes; 8 fixes in 7 payloads, a clock of 1000 ticks, years to 2101 |
| `uart` | two objects on one terminal with failing calls: no stale handle, nothing foreign closed, every descriptor accounted for, the object that configured the terminal last has its settings in force there | 3 descriptors, a speed that the driver does not support, a parity |
| `uart_settings` | all five setters: getters and terminal differ only after an error, timeouts as near as the port can | 1 object, edges of every conversion |
| `uart_closed` | finding 4 | 1 object, 1 descriptor |
| `win32` | two Windows objects with failing calls: members and handles fit the call in progress, a handle that was not closed is the object's own, every handle is accounted for, members tell what is in force unless the last call said otherwise | 2 ports, 2 handles; one object sets a speed and a timeout, with one speed the table lacks and one timeout that a DWORD (of 8 values) narrows |

**Why the bounds are enough.** The hand-off has four locations and a body that remembers one byte; six calls hold every
pair of successive reactions from every location. The NMEA alphabet has every byte the framer compares with, plus the
digits `0` and `3`, whose exclusive or is `03`, so that sentences with a valid checksum exist. A buffer of 3 is full, one
short and overrun with and without a separator at the edge; two fields are reached and exceeded (three commas and the `*`
make an address and three fields). Talker and type are one character each, so that an address can be too short, exact and
too long. The MAVLink buffer of 13 bytes is filled exactly by a version 1 frame with 5 bytes of payload; version 2 frames
with 5 or 4 bytes overrun in the payload, the latter with its last byte, those with 0 or 1 in the signature, and none in
header or checksum, where the code does not check: behind such a write the program has no defined state, so it is asked
about alone, in `mavlink_stray`. The flag byte takes both values of the signature bit and a value of another bit. The link
run uses the real sizes. In it, every message is sent with its first *k* fields non-zero for every *k*, which cuts the
payload behind, before and inside each field, and with its last field only. Sequence, system and component numbers are
fixed, since the codec copies them. Its scenario *damaged* takes the two shortest messages: a fault can hit each byte of a
frame, and the third frame shows that the framer has recovered. `nmea_link` gives every sentence the values that meet the
edges of formatting: a number with all the digits of its width, with fewer, negative, and one that rounds to the next
decimal, in the first *n* fields for every *n*, in the last and in every other one; the buffers of its scenario *cut* end
behind every character of two sentences; the fixes of its scenario *fixes* are the ends of a day, of a year, of a century and of
February in leap years and others, the corners of the earth, angles that are rounded to zero and minutes that are rounded
to sixty. In `win32` one object suffices to set settings, since an object only ever touches its own port before it strays,
and two handles suffice for one to be lost to the other object, to the rest of the process or to a failed `open()`; the
constraint `NotStrayed` stops behind the first call on somebody else's handle, about which no property says
anything. Two settings are enough in `uart` for an object to change one of them while the other is what another object, or an
earlier failed setter, left at the terminal: a `configure()` that wrote back what it had read would be found there (twelve
steps, one failed setter). Descriptors are interchangeable, so are the two objects of `uart` and the handles of `win32`, and
these runs declare them symmetric (they check no liveness).

Two flaws of the UARTs are in the models and these properties do not catch them, because nothing in the repository
promises otherwise but the test of finding 4. `DescriptorsAccounted` and `HandlesAccounted` *count* what an
`open()` that failed in `configure()` leaves behind (`failures`): they hold with this leak and exclude every other. The
properties of `win32` assert nothing once a handle that `close()` did not forget has been used on somebody else
(`strayed`): they exclude that handles stray in another way.

`CHECK_DEADLOCK FALSE` stands in the three runs of the links: where the line makes up no bytes, the system stops after the
last frame or sentence of the bound.
`hand_off` has a stuttering step for the caller that has made its last call.

**Fairness.** In `InputAwaiter`, the steps inside a call are weakly fair: caller and coroutine are one running thread. No
fairness is assumed of `push_byte` itself. `MavlinkFramer!FairSpec` assumes that bytes keep arriving; without that nothing
can bring a framer without a timeout back. The NMEA counterpart needs no fairness: `ResynchronisesInTime` counts bytes.

### Disagreements between code and documentation

1. **The MAVLink checksum is never compared** (`mavlink/framer.hpp:159-165`; run `link_crc`). The analysis in
   `.context/code-analysis.md:11` has the CRC, seeded with `CRC_EXTRA`, ensure that both ends agree on the definition. The
   sender computes it; no receiver checks it, and the view does not carry it.
2. **An error in an NMEA payload does not restart the search** (`nmea0183/framer.hpp:180-192`; run `nmea_restart`). The
   comment says the `goto` restarts. Its label stands before STATE 3, so the next four bytes are read as digits, CR and
   LF; a delimiter among them is swallowed and a second report follows.
3. **MAVLink header and checksum bytes are stored unchecked** (`mavlink/framer.hpp:108-165`; run `mavlink_stray`). The same
   analysis, line 7, says bounds checking is performed. An empty version 2 frame in a buffer of eleven bytes shows it. The theorem `StaysInBuffer` gives the size that makes it unnecessary.
4. **A port whose `open()` failed in `configure()` stays readable and leaks** (`uart/posixuart.cpp:164-168`; run `uart_closed`).
   A test asks that reading from a closed port fail.

Noticed while modelling and not claimed as findings: `StopBits::sb1_5` sets two stop bits; NMEA payloads longer than the
standard's 80 characters are accepted if the buffer holds them; the `readsize` of `read()` is a maximum where its comment
says minimum; a partial success of `tcsetattr()` is not read back; `GPS_RAW_INT` carries its extension fields inside the
struct, so they take part in truncation and CRC like the rest; the NMEA `serialize()` does not tell that its buffer was
too small, and needs one of at least one byte; an empty text field arrives as an absent one; nothing escapes separators in
text fields; a number followed by other characters is parsed as the number; `dispatch()` ignores the talker; a frame with
start-marker values in its payload or checksum can mislead the framer after a fault for longer than `LossCostsTwoFrames`
allows, hence its premise `plain`; `calculate_crc_extra()` has one name, `unknown`, for the type of every array and leaves its
length out, so that messages with arrays do not have the CRC_EXTRA of the standard; an NMEA payload that fills the framer's buffer
to the last byte and has a changed star is reported as an overrun and answered with a view all the same, because the
digits, CR and LF behind it still match (`nmea0183/framer.hpp:185-191`; the view lacks the last field, and TLC shows it with
`RxSize = 12` and the sentences of the scenario `damaged`).

Of the Windows UART: `open()` returns `false` as a value when the timeouts cannot be set, with the port open and readable,
where the comment (`uart/win32uart.hpp:47-49`) promises an error; `is_open()` stays true after `close()`, and the next
`close()`, `open()` or the destructor closes the same number again, which may be another object's handle by then; a failed
`configure()` leaves the handle open and, by the share mode, the port locked until the process ends; `stopbits()` returns 2
for 1.5; the interval timeout is one millisecond at every speed, since the bit time is in seconds and truncated, where the
comment has it calculated from the baud rate; timeouts are narrowed to a DWORD.

Of the NMEA utilities: `set_timestamp()` adds `subseconds().count()`, which is in ticks of the clock, to the seconds, so that
only times in whole seconds arrive, although the field has hundredths (`nmea0183/payloads/rmc.hpp:12`); hours and
minutes are not checked, and 25 o'clock is one the next day, where the comment has nothing returned for invalid fields; the
two digits of a year are always of this century; the getters take payloads with values, not those of the dispatcher,
whose fields are parsed when they are read.

## 4. Proofs

TLC checks instances; the following hold for every value of the constants that satisfies the `ASSUME`s of the modules
(types of sizes; `Reaction` yields reports; handles and object names differ from the marks of the descriptor table).

**InputAwaiter_proofs.** `HandOffInv` is inductive: `just_yielded` holds exactly from a `co_yield` to the next `co_await`; the
byte not yet taken, if any, is in `current_input`; the report not yet returned, if any, is in `current_output`. "Bytes
equal between calls" alone is not inductive, because in the middle of a call after a yield the two sequences differ by one.
From it follow `BytesInOrder`, `ReportsInOrder`, and `Refinement`: `Spec => PushByte!Spec`, with the last byte of a running
call not counted.

**Octets_proofs.** What the framers and the codecs compute with folds needs induction over the length of a text. The
library states induction for an operator as parameter, which the provers cannot instantiate; here it is stated for a *set*
of numbers (`Induction`), and rests on `LeastNatural`, which follows from the well-foundedness of the strict subsets of an
interval. From it: recursive functions satisfy their equation (`RecursionExists`), the checksum of a text grows by one
byte with the text (`XorOfAppend`), where each sequence lies in what they are joined to (`FlattenProperties`), and where the
separators of a text are, in order (`CutsOf`). The
section on bits has a word as its bits (`BitOf`), and what shifts, narrowing and exclusive or do to them.

**NmeaFramer_proofs.** `FramerInv` is the type invariant with `SpanInv`: views reach no further than `buffer_idx` while they
are cut, and in the payload `field_start_idx <= buffer_idx`, which is what keeps the unsigned difference in
`CurrentField` from wrapping; it need not hold after an overrun, and the code does not cut there. From it:
`ReturnedViewsInBounds`. `HeldViewsReadable` adds that the buffer changes only where `held` is given up. `Resynchronises`
adds `ProgressInv`: the suspension point says how many bytes of the sentence have been seen.

What the framer *answers* needs more: its indices, flags and views have to be read off the text of the sentence.
`SentenceInv` says so in four parts. `TextInv`: the buffer is the text behind the delimiter up to `buffer_idx`, and the
suspension point follows from how far the text goes beyond it. `CutsInv`: the separators seen, in order, and
`field_start_idx` behind the last. `AddressInv` and `FieldsInv`: talker, type and fields of the view are the spans between
separators. TLC checked it on the instance of the run `nmea` before it was proved.
From `DecoderInvariant` follow `PayloadTiled`, `ChecksumOfStored`, and the refinement, `ImplementsSentence`: `Spec =>
NmeaSentence!Spec`, where each `co_await` is a step of the text and each report the verdict on it. `AcceptsExactlyWellFormed`
compares the answer to the last byte with the grammar of a whole sentence.

**MavlinkFramer_proofs.** `FramerInv` has the index at every `co_await` as a function of version, length and loop counter
(`Position`), and the view's span where the layout puts it (`PayloadInv`). `StaysInBuffer`: if `BufferSize >= 12 +
MaxLen`, nothing is written outside the buffer. `ReturnedPayloadsReceived` needs no such assumption: a payload
that was returned passed the bounds check to its last byte (`PayloadFits`). `ImplementsFrame`, for buffers of more than
two bytes: `Spec => MavlinkFrame!Spec`. The invariant it needs, `FrameInv`, has the buffer as a prefix of the frame and the
members of the view as its header bytes; in a smaller buffer the length or the flags lie behind the span, and what the
framer reads there is any byte.

**MavlinkLink_proofs.** From `serialize()` to `deserialize()`, for message definitions with any fields up to 255 bytes, any
values, any noise and any number of frames and faults. Its parts:

* *The checksum.* `ByteIsX25`: one step of `crc_accumulate`, two shifts and a narrowed nibble, adds the same bits to the
  register as eight steps of the polynomial division. `ChecksumIsX25` carries it through buffers of any length by the lemmas
  on `Register`, of which both checksums are instances.
* *The payload.* `Truncation`: what `serialize()` cuts are zeros, and a byte is left. `Deserialized`: field by field, the place
  that `deserialize()` reads from is where `serialize()` put the field (`FieldPlace`), and what is missing is zero.
* *The frame.* `FrameBytes` has each byte of a frame, and `Verdicts` the framer's answer to each of its beginnings: silence,
  and the view after the last. `Shows` says that the view tells the message and its payload.
* *The link.* `TypeCorrect` needs `Open`: what is still read of a frame is shorter than the frame will be, known as soon as
  the header is in. `IntactDelivered` and `NothingInvented` are not inductive; `Carrying` adds what they leave out, that while
  a frame is on its way undamaged the framer's bytes and the line's together are the frame, and `Clean` that a framer
  is between frames when nothing is sent. Hence `IntactArrives` and `NothingElseArrives`. Both assume `RxSize >= 265`, ten
  bytes of header and the longest payload: a smaller buffer answers the long messages with an overrun, as it should.
  It is not the size that `StaysInBuffer` asks for, which has room for the checksum too.
* *Faults.* `TwoFramesLost` rests on `Recovering`. Before a byte is lost the line is `Quiet` or the frame `Clear`; afterwards
  the framer is `Quiet` or `Busy` with a frame that lacks a byte (`LostByte`; it may be the length that was lost, and then the
  zero behind it is taken for one). The next frame fills it up and is lost (`NextFrame`); without start markers behind
  its first byte, its rest is passed over and the one after that is read. Buffers may have any size.

`SendAssumption` and `KnownAssumption` say what a message is: fields of the widths of its definition, an identifier of three
bytes that no other known message has, and one byte of `CRC_EXTRA`. TLC evaluates them for the 27 messages.

**PosixUart_proofs.** Every step of a member function is one of four shapes of change to the object's handle, flag and
descriptors (`MemberFunctionChange`). `TableInv`, by which the table entry of a handle names its object and only closed
objects are about to open, is preserved by each. From it: `HandlesAreOwn`, `NothingForeignCloses` and, by counting with the
cardinality lemmas of the library, `DescriptorsCounted`, for any number of objects, terminals and descriptors.
`ValueInv` says what holds between the system calls of each member function: the shape of the call, the values it carries,
and that what `configure()` is to write back is what is set on the object by then (`TiosKept`). It gives
`CallsFitTheirPort` (`UartInv`), `ConfigurationHolds` and `DriftReported`. `ConfigurationStands` is inductive with it: the
steps of others either leave a terminal as it is or make it theirs (`Others`), and of the object's own steps (`Own`) only a
setter makes one setting differ, which stays excused until `tcsetattr()` succeeds or an error is returned.
`TimeoutApplies` adds the arithmetic of `Deciseconds`, for timeouts of
any length; it assumes a driver that carries out timeouts (`Unsupported["timeout"] = {}`), for one that does not leaves the
timeout as it was and reports success.

**Win32Uart_proofs.** `HandleOwnUntilClosed` is not inductive: what `open()` may free depends on where the other calls are.
`TableInv` adds that the table entry of a handle that *was* closed does not name its object again, and what each pending
call finds (`CallInv`). Actions that leave the table alone are one case (`QuietStep`), closing another (`CloseBodyStep`).
From it: `HandlesAreOwn`, and `HandlesCounted` with the cardinality lemmas. `ValueInv` adds which call each system call is
made for and that a port is open through one handle at most (`Exclusive`), so that the others leave the port of an open
object alone (`OthersStay`); it gives `CallsFitTheirPort`. `MembersInForce` follows with `InForceInv`, which says what holds
between the system calls of a call: the timeouts are in force from the second on, the line from the last.

**NmeaLink_proofs.** For any sentences and values, any size of the sender's and the receiver's buffers, any noise and any
number of faults.

* *Angles.* `AnglesExact` and `AnglesRounded` hold for angles of any size: degrees and minutes are the quotient and the
  remainder of the absolute value, a number with up to sixty minutes, sixty included, is read back as the angle it
  denotes, and rounding to the decimals of the field moves the minutes by half of the last one.
* *The sentence.* `Sentenced` says what the framer can rely on: no start delimiter behind the first byte, and a star five bytes
  before the end. `WholeSentence` shows it of what `serialize()` writes, down to the digits of `std::format` and of the checksum.
* *The framer.* `Held` says what it may have of a sentence: once its payload has ended, at most three bytes more.
  `Continued` has the three things that one more byte can do. `TypeCorrect` needs `Held`, for the text is no longer than the
  buffer, its delimiter and the footer only because the payload ends where the buffer does.
* *Numbers.* `FieldBack`: `value()` of what `Format` wrote of a field is the field, rounded to its decimals: the digits of a
  number are read back whatever their number, padding and sign, the parser ends at the point and at the end of the text, and
  an empty text is an absent field.
* *Where everything stands.* `TextsLaid` and `SentenceStands` give the place of every text, separator and digit of a sentence,
  and `SentenceCuts` says that the separators the framer finds are those that `serialize()` wrote. Hence `SentenceView`: the
  view has talker, type and texts. `StaysIn` and `ViewAtEnd`: the framer is silent at each beginning of the sentence and
  answers the view to the whole.
* *What arrives.* `IntactDelivered` is not inductive; `InCarriage` adds that while a sentence is on its way undamaged the
  framer's bytes and the line's together are the sentence (`Carrying`). From it `IntactArrives`.
* *Positions.* `PayloadOfFix` has the angles where `set_latitude_deg` and `set_longitude_deg` put them, whatever the setter of
  the time did before, and `AngleArrives` takes them through the rounding of the field. From these `PositionsArrive`.
* *Times.* The calendar first: years and months begin one behind the other (`YearsRise`, `MonthsRise`), so that `year_month_day`
  of a day is the one date whose day it is (`DateOfDay`), for any number of years. Then the digits of the clock (`HoursRead`) and
  of the date (`DaysRead`), and what `get_timestamp` makes of them (`TimestampRead`). From these `TimestampsArrive`.
* *Faults.* `LossCostsTwoSentences` is not inductive; `InStep` adds `Following`: once a whole sentence was sent after the last
  fault, what is on the line brings no new delimiter and is long enough to end the sentence in the framer, whichever sentence that
  is: a damaged one swallows the next from its delimiter on, and the star or the bytes behind the end of its payload
  finish it before the line is empty. With an empty line the framer is then at the beginning (`NothingFollows`), which
  is where the next sentence finds it: `TwoSentencesLost`.
* *Damage.* `Ends` says what a text must be to be answered with a view: an end of the payload, two digits that are its exclusive
  or, CR, LF. A text is `Unreadable` if nothing that begins with it is one, whatever follows, but for the rest of a footer.
  One changed character changes the exclusive or (`XorChanged`), and so does one that is lost, unless it is zero (`XorLost`), whatever
  characters move up; a loss also moves the end of the line. `ChangeTold` and `LossTold` go through where the damaged
  text's payload may end: before the sentence's own end, where it was, or behind it. Three changes leave the payload as it
  was, one of the delimiter to the other, one of the star to a newline and one of a digit to its other case: then the text is
  a sentence with the same view (`SameView`). A changed or lost byte at the beginning leaves the framer looking for a delimiter
  that the rest does not have. `DamageDetected` is not inductive; `InAccount` adds where a sentence is by the number of faults: on
  its way or delivered, or `Missed`, which the next sentence is then as well if the framer is still waiting for the end of the first. From it
  `DamageIsDetected`.

`IntactArrives`, `PositionsArrive` and `TimestampsArrive` assume `Receivable`; a smaller buffer, or another handler first,
delivers something else, as it should. `DamageIsDetected` assumes `Detectable`, and each part of it is needed: a lost NUL character,
which the model's texts may have, changes no exclusive or; a payload that fills the buffer to the last byte ends without
its star; and a sentence whose star was damaged can be completed to another by digits, CR and LF that the line makes up,
which takes an LF. TLC evaluates both for the instance of the run (`DetectableAssumption`). The other theorems hold without them.

**Only model-checked.** Liveness (`EveryPushReturns`, `AlwaysResynchronises`) is out of the prover's reach. `WireOrder` is a
fact about the table of messages that TLC evaluates for all 27; a theorem would have to assume it.

## 5. Not modelled

* `calculate_crc_extra()`: it folds names of types and fields that exist at compile time only; the link takes a constant.
* Destruction of a framer and `final_suspend`: the body never returns, and `destroy()` frees a suspended coroutine.
* The UART stub (answers success; its one constructor delegates to another that is commented out); benchmarks; NMEA
  enumerations (names of characters) but for the directions.
* The bytes that the Windows UART transfers, and `win32error2string()`.
* Times with a fraction of a second and leap seconds; see what was noticed about `set_timestamp()`.
* Floating point beyond decimals: exponents, infinities, ties, and numbers outside the range of `float` or `int`.
* Big-endian hosts, on which the MAVLink codec would not put fields on the wire in little-endian order.

## 6. Plan

Done, in this order, the most important behaviour first: hand-off; NMEA framer with its abstract sentence; MAVLink framer
with its abstract frame; POSIX UART; MAVLink codec, messages and link; NMEA codec, sentences and link; Windows UART;
NMEA utilities, composed with the link; proofs of every safety property of the hand-off, the two framers (refinements
included) and the two UARTs, of the angles, of the MAVLink link with its checksum, truncation and recovery, and of the NMEA
link: types and recovery, delivery of every field, times and positions from end to end, and detection of damage.

Left: times with a fraction and numbers outside the range of their C++ types (section 5). More than one fault in a sentence
is something an exclusive or does not always catch, and the code does not promise to.
