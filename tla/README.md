# robot-d5 in TLA+

This directory is a verification project for the robot program in `src/`: the
driver of its radio (`src/Drivers/FEHXBee.cpp`), the client of the positioning
system (`src/Libraries/FEHWONKA.cpp`), and the robot's own program
(`src/src/*.cpp`), of which `movement.cpp` is the heart. It consists of TLA+
modules, TLC configurations that check them on small instances, and theorems
that TLAPS proves for every value of the constants. `PROJECT.json` maps every
definition to the lines it models.

Checking and proving (from this directory):

    tlc -workers 2 -config Wonka.cfg MCWonka
    tlapm XBeeLink_proofs.tla

## 1. The system

The robot is a single program on a microcontroller. There are two contexts: the
main program, which polls, and the UART interrupt, which runs to completion
whenever a byte arrives. Everything the two share is a global.

| component | source | state | operations |
|---|---|---|---|
| XBee driver | `Drivers/FEHXBee.cpp` | packet state, buffer and index; a one-byte mailbox and its flag | `Initialize`, `SendData`, `ReceiveData`, `ReceiveDataSearch`, `SetPacketCallBack`, `UART0_ISR` |
| WONKA / RPS client | `Libraries/FEHWONKA.cpp` | `_WONKA_x` .. `_WONKA_time`, `_WONKA_foundpacket`, `_enabled`, region and course | `InitializeMenu`, `Initialize`, `Enable`, `Disable`, `WaitForPacket`, accessors, `WONKADataProcess` (callback) |
| Heading arithmetic | `src/movement.cpp` 1063-1157 | `bot->head` | `head_diff`, `ud_head` |
| Straight drives | `src/movement.cpp` 107-171, 343-402 | encoders, motors, two powers | `fwd_dist`, `bck_dist` |
| Timed and test motions, fork | `src/movement.cpp` 71-94, 271-341, 598-665, 914-1019 | none of their own | `fwd_time`, `bck_time`, `rot_time`, `fwd_tst`, `bck_tst`, `rot_tst`, `raise_fork`, `lower_fork` |
| Line followers | `src/movement.cpp` 183-260, 404-587 | line state, remembered side | `fwd_flw`, `bck_flw` |
| Rotations | `src/movement.cpp` 645-973 | headings, target, wrap flag | `rot_deg`, `rot_corr`, `rot_head`, `crct_head` |
| Startup | `src/main.cpp` 33-71, `Libraries/FEHWONKA.cpp` 46-126 | the region chosen | battery screen, region menu, start light |
| Mission | `src/main.cpp` 73-243 | none of its own | the script of one run |
| Journal | `src/logging.cpp` | a doubly linked list with sentinels | `init_log`, `log`, `dump`, `update` |
| LCD | `Libraries/FEHLCD.cpp` | text cursor, drawing region, colours | drawing and text |

How they interact:

- The interrupt handler calls `WONKADataProcess` through a function pointer with
  its static buffer when the ninth byte of a packet is stored. The callback
  writes five globals that every movement function reads without a lock.
- The same handler fills a one-byte mailbox. `ReceiveDataSearch` polls it for the
  replies of the radio module during `Initialize`: replies and packets share
  both paths.
- The movement functions are loops over what the interrupts last wrote (report,
  encoders) that set motor powers. Zero stands for "not seen" in a report, and
  is also a heading; a report covers half a turn.
- The mission calls one movement after the other. Each leaves motors, encoder
  counts and `bot->head` to the next.

What is hard: a stream without length, check sum or escape; a dialogue without
timeouts over a mailbox that can be overwritten; reports that wrap at 180
degrees, and are 0.0 when they fail; two reads of one report; loops that wait
for a report with the motors running. `PROJECT.json` lists each at its line,
under `hazards`.

What makes each component correct:

- XBee: losing a byte costs a bounded number of false frames; a loss-free stretch
  resynchronises; never past the buffer.
- WONKA: the dialogue stays in step with the commands; readings are packets, and
  whole; `Enable` returns with a reading, and only then.
- Headings: the stored heading is the true one as far as the reports allow.
- Movements: they end; the motors are off; distance, angle or heading is the one
  asked for; a correction acts against the drift it measures.
- Followers: the robot stays on its side of the line.
- Test motions: one press of the button ends one of them.
- Startup: the region configured is the one chosen, one letter for each press.
- Mission: every drive begins at the heading it is planned for, and the script ends.
- Journal: the list stays well linked and the window on it stays inside.
- LCD: the cursor stays on the display; shapes come out as asked for in every
  orientation.

## 2. Modules

| module | models | note |
|---|---|---|
| `XBee` | `UART0_ISR`, the static buffer, the mailbox | one byte is one step: the handler runs to completion |
| `XBeeReader` | `ReceiveDataSearch` | the handler may run between the read of the mailbox and the reset of its flag |
| `XBeeLink` | the driver under the stream of packets | extends `XBee`; the transmitter and the losses are external |
| `PacketFeed` | what the driver promises: whole packets in order, misses and false frames only in the wake of a loss | abstract; `XBeeLink` implements it |
| `Wonka` | `Initialize(int)`, `Enable`, `WaitForPacket`, `Disable`, `WONKADataProcess` | composes `XBee`, `XBeeReader`, main program, radio module |
| `Heading` | `head_diff`, the quadrants of `ud_head` | operators only |
| `HeadTracking` | `ud_head` over time | packets come between its two reads unless `Steady` |
| `Treads` | distances to counts, motor powers | operators only |
| `Straight` | `fwd_dist`, `bck_dist` | one of the two runs; extends `Heading` and `Treads` |
| `Drive` | what the script relies on when it calls a drive: from zero counts to the distance, motors off, and back | abstract; `Straight` implements it |
| `Turning` | the turning robot, its reports, its motors | the world of the next two |
| `RotDeg` | `rot_deg`, `rot_corr` | the two are the same program at two powers; the report's wrap and its correction |
| `RotHead` | `rot_head`, `crct_head` | uses `ud_head` and `head_diff` |
| `Turns` | one call of any of the four | extends `RotDeg` and `RotHead` |
| `Mission` | the script of `main` | extends `RotDeg`; a script is a sequence of records, one for each call |
| `LineFollow` | `fwd_flw`, `bck_flw` | over a one-dimensional world; the area is that of the last packet |
| `Movements` | one movement at a time: `Turns`, `LineFollow` or `HeadTracking` | each is a model of its own, and the other two rest |
| `Motions` | timed motions, fork, test motions, one after the other | a person at the button |
| `Display` | the orientation and what depends on it | shared by the next two |
| `Text` | the text cursor of `FEHLCD` | `Write`, `WriteLine` one character a step, `Clear`, `SetOrientation` |
| `Lines` | `DrawLine`, the straight lines, rectangles, and the drawing region they all end in | the panel's controller fills a window of rows and columns |
| `Circle` | the loop of `DrawCircle` and `FillCircle` | |
| `Startup` | battery screen, region menu, start light | an operator who presses anything at any time |
| `Panel` | buttons and display | one of `Startup`, `Text`, `Circle`, `Lines`, `Motions` at a time |
| `XBeeLink_proofs`, `Wonka_proofs`, `HeadTracking_proofs`, `Straight_proofs`, `LineFollow_proofs`, `Turns_proofs`, `Panel_proofs` | theorems | `Turns_proofs` is about `Turns` and `Mission`, which share `RotDeg` |
| `Heading_proofs` | theorems about `Heading`'s operators | the lemmas of the three modules about headings |
| `MC*` | constants of the runs | |

Names follow the code: a variable of a model is the global or local of the same
name (`xbeebufferindex` is `_xbeebufferindex`), an action is a function or the
stretch of one between two points where another actor can matter. Operators
whose name is that of another with a suffix (`PacketReady_OneLate`) are faulty
variants that stand for a plausible slip; nothing uses them but the mutants of
`PROJECT.json`. Where two modules are composed that model the same thing for themselves,
one of them has another word for it: `stored` in `HeadTracking` is `bot->head`, `powers` in
`LineFollow` what `motors` is in `Turning`, `phase` and `call` are program counters.

The two refinements map as follows. `PacketFeed`'s stream is that of `XBeeLink` without
its bytes: the packet being sent, the last one that lost a byte, the losses that may
still produce a false frame, and what was handed over last; an interrupt that
completes no frame is a stutter, or a `Miss` when the packet ends with it.
`Drive`'s stage is read off the program counter of `Straight` (`start`, `done`, anything
else) and its `moving` off the two powers; the wait for a report, the measurements
and the corrections are stutters.

What is abstracted:

- A byte carries where it came from (packet and offset, or reply and offset); the
  code sees only whether it is 0xFF, an `O`, a carriage return or something else.
- `WONKADataProcess`'s arithmetic is kept as "which two bytes make which field".
- Angles are integers, `Degree` of them to a degree. The values 179.9 and 89.9 in the
  code become one less than half and quarter turn. The code's floats are near the tenths,
  not on them, so where two values are equal in the model its comparison may go either
  way. One such tie it always decides against equality, and so does the model: 702
  compares with a double, and a float of 179.9 is less than the double (`WrapsAround`).
  The others are decided for equality: a wrapped target of 0.200006, say, is 0.2 here, and a
  report of 0.2 ends the turn that would run on to the next report in the code. So a turn of
  the code may overshoot by a tenth of a degree more than one of the model, and never stops before it:
  this concerns right turns and left turns through the wrap, not left turns that do not
  wrap. The bounds of `RotatesAsSpecified` and `LegHeadings` are about the model, without these tenths.
- A tick of `Straight`, `Turns` and `Mission` is one packet interval or one sleep; the
  polling loops run many times in between, so the program gets as far as it can
  before the next tick. A tick of `Startup` and `Motions` is 50 ms.
- A drive of `Mission` is one step that turns the robot a little: its motors are
  off when it ends, which is what `Straight` shows. The heading a drive is planned
  for (`plan`) is read off the script: the program does not hold it.
- In the runs of `Mission`, and in the theorem about its drives, the robot is in sight
  of the positioning system throughout (`MaxOutage = 0`, part of `Budget`). What an
  outage does to a turn is the subject of `Turns`; after a turn that stopped short
  no heading of the rest of the script could be promised.
- `Lines` keeps the ordinate of `DrawLine` as an exact fraction. The code adds up a
  `float`; where the exact value is just between two pixels the sum may be on either
  side, so either pixel may be drawn.
- `Motions` tells motions apart by their direction, not by their powers. `fwd_tst` ends with
  a call of `log` on `bot->journal`, which nothing sets: from there it may return or not.
- Halves of a tenth of a degree (the division by two in the corrections of `main`)
  are rounded away from zero: a target between two reports acts as the further
  one in a comparison.
- The text on the display is left out where buttons are the subject (`Startup`),
  and the characters where the cursor is (`Text`).
- `LineFollow` has the distance of the sensor from the line as its world; a turn
  of 10 ms moves the sensor by one, to either side alike (the code's powers of
  the two turns mirror each other); what the optosensor sees of it is low, high or between.
  `fwd_flw` polls once in such a step. Its `Y()` is the one of the last packet, which came up to
  `PacketSteps` steps ago, or of a failed report, which is zero and passes for the shop.
  The robot changes areas at most once, before the call (`crossed` from the start: the first
  report may be old, too) or in it.

Assumptions about the build and the hardware: the program is built without optimisation,
so that polls of the globals (which are not `volatile`) read memory; plain `char` is
unsigned on this compiler, so that a byte can equal `0xFF`; interrupts do not nest.
`Enable` is called twice in one run of `Wonka`: `main.cpp` calls it once, but the class
offers `Disable` and the second call is legal. In `Motions` a finger that has ended a
test is off the screen within 200 ms (`MaxHold`), which is the time the code gives it.
Motors, encoders, the UART firmware and timers are not in the repository and are
modelled by how the code uses them.

## 3. Runs

Bounds are in the configuration files; each is named in its module.

| run | what it asks | bounds, and why they are enough |
|---|---|---|
| `xbee_link` | framing | 9-byte packets in the 16-byte buffer, as in the code. `MaxPackets` = 7 and `MaxLost` = 3: a loss damages the packet it is in and the next, so three losses can be adjacent, apart, or in the same packet, and two clean packets still follow. From packet 5 on one data byte is 0xFF, so that runs have a plain stretch and one where misframing persists. `FeedRefined` is checked on the same instance |
| `wonka` | dialogue, feed, enabling | seven commands as in the code; one lost byte, one refusal, any number of command mode timeouts, two packets told apart by number, `Enable` twice. A reading is from one packet or from two, so two numbers are enough. `Prompt`: a byte is taken before the next one arrives while `ReceiveDataSearch` polls (at 9600 baud a byte takes a millisecond). |
| `straight` | `fwd_dist`, `bck_dist` | 4 inches (11 left counts, 7 right): several measurements; drift up to 6 degrees (`HEAD_ERR` = 2 degrees here); two ticks of outage (`MaxOutage`) in a row; 1 or 2 counts a tick, so that one tread can outpace the other by twice; encoders that hold nothing or more than the drive's target (`Stale`) when it is called |
| `movements` | the turns, `ud_head`, the line followers | `Turns`: turns of 30, 45, 90 left and 10, 15 right from six headings; nine headings around the full turn and six targets, one of them beside the wrap, for the other two; outages of two ticks; 1 or 2 degrees a tick, so that the robot cannot step over the window it stops in (at 3 degrees, with a target of 1, it can, for ever: the report at 0 is a failed one). `MaxTurn` = 400 degrees is more than any turn takes unless it runs away. `HeadTracking`: a full turn in steps of a degree, up to 4 degrees (`MaxStray`) between calls, out of sight at any time. `LineFollow`: sleeps of ten steps and a search of 100 each way, as in the code; a line of eleven steps; `Reach` = 240 covers both searches from everywhere; `bck_flw` starts anywhere about the line, and every 13 steps up to 130 away. A sleep takes the sensor at most twice half the line (`Drift`, in `LineAssumption`): with more, it crosses the line asleep. Packets every ten steps (`PacketSteps`, 100 ms); up to 11 measurements in the wrong area (`MaxMisled`), two more than `FwdKeepsEdge` speaks of and than one interval without failures has |
| `mission` | the script | at the resolution of the reports (0.1 degrees), from 87, 90 and 94 degrees, with 0.3 or 0.5 degrees between two reports and 1.0 right or 4.0 left for each drive: the errors of the whole script add up, and pass the choice between the two corrections at 111 on both sides. `Tolerance` = 8.5 degrees; at 8 it does not hold. These constants are at the limits of the `Budget` the theorem is about, which TLC evaluates (`WithinBudget` in `MCMission`). `MaxTurn` = 120 degrees is more than any call turns except the ones of `mission_window` that run on, and lets those come round |
| `panel` | the operator's side | twelve letters, all three buttons at any tick; strings of up to three characters, which fill lines up to their end from every column, with newlines; the display's 14 x 26 and 18 x 19 characters; circles of radius 0 to 120, half the height of the display; lines between any two of 6 x 6 points, which have every direction and every fraction of slope up to fifths, rectangles of up to 3 x 3; motions of 1 or 3 ticks (`Times`), shorter and longer than what is left of a press |

The properties are stated and explained in the modules. The ones that say most:

- `SplicesBoundedByLosses`, `CleanPairDelivered`, `LosslessDelivery`: what the
  framing without check sum does promise; `FeedRefined`: that this is all of it, as an
  implementation of `PacketFeed`. `MisframingPersists`: what it does not.
- `DialogueInStep`, `InitializedMeansConfigured`: no reply is mistaken for that of
  another command, although they are told apart only by order.
- `NoPhantomPacket`, `EnableMeansReading`: the flag the handler sets and the main
  program resets is never ahead of a packet.
- `StaysAccurate`, `DecidesOnTrueHeading`: half a turn of report
  is enough to keep a whole turn of heading.
- `DriveContract`: `Straight` implements `Drive`, which is what `Mission` takes a drive for;
  its liveness half says that every call returns.
- `StopsAtDistance`: the overshoot of a drive is what the ticks it is blind for
  (`Blind`) amount to. `CorrectsTheDrift`, `MeasuresTheDrift`: corrections have
  the right sign and are not missed. `CorrectionsPaced`: how fast the powers can leave
  what they began with; that they can leave it for good is in section 3's observations.
- `RotatesAsSpecified`, `LeftNeverStopsShort`, `StopsAtHeading`: turns stop where
  they should, in sight; out of sight, only on one side.
- `LegHeadings`: the errors of 11 drives and 19 turns, each small, never add up to
  more than 8.5 degrees when a drive begins, since the corrections against the
  report are in the right places (without the one at 152-163, say, it fails), as long
  as no turn was `narrow`. `narrow` remembers a turn whose stopping reports, between
  its target and zero or the wrap, are fewer than a tick may step over;
  `mission_window` shows what happens then.
- `OneMovePerPress`, `TextStaysReadable`, `CircleAsCommented`, `ShapesAsAsked`: the
  menu, the cursor, the sums of the circle algorithm, and lines and areas in four
  orientations do what one would check by eye.
- `OnePressPerTest`: a press that has ended one test does not end the next, however
  soon it is called; the sleep in the code is as long as it has to be, not longer.
- `FwdKeepsEdge`, `FwdToldInTime`: `fwd_flw` may take one area for the other, since its `Y()` is
  old or a failed report. It then turns the wrong way by a step, and the next measurement
  does not add to that unless it is misled as well: so it strays by the number of such
  measurements (`misled`), which a change of areas keeps below a packet interval.
- `BckKeepsSide`: `bck_flw` decides on the side of the line once and turns for 100 ms at a
  time; it is asked only of a robot that is in the area its first report said (`Told`).

`CHECK_DEADLOCK FALSE` is set where the program of the run ends (the movements, the
mission, the panel) and where the bounded stream ends (`xbee_link`).

The dialogue of `wonka` is checked for payloads whose bytes look like nothing the
reader searches for. With `PayloadChar[8] = "O"` (a match time of 79 seconds),
`InitializedMeansConfigured` fails: an `O` in a packet that is coming in as the
dialogue begins is taken for a reply, and every later command is judged by the reply
to the one before it.

### Fairness

`Wonka` assumes that the transmitter keeps sending, the module answers, interrupts are
served and the main program runs: that is what the hardware does, and nothing else in
the code makes progress. Losses, refusals and timeouts are not fair. Its liveness
properties hold only under `[](lost = 0)`: the polling loops have no timeout, so one
lost carriage return can stop the dialogue. The movements assume `WF_vars(Next)` (in `Movements`, of `MovementNext`): the
program is the only one, ticks are external, and the encoders of a running robot count
(the liveness in `DriveContract` is about a robot that is not stuck). Outages are
bounded by `MaxOutage` in a row (`Straight`, `RotHeadTerminates`'s `<>[](outage = 0)`),
because the loops that wait for a report have no timeout either. `MissionCompletes` is
about missions whose reports are never 0.0 (a robot that stands at exactly zero waits
for ever at 691) and whose turns are never narrow.

### Findings

Six runs are expected to be violated; each checks one sentence of the code's own
comments.

| run | what the code does |
|---|---|
| `wonka_error` | the `// if error` test accepts the reply `ERROR` (read from its `O` on) |
| `straight_wrap` | `head_diff` has the wrong sign above 89.9: near the wrap the correction of the drift adds to it |
| `straight_balance` | `bck_dist` compares its treads by dividing ints (381): both quotients are 0 until the drive is over, and no balancing ever takes place |
| `turns_right_wrap` | the target of a right turn through zero is `180.0 - target`, above every report: the turn stops when the report has wrapped |
| `mission_window` | the second `rot_deg( 40.0 )` towards the ramp (`main.cpp` 105) may begin a few tenths below 140 degrees: the polls step over the reports between its target and the wrap, and the robot turns on by half a turn |
| `line_search` | the search to the right (551) is as long as the one to the left and starts where that one ended: a line just to the right is given up for lost |

Observed while modelling, without a run of their own:

- `ud_head` (1097, 1149) reads the report twice. If a packet arrives in between, a
  failed report is stored as a heading. `StaysAccurate` is proved under `Steady`,
  which excludes it.
- The powers of `fwd_dist` start at -96 and -90, which is forward. A correction moves
  both by 7 in opposite directions, so the first one that speeds up the left motor asks it for
  -103, beyond its range (100): the robot gets less of it than the code computes.
- `fwd_dist` (140) waits for a report without a look at the encoders: the overshoot
  is as long as the outage.
- The clockwise loop of `rot_deg` (756) ends on a failed report, which is 0.0 and
  below every target; a failed report in the wait for the wrap (721-724) passes
  for the wrap.
- The wait at 756 has the window of `mission_window` on its other side: a right turn
  of 45 degrees (`main.cpp` 147, 191) from just over 45 has its target just above zero.
- If the balancing of `bck_dist` did act, it would add to the difference: its powers are
  positive, so `l_pwr -= BLNC_FCTR` (-7) speeds up a left tread that is ahead.
- `bck_flw` reads its area once (409): if that report was old or failed, or the robot
  changes areas, it takes the floor for the line until it returns.
- `main` reads `Heading()` twice at 111 and 114: if the second report is a failed one,
  `(0.5 - 0.0) / 2` turns the robot left by next to nothing and leaves the heading
  uncorrected, and the other branch turns it by 89.7 degrees.
- The press that ends the battery screen (`main.cpp` 39) ends the region menu as well
  (`FEHWONKA.cpp` 59) if it lasts 250 ms longer, and nothing on the display changes
  before: whoever waits for it to change has selected region A.
- A newline written on the last line (`FEHLCD.cpp` 1252) leaves the cursor below the
  display, since only `NextChar` at the end of a line and the next call look at it;
  anywhere else the next character is one column in.
- In `East` and `West` the rows of a shape are counted from `_width`, 240: what is drawn at
  x = 0 goes to row 240 of a panel that has rows 0 to 239. `Lines` checks shapes up to
  that shift.
- `DrawRectangle` draws the outline of an area one pixel wider and higher than the one
  `FillRectangle` fills for the same arguments.
- `WriteAt` and `Write` of a single `char` pass on a `char str[1]` (651) that has no
  terminator.
- `fwd_tst` (307) logs into `bot->journal`, a pointer nothing in the program sets.
- `bck_flw` does not reset the encoders and returns with the motors on (571, 587).
- `rot_head` never ends for a target of half a turn or more; `crct_head` (953)
  passes its arguments to `head_diff` the wrong way round and turns away from its
  target, into the range where `head_diff` has the wrong sign.
- `init_log` (54-73) returns a list made of local variables.

## 4. Proofs

`XBeeLink_proofs` proves, for every `PacketSize`, `BufferSize`, number of packets
and number of losses, under the assumptions `SizeAssumption`, `ByteAssumption`,
`LinkAssumption` and `LinkByteAssumption`:

- `TypeCorrect`: `Spec => []TypeOK`. The handler stays within the packet.
- `SplicesBounded`, `Resynchronises`, `LosslessDelivers`: the three delivery
  properties of the run.

None of the three is inductive. The argument is a case split on whether the frame
in the buffer is `Damaged` (the handler collects, but not the prefix of the packet
that is being sent). `SpliceInv` counts a damaged frame as one already spliced: a
loss can make at most one frame damaged, and a damaged frame becomes at most one
splice, after which the handler waits for the next start byte. `ResyncInv` says
that a frame that the last loss has damaged is ahead of the packet being sent
(`xbeebufferindex > offset`), so that it ends inside the packet after the loss,
and that everything is in step (`InStep`) one packet later. `LosslessInv` is the
case without losses, where data bytes that equal the start byte do no harm,
because they are only ever seen inside a frame. `Inv` is the conjunction; the lemmas
show `Init => Inv` and that `Receive` and `Lose` preserve it, one part at a time.

- `FalseStartStays`: `Spec => MisframingPersists`. `TrackInv`: a frame that has lost nothing is
  as long as the way from its first byte, in this packet or over its end into the next (`Since`);
  so a full one ends just before the place, one packet on, where it began (`PersistInv`).
- `FeedImplemented`: `Spec => FeedRefined`. With `Inv`, each interrupt is a `Deliver`, a
  `Miss`, a `Splice` or a stutter of `PacketFeed`, and each loss a `Lose`: one lemma for
  each case.

`Wonka_proofs` proves, for any number of packets, losses, refusals and calls of `Enable`,
and with or without `Prompt`:

- `DialogueStaysInStep` and `ConfiguredInFull`: `NoODataByte /\ Spec =>
  []DialogueInStep`, and the same for `InitializedMeansConfigured`. The condition says
  that no data byte of a packet is an `O`; section 3 says what happens without it. The
  invariant (`DialogueInv`) follows the one `O` of a reply through the places it can be
  in: on the line, in the mailbox, in the hand of the reader. While a command waits for
  its answer there is at most one, its own, and the reader has kept nothing yet
  (`AnswerInv`); once the reader has kept it there is none (`KeptInv`); before the next
  command there is none either (`QuietInv`); and no command is left behind unanswered
  (`DoneInv`). The mailbox may lose bytes to the interrupt that comes between the read
  and the reset of its flag: that only makes an `O` disappear.
- `NoPhantoms`, `EnabledHasReading`: from `FeedInv`, without that condition. A flag that
  is set stands for a packet decoded since the last announcement, whose last byte came
  in over the line and is not the content of an untouched buffer.
- `ReadsOnePacket`: `NoODataByte /\ NoStartDataByte /\ Spec => []ReadingIsOnePacket`. The
  second condition says that no data byte is 0xFF: the robot may be switched on in the
  middle of a packet. Each condition is for one half of the property.
  For a line that loses nothing, `WholeInv`: the handler's buffer and the line together
  are one packet from its first byte on, or the handler waits and the line holds a packet from
  its beginning or no start byte. For the replies, `FrameInv`: a packet that was cut short
  before the module entered command mode swallows the replies that follow. The reader
  counts at least two bytes of each answer it accepts, and the handler has seen them first
  (`CountInv`: the index is at least twice the commands done, plus what the reader has of
  this one), so at the last of the seven the packet would have to be longer than the
  nine bytes it has; hence it is full by then, the last reply falls between two packets
  and, as no byte of it is a start byte, is skipped (`ExitInv`). What the handler does
  in command mode is never seen, because the feed is enabled only after the dialogue
  (`UnreadInv`). `LineInv` says that the transmitter puts no packet behind a reply that is still
  on the line.
- `TypeCorrect`: `Spec => []TypeOK`, for any bytes (`Handler` is the lemma about `UART0_ISR` that
  this proof and those of `FrameInv` and `WholeInv` share).

`Heading_proofs` and `HeadTracking_proofs` prove, for every resolution `Degree`:

- `NewHeadExact`: if the stored heading is less than 45 degrees off, the quadrant
  rules return the true one from its report.
- `HeadDiffSign`: for every two reports, `head_diff` is the shorter way from one to the
  other round a circle of 179.9 degrees, with the wrong sign exactly where the target
  is more than 89.9 above the current heading.
- `Accuracy`: `Steady /\ TrackingSpec => []StaysAccurate`, with the invariant that what
  was read is the report of where the robot still is while `ud_head` is between
  its reads.

`Straight_proofs` proves, for every resolution, distance, period, drift, rate of counts
and content of the encoders:

- `TypeCorrect`, `BackwardNeverRebalanced`, `CorrectionsArePaced`. The invariant has one
  part for each: the motors run exactly between the start and the end of the loop, which
  rests on the powers never being zero (they stay at -96 plus multiples of 7:
  `MotorsInv`); `bck_dist` changes its powers only when the loop is over
  (`BackwardInv`), so that `straight_balance` is violated at every distance; the corrections made are paid for with periods driven (`PaceInv`).
- `KeepsContract`: `Spec => Contract!Safety`, the safety half of `DriveContract`, one
  step of the proof for each action of the two functions.
- `StopsInTime`: `Spec /\ []InSight => []StopsAtDistance`. `OvershootInv` bounds the counts
  beyond the target by the ticks since the encoders were last looked at. `InSight`
  says no more than that the robot never heads exactly for 0, where each report is taken for a
  failed one and the wait at 140 has no bound; out of sight it may be, for `MaxOutage` ticks in a row.
- `DriftCorrected` and `DriftMeasured`: `CorrectsTheDrift` for drives that do not pass zero to
  the right (`AboveZero`; `straight_wrap` is the other case), `MeasuresTheDrift` for all that
  turn by less than a quarter turn (`SmallDrift`). `DriftInv` gives the report as what the drive
  began with and has turned since, but for half a turn.

`LineFollow_proofs` proves, for every width of line and edge, search length, drift and packet
interval within `LineAssumption` (about `LineSpec`; the specification of a run of `Movements`
is that of the one movement it begins with, and the others rest):

- `TypeCorrect`, `FwdEdgeKept` and `FwdTold`. `StateInv`, in `FwdInv`: either the state that was
  read is the one the sensor is in, and the robot within `misled` steps of the edge, or the area
  was mistaken just now, and the robot within one step less (the step that the mistake will cost
  is counted already); the edge itself looks the same in both areas. `ReportInv`: without a
  failed report, `misled` is no more than the age of the packet.
- `BckSideKept`: `SideInv` gives, for each of the ways it may turn in its sleep, where the
  sensor began.
- `RightNeverFound`, which is why `line_search` is violated, for every length of the search:
  `SearchInv` says that the ground the search to the left has covered is free of the line,
  which is all the ground the one to the right covers.

`Turns_proofs` proves, for every resolution, turn rate and length of outages:

- `LeftTurnsInFull`: `Spec => []LeftNeverStopsShort`. For a left turn that does not
  reach the wrap the report is the first heading plus what the robot has turned
  (`LeftInv`); the loop ends on a report that is not below the target, and a failed one
  is below every target.
- `HeadingReached`: `Goals \subseteq Report /\ Spec => []StopsAtHeading`. `NewHeadShows` and
  `NearMeansClose` are the arithmetic: what `ud_head` computes shows as the report it was
  computed from, and where `head_diff` is small the reports are close, wherever the
  report wraps. `HeadInv` adds that a stored heading at the goal is one that was renewed in
  this iteration, since on the one before `rot_head` decided to turn on, or the one it was
  called with, which is right (`RotHeadInit`). The condition is about the goals: `head_diff`
  corrects for one wrap only.
- `RotatesInFull`: `Room /\ Spec => []RotatesAsSpecified`. `Room` says what the reports need: a
  target before the wrap, or after it, is a sample short of the wrap, a turn that wraps starts a
  sample above zero, and a right turn does not pass zero (`turns_right_wrap` does).
  `InFullInv` gives the report, in each phase of the turn,
  as start plus angle turned, less the wrap; in sight (`unseen` is false) the last report
  before the end was short of the target.
- `DecidesTruly`: `ShortOutages /\ Spec => []DecidesOnTrueHeading`. `TrueInv` bounds how far the
  robot has turned since the stored heading was true. It counts two outages, since a
  report of exactly 0.0 in sight between two of them is taken for a failed one.
- `TypeCorrect`: `Reportable /\ Spec => []TypeOK`. The one call left out is half a turn from
  179.9 degrees, whose target is 180, which no report reaches.

and of the mission, whose turns are the same calls:

- `LegsKept`: `Budget /\ MissionSpec => []LegHeadings`. `Budget` bounds what the world may add:
  the robot is put down at 87 to 94 degrees, a drive turns it by one degree to the right or four
  to the left at most, a tick by half a degree; what comes out is eight and a half degrees, at any
  resolution and for any rates and drifts within those bounds. `LegHeadings` says nothing of what
  the robot does between two drives, so the invariant (`MissionInv`) gives for each of the 34
  steps the headings at which it may begin (`Band`, in half degrees), and for a call that runs
  where it began (`Base`), what `Begin` computed from that (`Begun`) and how far it has come
  (`Way`, one part for each side and for whether it goes round through the wrap). When the call
  stops it has turned by the angle asked for, a sample late at most, or as far beyond the wrap
  as a right turn through zero goes (`Ends`, `CallEnds`); from anywhere in its band that leads
  into the next one (`Lands`; `RotationLands`, `Corrections90Land` and `Corrections0Land` are the
  arithmetic of the three kinds of call, `DriveLands` that of a drive). A drive whose band is
  the whole of what could have happened is near enough to its plan (`DrivePlanned`). A call
  that is narrow (`Tight`) is followed up to the tick in which `narrow` is set, and no further.
  The bands were found by carrying intervals through the script. They are not symmetric: the
  corrections to 0 aim at half a degree above and 0.6 below, and every turn errs to its own side.
- `MissionTypeCorrect`: `MissionSpec => []MissionTypeOK`, in sight or out of it. No correction
  asks for more than a quarter turn, so `Reportable` need not be assumed. (The runs leave
  the type invariants of the followers and of the mission to the theorems.)

`Panel_proofs` proves, for every number of regions, set of strings, radii and times; each of
the programs has an invariant that the others leave alone (`Parts`):

- `TypeCorrect`: `Spec => []TypeOK`.
- `PressMovesOnce`: `Spec => OneMovePerPress`. `FreshInv`: outside the wait for its release,
  a button that is down has not moved the region yet.
- `PressEndsOnce`: `MaxHold <= 4 /\ Spec => OnePressPerTest`. `FingerInv`: a press that has
  ended a test is as old as the sleep that follows has run, so it is over when the sleep is.
- `TextReadable`: `Spec => []TextStaysReadable`. While a string is being written the cursor is
  on the display and every cell written is before it (`OnDisplay`), unless a newline has
  taken it below; between strings it may also rest one line further down (`Resting`). One
  lemma for each helper: `Checked`, `Putting`, `MovingOn`, `Ended`.
- `CircleCorrect`: `Spec => []CircleAsCommented`. The comments' equations are the
  loop's invariant; with them, the decision `f >= 0` is the comparison of the middle
  between two pixels with the circle, and the pixel chosen is within half a pixel.
  Past the diagonal (`x > y`, at most once, in the last step) only one of the two
  bounds holds, and the theorem claims no more.
- `ShapesDrawn`: `Coords \subseteq 0..239 /\ Spec => []ShapesAsAsked`. The condition: a point of each
  orientation; `DrawHorizontalLine` writes `_width` pixels however long the line is.
  `RegionFilled` says what a window of the panel shows when it has been filled, upright or
  upended; `AllFollow` and `TraceIsLine` are Bresenham's walk, with the rounding as the choice
  it is; `FlatStrokes` that along the columns and the rows there is no choice. `ShapeInv`: the
  lines still on the list are the last of those asked for, the picture is that of the ones before
  (`back`), and of the one in the loop the pixels up to where its pen is (`Drawing`).

Only model-checked: liveness (`InitializeTerminates`, `EnableReturns`, the half of
`DriveContract` that says a drive returns, `RotDegTerminates`, `RotHeadTerminates`,
`MissionCompletes`), which needs fairness and `ENABLED`. Every invariant and every action
property of a passing run is a theorem.

## 5. Not modelled

- Register writes (`FEHXBee::Initialize`, FEHLCD's pixel level, colours and fonts),
  accessors and forwarding functions: no decisions.
- `ReceiveData` (polls like `ReceiveDataSearch`, without a search), `flw_light` and the
  functions of `logging.cpp`: nothing calls them, except for the one call of `log` in
  `fwd_tst`. `init_log` (54-73) returns a list made of its local variables, so there is
  no defined behaviour a model of the journal could be faithful to.
- `fwd_bck.cpp`: an earlier form of `movement.cpp` that is not in the list of files built.
- `resources/`: the compiler, its headers and its runtime library, by far the largest part
  of the repository by size; and the firmware (motors, servo, timers, UART), which is not
  in the repository. The hand-written program is nearly all of what is modelled here.
- How motor powers turn the robot: the models take any turn rate in a set, so no
  property depends on the powers' sizes.
- A robot that is stuck: no drive has a timeout, so it waits for ever by design.
- Headings out of range: a false frame can put any value in `_WONKA_heading`. How
  often that happens is bounded (`SplicesBoundedByLosses`); the movements are modelled for
  reports that are headings or failures.

## 6. Plan

Done: the link and the abstract feed it implements; the dialogue, the feed and the proofs
of both; headings; straight drives and the contract they implement; turns; followers;
the mission; timed and test motions; the menu, text, circles and lines; theorems about
every one of these.

Left, in the order of what it would add:

1. The drift of a drive in `Budget` from the bounds `Straight` proves for a period, and
   `Mission` over `Drive`: the script with the contract's actions in place of one step
   for each drive.
2. False frames as reports in `Turns` and `Straight`: headings outside 0 to 179.9.
