# Breath-alcohol interlock: TLA+ models, model checking and proofs

The repository is the firmware of an ignition interlock for a truck. A driver
presses a button, is recognised by a camera, blows into a sensor, and a relay
lets the engine start for a number of minutes. This directory holds TLA+
modules of the parts of that firmware in which order, timing, loss and restart
matter, TLC configurations that check them on small instances, and TLAPS proofs
of what matters most for every value of the constants.

All paths below are relative to `src/`. "Center" is `main/Center.v7/`, "Relay"
is `main/Relay.v3/`.

## 1. Inventory

| Component | State it keeps | Operations | Talks to | What makes it correct |
|---|---|---|---|---|
| **Center: lock, countdown, flags** (`Center.v7.c`, `offWebsocket.h`) | `BLOCK`, `timedownMinute`, four command flags, `k`, `previous...` clocks | `setup()`, `loop()` (two branches, with and without WiFi), `updateWebsocket()`, `webSocketEvent()` | Relay by WebSocket, app by Blynk, breath test by flags | the car is unlocked only when something asked for it, and not past the countdown; the two records of the lock (`BLOCK`, `timedownMinute`) agree |
| **Relay** (`Relay.v3.c`) | GPIO0, LED, `previousMillis` | `setup()` (pin LOW), `webSocketEvent()`, heartbeat | Center | the pin follows the Center's lock across loss, restart and reconnection |
| **WebSocket session** (`libraries/WebSockets/`) | TCP session, five server slots, client status | connect, handshake, send, receive, notice a loss | both ends | frames arrive in order or not at all; a new session starts with the answer to `/` |
| **Relay watchdog** (tail of `updateWebsocket()`) | `previousCheckConnectOfCenterVsRelay`, `k` | arm, refresh, reset | Relay's 20 s heartbeat | a Relay that is there is never given up, one that is gone is noticed |
| **Phone app handlers** (`offBlynk.h`) | alarm table row, displayed values | V1 toggle, V11 clear table, V21/V22 values, V30 unlock time, V32/V33/V34 limits | the four flags, EEPROM | a toggle acts on the lock of the moment; settings take effect and survive |
| **Breath test** (`offMeasureAlcoholConcentration.h`) | `alcoholFlash`, `t1`, `t_laymau`, `MAX`, `MIN`, `isMatchFaceID`, request line | button interrupt, `readIsAlcohol()` | camera by two wires, sensor, flags | a verdict is about the breath of the press it answers |
| **Configuration** (`offBlynk.h`, `offWebserver.h`, EEPROM library) | flash sector, RAM copy, working copies | `EEPROM.write/commit/read`, V handlers, `cai_dat()` | everything that reads a setting | working copy, RAM copy and flash agree; a crash loses at most the last change |
| **WiFi settings page** (`offWebserver.h`) | none of its own | `cai_dat()`, then always a reset | EEPROM, Center | a reset follows every submission |
| **Face camera** (`ESP32-CAM_...c`) | face list, enrolment and recognition flags, stream state, two wires | loop, stream task, command handler, enrolment from SD | Center by two wires, SD card, browser | a match is raised only while it is asked for, and lowered afterwards; the face list is whole |
| **Temperature module** (`Nhiet_do_Do_am.c`) | last values | one sequential loop | Center by a Blynk bridge | values arrive every ten minutes |
| **EEPROM initialiser** (`write_EEPROM/`) | - | one write | EEPROM | the layout agrees with the Center's |
| **Display, LED, HTML, alarm table text** | - | output only | - | - |

Behaviours that are hard here:

* *Order inside one loop pass.* Verdict, countdown and app set flags in different
  calls; `updateWebsocket()` handles them a second later, in its own order.
* *Handlers inside handlers.* A write to the app may run Blynk, and with it the handlers
  of what the app has sent, in the middle of `updateWebsocket()`.
* *Two records of one decision.* Everything decides by `BLOCK`, only the answer to
  `/` decides by `timedownMinute`.
* *Loss.* A broadcast to a session that is dying is lost without an error; only the
  `/` of the next session can make up for it.
* *Resets.* `ESP.reset()` is the error handling of the Center (lost WiFi, silent
  Relay, settings saved). The countdown is in RAM, the unlock time in flash, the
  relay's pin in another box.
* *An interrupt* that lasts 100 ms and rewrites the variables of a function it can
  interrupt anywhere.
* *Timeouts.* A 25 s limit over a 20 s heartbeat, both tested by loops that block in
  `delay()`.
* *Flash that is erased before it is written*, by handlers that look at no result, and
  rewritten by every alarm.
* *Three tasks of the camera* that share a list of faces and four flags without a lock.
* *A pool of five slots* that a single client can fill by losing its connections.

`PROJECT.json` lists the hazards one by one, each at its line.

## 2. Modules

| Module | Models | Kind |
|---|---|---|
| `Interlock` | Center, Relay and the session between them | detailed specification |
| `Lease` | what the Center promises | abstract specification, refined by `Interlock` |
| `MCInterlock` | claims of the header comment of `Center.v7.c` that the code does not keep | properties for TLC |
| `InterlockProofs` | theorems about `Interlock` | TLAPS |
| `RelayWatchdog` | heartbeat, watchdog and the times of both loops | detailed specification |
| `RelayWatchdogProofs` | theorems about `RelayWatchdog` | TLAPS |
| `BreathTest` | `readIsAlcohol()`, the button's interrupt and the wires to the camera | detailed specification |
| `BreathContract` | what the breath test promises the Center | abstract specification, refined by `BreathTest` |
| `BreathTestProofs` | theorems about `BreathTest` | TLAPS |
| `ConfigStore` | EEPROM sector, its copy and the working copies; every handler that writes a cell | detailed specification |
| `MCConfigStore` | a claim about the threshold that V11 does not keep | property for TLC |
| `ConfigStoreProofs` | theorems about `ConfigStore` | TLAPS |
| `FaceList` | the list of faces, as the camera's firmware uses the face library | external component |
| `FaceListProofs` | lemmas about `FaceList` | TLAPS |
| `FaceEnroll` | boot of the camera: enrolment from the SD card, over `FaceList` | detailed specification |
| `FaceEnrollProofs` | theorems about `FaceEnroll` | TLAPS |
| `FaceCamera` | the camera at work: loop, stream and web server over one `FaceList` | detailed specification |
| `MCFaceCamera` | the lists it may start with | constants for TLC |
| `FaceCameraProofs` | theorems about `FaceCamera` | TLAPS |
| `SlotPool` | the client slots of the Center's WebSocket server | detailed specification |
| `SlotPoolProofs` | theorems about `SlotPool` | TLAPS |

### Interlock

`pc` is the call that one pass of `loop()` has reached:

    boot -> (login ->) check -> ws -> update -> countdown -> breath -> blynk -> check
                                      update -> alcohol -> countdown
                                      update -> clean   -> countdown

so that the interrupt, the clock, the Relay and the network can act between any
two calls. The correspondence:

| Code | Actions |
|---|---|
| `setup()`; `Blynk.begin()` (Center.v7.c:207) | `Setup`, `AppLogin` |
| head of `loop()`, `check_connect()` failing, `cai_dat()` | `LoopHead`, `Reset` |
| `webSocket.loop()`, `webSocketEvent("/")` | `PollSockets`, `AcceptRelay` (with `Answer`), `CenterNoticesLoss` |
| `updateWebsocket()` | `ReportAlcohol`, `ReportClean`, `CarryOutCommands`; its watchdog tail `WatchdogReset`; not called: `SkipUpdate` |
| countdown block of `loop()` | `CountMinute`, `SkipCountdown` |
| `readIsAlcohol()` | `Verdict`, `SkipBreath` |
| `Blynk.run()` delivering V1, V30, in `loop()` or inside a write to the app | `AppButton`, `AppUnlockTime` where `BlynkRuns`; `LoopEnd` |
| `measureAlcoholConcentration()` | `PressButton` |
| `millis()` | `SecondPasses`, `MinutePasses` |
| Relay `loop()`, `webSocketEvent()`, `setup()` | `RelayConnect`, `RelayUpgraded`, `RelayReceive`, `RelayNoticesLoss`, `RelayRestart` |
| the air | `LinkLoss` |

The four flags, `BLOCK`, `timedownMinute`, `alcoholFlash`, `k` and `wifiFlash` are the
variables of that name. `unlockMinutes` is EEPROM cells 100 and 101 read as one
number. `toRelay` is the FIFO of frames TCP holds for the Relay; a dead session
keeps the prefix of it that the Relay reads before it notices.

`updateWebsocket()` handles four flags one after the other. `ReportAlcohol` and `ReportClean` are
its first two branches, up to the writes to the app that end them; `CarryOutCommands` is the rest,
from the commands on (`NewBLOCK` and `NewTimedown` are the outcome of their two `if`s in the order of
the code). They are steps of their own because `Blynk.virtualWrite()`, `notify()` and `email()` end in
`BlynkProtocol::sendCmd()` (BlynkProtocol.h:440-455), which calls `run()`, and `run()` dispatches what
the app has sent. So a V1 or V30 can be handled in the middle of an update, after a report has
changed `BLOCK` and before the commands that wait are carried out. `BlynkRuns` says where:

* in the reports of a verdict (`alcohol`, `clean`), and in the status written once a second
  between the update and the countdown (`countdown`);
* in `Blynk.run()` and `timer.run()` at the end of a pass (`blynk`);
* in `setup()`, whose `BLOCK` is already 1; such a command stands at the first `check`.

The other writes add no order of their own. The one in `webSocketEvent("/")` comes after the answer,
which no command changes; those of `readIsAlcohol()` touch no command, and a verdict none of them;
the one of the watchdog is followed by the reset. A handler is atomic for other handlers:
while a message is handled `run()` returns at once (`msgIdOutOverride`, BlynkProtocol.h:145). The
commands write nothing, so nothing but the interrupt, which touches no flag they read, can come
between them, and what the Relay does meanwhile commutes with them.

Abstractions: OLED, LED, serial and Blynk output, `relayConnection` and the Relay's
own `BLOCK` are never read by a decision and are left out. The watchdog's limit is a
free choice here (`WatchdogReset`), and has its times in `RelayWatchdog`. The
breath test is its verdict, given only when none waits, which is part of what `BreathTest` is
proved to keep (`ContractRefinement`); `BreathContract` below is the interface. Client slots the
server has not yet given up are ignored: a broadcast into them reaches nobody.

### Lease

Three variables: `locked`, `lease` and `asked`, the set of those (`"test"`, `"app"`) who wait for the
answer to a request. `Ask` adds one, `Grant` answers one with a lease, `Revoke` is always allowed
(alcohol, app, reset; a reset also forgets who asked), `Tick` runs the lease down and locks
with the last minute. `Interlock` refines it with `locked <- BLOCK`, `lease <- timedownMinute` and
`asked <- Waiting`, which reads the two unlocking flags: the report of a clean test grants to the
test, `unblockNow` to the app, each by itself. `LeaseSpec` adds that nobody waits for ever
(`Answered`) and that a lease nobody asks to renew keeps ticking (`RunsDown`).

### RelayWatchdog

Ages instead of clocks: `sinceSent` is the age of the Relay's `previousMillis`,
`sinceHeard` of `previousCheckConnectOfCenterVsRelay`, `beat` of a heartbeat not yet
read. `Tick` advances all of them and is held back by two deadlines: the Relay's loop
looks at its period at least every `RelayLag`, the Center polls its sockets at least
every `CenterPass`. A heartbeat older than `NetworkDelay` is read by the next `Poll`.
The time of `setup()` is left out: nothing is armed before the next `/`.

### BreathTest

`pc` is the statement of `readIsAlcohol()` that touches memory the interrupt also
writes; `Press` may come between any two:

    idle -> age -> storeMax -> storeMin -> idle                      (a sample)
            age -> close -> judgeMax -> judgeMin -> release -> idle  (the verdict)

| Code (`offMeasureAlcoholConcentration.h`, camera) | Actions |
|---|---|
| `measureAlcoholConcentration()` | `Press` |
| `millis() - t1 < 7000`: the clock, then `t1` | `ReadClock`, then `TooEarly`, `Sample` or `Expire` |
| `MAX`, `MIN`, `isMatchFaceID` of a sample | `StoreMax`, `StoreMin` |
| `alcoholFlash = 0`, the two tests, the end | `Close`, `JudgeMax`, `JudgeMin`, `Release` |
| `updateWebsocket()` taking a verdict | `ConsumeVerdict` |
| camera: `run_face_recognition()`, `loop()`, `ESP.restart()` | `CameraMatches` then `CameraRaises`, `CameraPolls` then `CameraLowers`, `CameraRestarts` |

Steps are merged where the interrupt has the same effect before and after: a compare
and its store into `MAX` (an interrupt between them acts like one before both, because
every positive sample exceeds the reset `MAX`), the two last assignments (an
interrupt between them acts like one after). An interrupt at `age` makes the
subtraction wrap around: `Press` sets `expired` there. `expired` abstracts the clock; the
200 ms between samples are a free choice. A window outlasts the wait of a verdict for
`updateWebsocket()` (7 s against 1 s), which is the guard of `WindowPasses`.

`breath`, `carried` and `faceSeen` are history: the samples taken since the last press, the one
that was in hand when it came, which the code counts for the new press, and whether the camera
has recognised a face since the press, or before it with its answer still standing somewhere
(`AnswerStands`: on the line, about to be raised, or in `isMatchFaceID`).

What a press in the middle of a verdict does is kept as it is in the code: before
`Close` it is closed with the old window, after it the new test runs without a camera
request and so ends without a verdict unless the old answer is still on the line.
Likewise a test begun before the camera has polled the withdrawn request finds the
old answer. The repository states nothing about either, so no property forbids it.

### BreathContract

`testing`, `alcohol`, `clean`: a press begins a test or goes into the one under way, a test ends
with one verdict or none, a verdict is given only when none waits, the update takes it.
`BreathTest` refines it with `testing <- alcoholFlash`, except from `Close` on, where the code has
already reset `alcoholFlash` while the verdict is still open: there a test is under way until it
is judged, and a press that comes in between is mapped to one right after. `Interlock` is
on the other side: its `PressButton` and `Verdict` admit every step of the test, and its reports
take a verdict as the contract says, so that the safety properties shown of `Interlock` hold with the real breath test in
place of its step `Verdict`.

### ConfigStore

`flash` is the sector, `data` and `dirty` the library's copy of it, `downLimit`, `upLimit`,
`threshold` and `rowIndex` the variables `setup()` fills. `pc` is `"run"`, `"boot"`, or the
handler whose `commit()` has erased the sector and not yet written it.

| Code | Actions |
|---|---|
| `setup()`, `EEPROM.begin()` | `Setup` |
| `BLYNK_WRITE(V30)`, `V32`, `V33`, `V34`, each with its `commit()` and what it reads back | `V30` ... `V34` with `Commit`, `ReadBack` |
| `BLYNK_WRITE(V11)` | `V11` (cell 105, no commit) |
| `updateToTable()` | `UpdateToTable` |
| `cai_dat()` | `CaiDat`, which ends in a reset |
| `commit()`: erase, write, or either failing | `Commit`, then `FlashWrite`, `FlashWriteFails` |
| the power | `PowerCut`, `Reset` |
| `write_EEPROM.c` | `Initialised`, one of the initial states |

A V11 or V30 that Blynk delivers inside the writes of `updateToTable()` (see `Interlock`) is handled
before the row is counted and saved: it leaves what the steps `V11` or `V30` and then
`UpdateToTable` leave.

Cells 0 to 95 are one value: the name and the password of a network. A write that stops is
`Torn`: cells before some `n` are written, the rest erased. `trusted` is history: no commit
has failed or been cut and no form was overlong since the last boot or complete commit.

### FaceList, FaceEnroll, FaceCamera

`FaceList` is what the firmware relies on in a library that is not under `src/`: `enroll_face()`
counts samples and makes a face of every `ConfirmTimes`, `recognize_face()` finds a face that
shows only this person, and may find one that shows others too. A face is the set of people
on its samples, which is all the properties need.

`FaceEnroll` has `encrollImageSD()` picture by picture (`OpenFails`, `FaceNotFound`,
`EnrollPicture`), with the card's mount and a restart anywhere. `card` says what reading a
picture gives: its owner, no face, or no file.

`FaceCamera` splits `run_face_recognition()` where a task may lose the processor between a
read of something shared and the act on it:

    idle -> align -> enroll -> finish -> rest          rest: idle, or for the loop
            align -> recognize -> match -> lower -> rest     poll -> raise -> idle

| Code (`ESP32-CAM_...c`) | Actions |
|---|---|
| `faceRecognition()`, `capture_handler()`, `stream_handler()` with a face in the frame | `Look` of the tasks `loop`, `camera`, `stream` |
| `is_enrolling` read; `enroll_face()`; `is_enrolling = 0` | `Choose`, `Enroll`, `Finish` |
| `recognize_face()`; the Center's wire read; the answer given | `Recognize`, `Asked`, `Lower` |
| rest of `loop()`: the wire read; the answer withdrawn | `LoopPoll`, `LoopRaise` |
| `streamState` | `StreamOpens`, `StreamEnds` |
| `cmd_handler()` | `ClearFace`, `FaceDetect`, `FaceEnroll`, `FaceRecognize`, `Framesize` |
| `ESP.restart()` | `Restart`, which starts with a list enrolment may leave |

`disturbed` marks the tasks whose call met a list that lost a face meanwhile: what the library
then returns is open. `granted` is history: the tasks that may enrol for the last request of
the page. `Driver` is one of `Persons`; anybody may stand before the camera at any time.

### SlotPool

A slot is the server's `WSclient_t`: its `status`, what is at the other end of its TCP
connection, whether a whole header waits to be read and whether something was sent that
nobody acknowledged. `peer` is `"live"` (the Relay), `"gone"` (nobody, unknown to TCP) or
`"dead"` (nobody, known to TCP). `unclaimed` are the connections TCP has accepted and `loop()`
has not taken. `at` is where `WebSocketsServer::loop()` is.

| Code | Actions |
|---|---|
| `handleNewClients()`, `newClient()` | `HandleNewClient`, `NoNewClient` |
| `handleNewClient()` without a slot: `dropNativeClient(nullptr)` | `PoolFull`, a reset |
| `handleClientData()`, `handleHeader()`, `clientIsConnected()`, `clientDisconnect()` | `HandleClientData` with `HandleHeader` or `HandleOther` |
| `webSocketEvent("/")`, `broadcastTXT()` | `Answer`, `BroadcastTXT` |
| `updateWebsocket()` with or without news | `LoopRest` |
| `ESP.reset()`, power | `Reset` |
| the Relay's `WebSocketsClient` | `RelayConnects`, `RequestArrives`, `RelayUpgraded`, `RelayNoticesLoss` |
| the air, TCP | `ConnectionLost`, `TcpGivesUp` |

In `Interlock` the same session has one slot and cannot be refused: there, `PoolFull` is a
`Reset`, and `RelayIsServed` is what justifies that reconnecting ends.

## 3. Runs

| Run | Question | Result |
|---|---|---|
| `interlock` | Do the two records of the lock agree; does a live session always lead the pin to the Center's lock; is every step one of the lease; is every request answered, does an unlocked car lock again, does the relay follow; what may open it; where can a command to lock fall behind an older one to unlock? `{1,2}` minutes, an update sends into an empty queue, 2 faults, `FairSpec` | holds, 377 thousand states |
| `relay_watchdog` | Can a Relay that is connected and sending be given up; how long can silence last? The code's times in half seconds | holds, 418 thousand states |
| `breath_test` | Do verdicts rest on the breath of their press, and do tests end with the camera released; does a verdict need a face; is the contract kept? Readings 0, 5, 8 around a threshold of 5; 3 presses | holds, 52 thousand states |
| `config_store` | Is a copy that is not dirty saved, are the limits in use those of the copy, does an alarm have a row, what does a boot change, who changes the unlock time? One value per handler, 2 rows | holds, 401 thousand states |
| `face_enroll` | What is on the list after a card with missing and useless pictures, and who is surely enrolled? 2 people with 3 pictures each | holds, 6.6 thousand states |
| `camera` | Do tasks that overlap enrol without a request or answer for nobody; is a known driver answered, is the answer withdrawn? The driver, a face of 2 samples, a list of 1, 3 commands or restarts, `FairSpec` | holds, 248 thousand states |
| `slot_pool` | What fills the slots, are vanished sessions tried and given back, is the Relay served? 3 slots, 5 faults, `FairSpec` | holds, 330 thousand states |
| `zero_minutes` | `Relocks` when the app may store 0 minutes | violated (finding 1) |
| `no_app_server` | A reset closes the relay, without the app's server | violated (finding 2) |
| `alcohol_overridden` | The update that reports alcohol locks | violated (finding 3) |
| `clean_test_dropped` | The update that reports a clean test unlocks, without the app | violated (finding 4) |
| `cleared_table` | Clearing the alarm table leaves the threshold alone | violated (finding 5) |

Why these bounds are enough for what is asked:

* `Minutes`: the countdown distinguishes 0, the last minute and any other, so
  `{1, 2}` has all three; 0 is the finding. The proofs cover every set without 0.
* `Window` bounds the frames in flight before `updateWebsocket()` sends. With 1, the
  frames of one update, of both kinds and in both orders, and the answer to a `/` are in
  flight together. The proofs cover every number for the safety properties.
* `MaxFaults` bounds link losses, resets and Relay restarts together. With 2, a
  session can die while the replacement of another is being accepted, a reset can
  follow a loss, and a Relay can restart under a Center that has just been reset.
  The proofs cover every number.
* `CenterPass` is 2.5 s: the longest `delay()` of a pass that does not wait for the
  network is the 2 s for which a verdict is displayed. The half second is the unit
  in which the code's times and this bound are integers.
* `Readings`: one low, one neutral, one high, and 0, which `MAX` cannot tell from its
  start value. `MaxPresses` 3: a press can interrupt the verdict of another, and a
  third the test that the second began. The proofs cover every set and number.
* `ConfigStore`: 300 and 520 differ in both of their bytes and do not fit one; handlers treat
  all values alike otherwise. `Overruns` 0, 3 and 7: no overrun, one into the limits, one over
  every cell. The proofs cover all values and any number of rows.
* `FaceEnroll`: with two people and three pictures each, every mix of good, empty and missing
  pictures is a `card`, and a picture of the second person can complete the first one's face.
* `FaceCamera`: one command can be `is_enrolling`, a second the clearing of the list or another
  request, a third a restart. A list of one face makes every finished face replace another. The
  safety properties were also checked with a second person and two commands (2.6 million
  states); with liveness that instance is too large, and the theorems cover all people.
* `SlotPool`: with 3 slots, 3 silent losses and one more connection overflow the pool; 5 faults
  leave one for the reset or for a loss after it. The proofs cover every number of slots.

Fairness. `loop()` keeps being called (`WF(Loop)`), time passes, and the Relay's loop
keeps running and reconnecting. `AcceptRelay` is strongly fair because every pass polls
the sockets: a handshake that waits is served, though the action is disabled during
the rest of each pass. `FairSpec` adds that the app's server answers in the end, which
`Blynk.begin()` needs to return; `FairSpecWithoutAppServer` does without, and finding 2
is what that costs. Nothing is assumed of the driver, of the app's user, of the
watchdog or of faults, and faults are bounded in number, so that the liveness
properties say what happens once the network leaves the system alone. In `BreathTest` the
loops of both boards run and the 7 s pass; `ConsumeVerdict` is strongly fair because
`updateWebsocket()` runs between calls of `readIsAlcohol()`, again and again. No face need
ever match, and the camera may restart at any time. In `FaceCamera` the scheduler runs each of
the three tasks and the loop goes round; that the driver is seen again and again while a task
looks (strong fairness of `Look` for him) is the only thing assumed of people, and
`AnswerComes` says in its premise that the page has not switched recognition off. In
`SlotPool` both loops run and TCP gives a connection up, in the end, to which it has sent
something (`TCP_MAXRTX`); nothing makes it give up one it has sent nothing to.

## 4. Proofs

Checked by TLAPS for every value of the constants.

* `TypeInvariant`: `Spec => []TypeOK` of `Interlock`.
* `Agreement`: if `0` is not an unlock time, `Spec => [](CountdownMatchesLock /\ RelayAgrees)`.
  The inductive invariant is `TypeOK /\ CountdownMatchesLock /\ RelayAgrees`. `RelayAgrees`
  alone is not inductive: the answer to `/` is decided by `timedownMinute`, so a new session
  agrees with `BLOCK` only because the two records match, and they match after an unlock
  only because the minutes granted are not 0. The queue lemmas (`OutcomeOfSend`,
  `OutcomeOfRead`) say that the last frame decides, and that reading the first one changes
  nothing, so that the broadcasts of one update compose in the order of the code; each report
  keeps the invariant by itself (`ReportKeepsIInv`), so a handler that runs inside it finds it.
* `LeaseRefinement`: under the same assumption, `Spec => TheLease!LeaseSafety`: initial
  states map to initial states and each step to a step of `Lease` or a stutter.
* `CommandOrder`: `Spec => OnlyCleanReportReorders`, for every set of unlock times. `updateWebsocket()`
  carries out a waiting `unblockNow` after a waiting `blockNow` whatever their order was. The theorem
  says of these two commands, not of verdicts (findings 3 and 4), where that order can be wrong: the
  app's button and the countdown give a command to lock while one to unlock waits only at `clean`,
  by a press that Blynk delivers inside the report of a clean test. It needs `LockedRests`: a locked
  Center has no minutes left to count down, and a command to unlock waits in a locked Center or at
  `clean`.
* `OpeningsAsked`: `Spec => OpensOnlyWhenAsked`, for every set of unlock times, 0 included. The
  Center is unlocked, or a command to unlock waits, or an opening frame is on its way
  (`MayOpen`) only after a clean test or the app's button made it so, and the pin rises only
  then. It follows from `LockedRests` again, since the answer to `/` opens by `timedownMinute`, and
  from lemmas about where an opening frame in a queue can come from (`OpeningIn...`).
* `WatchdogTypes`, `FalseAlarmFree`, `SilenceBounded` of `RelayWatchdog`, for all
  periods with `NetworkDelay + CenterPass <= HeartbeatPeriod` (one heartbeat is read
  before the next is sent). The strengthening couples the two ends: while the session is
  up, `sinceHeard` is at most `sinceSent` plus the time a frame can wait (`BeatInv`), and
  the update that tests the limit comes at most two passes after it is due (`UpdateInv`).
* `BreathTypes`, `JustifiedVerdicts` of `BreathTest`, for every set of
  readings, all settings and any number of presses. `Evidence` says that `MAX` bounds all
  samples of this press but the one in hand, that each extreme is a start value or a
  sample that counts for this press, and that no sample is high once `MAX` has been
  tested: the interrupt empties `breath` whenever it invalidates that test. `Waiting` says
  that a window that is over, or judged, while a verdict still waits is one the interrupt
  has emptied, and an empty window has no verdict if the threshold is at most 1023 plus
  `downLimit` (`Calibrated`); the property and `ContractRefinement` assume that where they need it.
* `FacesBackVerdicts` of `BreathTest`: `Spec => VerdictNeedsFace`. `FaceInv` follows a face from the
  camera's task over the line to `isMatchFaceID` and to the judging steps; a press forgets
  `faceSeen` only if none of the three still holds an answer.
* `ContractRefinement`: if `Calibrated`, `Spec => KeepsContract`: each step of the breath test,
  interrupt included, is a step of `BreathContract` or a stutter. `InTest` says that the statements
  before `Close` run only inside a test. The other half is the lemma `ContractIsAdmitted` of
  `InterlockProofs`: each step of the contract's test is a step `PressButton` or `Verdict` of
  `Interlock`, as far as it is about the breath test, and its reports are steps `Take`.
* `CountdownAgreement`: `CountdownMatchesLock` by itself, from `Agreement`.
* `StoreTypes`, `NothingUnsaved`, `SettingsTakeEffect`, `BootsKeepSettings`, `AlarmsHaveRows` of
  `ConfigStore`, for all values. The inductive invariant adds what holds between
  handlers and before a boot (`InForce`), that in these states a sector no commit has spoilt
  holds the copy but for the cell V11 writes (`Saved`), and that an erasure always has something
  to write (`Pending`): `SettingsInForce` and `CleanCopyIsSaved` alone do not say that a boot
  reads what was in force.
* `UnlockTimeIsTheApps` of `ConfigStore`: `Spec => UnlockTimeKept`. As long as every commit completes
  and every form fits, only V30 changes cells 100 and 101, and only to a value the app may send,
  whatever other handlers write and boots reload. This is why `unlockMinutes` is a variable of
  `Interlock` that only `AppUnlockTime` changes.
* `CardTypes`, `PicturesAccounted`, `GoodCardsEnrolled` of `FaceEnroll`, for every number of people, samples,
  faces and pictures that fit the list. The samples are counted by the pictures that came before
  the first missing one (`Sampled`); since at most one sample comes from a picture the list
  never overflows (`RoomLeft`), so nobody who is enrolled is dropped again.
* `CameraTypes`, `EnrollmentRequested`, `AnswersRegistered` of `FaceCamera`, for all people, list
  sizes and any number of commands. `EnrollmentIsRequested` is not inductive: `RequestOpen` adds
  that while `is_enrolling` is set each task is granted or about to withdraw it.
  `AnswerIsRegistered` is inductive because each step that takes a face off the list marks every
  task that could hold a match of it (`EnrollKeepsMatches` of `FaceListProofs` says that no other
  step does).
* `PoolTypes`, `OverflowNeedsLosses` of `SlotPool`, for every number of slots and faults.
  `FullOnlyOfGone` is not inductive; `NewestLast` is: the Relay's connection is the last that
  waits, and once it has a slot nothing waits. A full pool that something waits for therefore
  holds no live connection, and a dead one is not connected.
* `SessionsTried` of `SlotPool`: `Spec => []VanishedAreTried`. With `OneLive` (at most one slot is the
  Relay's) every step is one of three kinds: it makes no slot live, in session or untried; it ends
  with nobody in session; or it is the answer to `/`, which goes into every session (`BroadcastTries`).
  It is the safety half of `SessionsEnd`: the rest is that TCP gives up what it tries.

Only model-checked: the liveness properties (`Relocks`, `RelayFollowsLock`, `TestEnds`,
`MatchIsWithdrawn`, `AnswerComes`, `AnswerIsWithdrawn`, `SessionsEnd`, `RelayIsServed`, the fairness of `ImplementsLease`), since liveness under fairness is out of the prover's reach.

## 5. Findings

Disagreements between a comment of the repository and what the code does, each shown by a run.
The first four are about the header comment of `Center.v7.c`:

1. *A lease of 0 minutes never ends* (line 12). V30 stores any value. With 0 the
   update sets `BLOCK = 0` and `timedownMinute = 0`; the countdown's guard
   `timedownMinute != 0` never holds.
2. *A reset does not close the relay* (line 8 says it does). The reset sends nothing; the
   Relay is told when it reconnects, which it cannot while `Blynk.begin()` waits for a
   server that does not answer, because the access point comes after it.
3. *Alcohol detected, car unlocked* (line 23). A V1 press while the verdict waits for the
   next update is handled after it.
4. *Clean test, car locked* (line 24). A countdown that reaches 0 in the same pass is
   handled after it.
5. *Clearing the alarm table changes the threshold.* V11 writes 1 into cell 105, the low byte
   of the threshold, which by `write_EEPROM.c` and `offBlynk.h` only V34 updates; the row of the
   table is cell 106. The next commit saves it and the next boot uses it.

Also, without a run of their own, because the models contain them as steps:

* *A sixth connection resets the Center.* `newClient()` returns a null pointer when all slots are
  taken, and `handleNewClient()` hands it to `dropNativeClient()`, which reads through it
  (WebSocketsServer.cpp:609); the connection it means to drop is `tcpClient`. Sessions that
  vanish give their slots back at the next `/`, but a connection that vanishes before its
  handshake is sent nothing and has no time limit, so five of these, however far apart, leave no
  slot until the next reset. `PoolFull` is this step.
* *A power cut while the sector is erased* leaves every cell 255 (EEPROM.cpp:134): a threshold of
  65535, which no sample reaches, and an unlock time of 65535 minutes. `PowerCut` and
  `FlashWriteFails` have it; line 9 of `Center.v7.c` says that alcohol changes nothing.
* *An app's blockNow can be lost* (against line 25, which has it close the relay): V1 pressed while the
  update reports a clean test to the app, with an `unblockNow` waiting from before, is carried out
  ahead of that older command in the same update, and the car stays unlocked.
  `OnlyCleanReportReorders` says that this is the only place.
* *A picture without a face* leaves a face one sample short, and the next person's first picture
  completes it (camera, l. 380, against the comment at l. 42): from then on every face shows two
  people. `GoodCardsEnroll` promises something only to those before it.
* *A missing picture* ends the session with the card (l. 340): no picture after it is enrolled.
* *A request to enrol is lost* if it comes between another task's last sample and its
  `is_enrolling = 0` (l. 549).
* *Switching detection off at the page* switches recognition off (l. 933), and switching it on
  again does not bring recognition back: the driver is not answered until someone does that.
* *Center.v7.c, line 21* says a new session is answered with `readEEPROM` when minutes are left;
  the code sends `unblockNow`.

## 6. Not modelled, and why

* Display, LED, serial output, HTML: output only.
* Temperature module: one sequential loop with the same Blynk calls; the Center shows its two
  values and decides nothing by them. It blocks in `Blynk.begin()` without the network, which
  only makes the shown values old.
* Earlier generations (`Center.v0` to `v6`, `Relay`, `Relay.v2`): superseded.
* Vendored cores and libraries, nearly all of the repository's lines: the ESP8266 core, Blynk,
  Firebase, displays and the face library are third-party code the firmware calls. Of the EEPROM
  and the WebSocket library the parts the firmware's behaviour rests on are modelled.
* Face detection and matching, and what the library does to a list that is cleared in the middle
  of a call, beyond "it may return anything".
* WebSocket framing, header parsing, authorisation, the heartbeat the Center does not enable,
  clients other than the Relay, and a backlog limit of the listening socket.
* `Blynk.run()` blocking for longer than `CenterPass`: outside the bound of
  `RelayWatchdog`, listed as a hazard without a property. So is a header line that comes in two
  segments, which blocks the server for up to 5 s.
* In `ConfigStore`: a sector that cannot be read at boot, values from the app beyond 65535 or
  below 0, and the buffers of the network's name, which no cell is read from.
* In `FaceCamera`: picture settings, the flash lamp, and names, which decide nothing.

## 7. Plan

1. `SlotPool`'s `PoolFull` as a `Reset` of `Interlock`, as a refinement of the session the two
   share, the way `BreathContract` joins `BreathTest` to `Interlock`.
2. `RelayWatchdog` with a `Blynk.run()` of unbounded length, to say which promise is left.
3. The temperature module, if the Center should ever decide by what it sends.
