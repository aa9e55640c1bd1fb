# Verification of the RK3506 MCU firmware

TLA+ models of the firmware that runs on the Cortex-M0 of an RK3506 beside Linux
(the RPMsg link to Linux, the CAN buses to the motors, the controllers of the
motors) and of the parts of the HAL and of rpmsg-lite around it whose correctness
depends on interleavings, boundaries or long sequences of calls. TLC checks the
models on small instances; TLAPS proves what matters most for every instance. Each
definition that models code names its lines in `PROJECT.json` ("map"); the hazards
the properties were written for are listed there too.

Contents: 1 the system, 2 the modules, 3 the runs, 4 bounds, 5 fairness and the
environment, 6 what is proved, 7 what disagrees with the documents, 8 what is not
modelled, 9 plan.

## 1. The system

Linux sends motor commands through RPMsg; the MCU answers with telemetry; the MCU
drives the motors over two CAN controllers. Everything on the MCU runs in two
contexts: the main loop (`main.c`) and interrupt handlers, which preempt the main
loop between any two of its accesses and run to their end, or until a handler of
higher priority preempts them in turn. Linux runs on another core and shares memory
and mailbox registers with the MCU.

| part | state it keeps | operations | works with |
|---|---|---|---|
| virtqueue (`virtqueue.c`) | avail and used ring with free-running 16-bit indices in shared memory; one cursor per core | `virtqueue_fill_*_buffers`, `add_buffer`, `get_buffer`, `get_available_buffer`, `add_consumed_buffer` | the other core, through memory only |
| rpmsg_lite (`rpmsg_lite.c`, `llist.c`, `rpmsg_ns.c`, `rpmsg_queue.c`) | `link_state`, list of endpoints, two virtqueues, queues of received messages | `master_init`, `remote_init`, `deinit`, `create_ept`, `destroy_ept`, `send`, `rx_callback`, `tx_callback`, `release_rx_buffer`, `ns_bind`, `queue_recv` | virtqueue, platform layer, environment |
| environment (`rpmsg_env_bm.c`; `_freertos`, `_zephyr`, `_threadx`, `_xos`) | counter of initialisations, semaphore, event group, table of interrupts | `env_init`, `env_deinit`, `env_wait_for_link_up`, `env_tx_callback`, `env_isr` | rpmsg_lite, platform layer, kernel |
| platform layer (`rpmsg_platform.c`) | `first_notify`, registration counts, mailbox client | `platform_init_interrupt`, `platform_deinit_interrupt`, `platform_notify`, `rpmsg_remote_cb` | mailbox, INTMUX |
| mailbox (`hal_mbox.c`) | table of mailboxes; per direction: message pending, interrupt enabled | `Init`, `RegisterClient`, `SendMsg2`, `IrqHandler` | INTMUX, the other core |
| frame layer (`rpmsg_frame.c`) | `linux_control_cmd` | `RPMsg_Frame_Init`, `Recv_Callback`, `Send_Telemetry` | rpmsg_lite |
| bsp_can and hal_canfd | receive FIFO, INT and INT_MASK, interrupt policy, table of instances, two transmit requests | `BSP_CAN_Init`, `CANRegister`, `CANSetInterruptEnable`, `CANTransmit`, `CANCommonIRQHandler` | INTMUX, the bus, motor code |
| DJI motors (`dji_motor.c`) | instances, sender groups with their frames, measurements | `DJIMotorInit`, `DJIMotorControl`, `DJIMotorStop`, `DecodeDJIMotor` | bsp_can, PID |
| PID (`controller.c`) | parameters, integral, last values, blocked-motor counter | `PIDInit`, `PIDCalculate` | DJI motors |
| INTMUX and NVIC (`hal_intmux.c`, `hal_nvic.c`) | enable bits per source and per output, handlers, priorities | `Init`, `EnableIRQ`, `DisableIRQ`, `SetIRQHandler`, dispatch | mailbox, CAN |
| HAL time (`hal_timer.c`, `hal_base.c`) | the 64-bit system timer | `HAL_TIMER_GetCount`, `HAL_DelayUs`, `HAL_DelayMs`, `HAL_GetTick` | every driver |
| HAL locks (`hal_spinlock.c`, `hal_hwspinlock.c`, `hal_asrc.c`) | a word in memory, or a register of the chip | `Lock`, `TryLock`, `Unlock`, `GetOwner` | the other cores, `HAL_DBG_Printf` |
| HAL GPIO interrupt groups (`hal_gpio_irq_group.c`) | per bank a mask and a note register, per interrupt a priority and a core | `GPIO_IRQ_GROUP_DispatchIRQ`, group handlers | GIC, pins |
| HAL I2C (`hal_i2c.c`) | the handle of the transfer and its state | `Transfer`, `IRQHandler`, `ForceStop`, `Close` | controller, slave |

The rest of the repository (HAL drivers for USB, storage, audio, network and so on,
OpenAMP, sdhci, the console, benchmarks) is not built into this firmware;
`PROJECT.json` lists it part by part with the reason it is not modelled.

## 2. The modules

| module | what it is | models |
|---|---|---|
| `BufferExchange` | abstract: a fixed set of buffers moves between two owners through two FIFO queues | what `virtqueue.h` promises |
| `Virtqueue` | one virtqueue, both cores, every store an action | `virtqueue.c` |
| `RpmsgLink` | the MCU's receive direction and its start-up; uses `BufferExchange` for the queue that `Virtqueue` implements | `rpmsg_lite.c`, `rpmsg_platform.c`, `hal_mbox.c`, `rpmsg_frame.c` |
| `Telemetry` | the other direction, with `rpmsg_lite_send`'s wait for a buffer | the same files |
| `LinkLifecycle` | initialisations and ends of the link, their counters and tables | `rpmsg_lite.c`, `rpmsg_env_bm.c`, `rpmsg_platform.c`, `hal_mbox.c` |
| `EndpointRegistry`, `EndpointList` | abstract: a table from addresses to endpoints; the linked list that keeps it | `rpmsg_lite.c`, `rpmsg_ns.c`, `llist.c` |
| `RpmsgQueue` | held buffers queued from the interrupt to reading tasks | `rpmsg_queue.c`, `rpmsg_lite.c` |
| `RtosEnv` | the environment several tasks share | the four `rpmsg_env_*.c` for operating systems |
| `CanReceive` | receive path of one CAN controller | `bsp_can.c`, `hal_canfd.c`, `main.c` |
| `CanTransmit` | transmit path of both controllers under the control loop | `bsp_can.c`, `hal_canfd.c`, sending part of `dji_motor.c` |
| `CanPayload` | bytes and lanes of a frame on its way out and in | `bsp_can.c`, `hal_canfd.c` |
| `DjiMotor`, `MotorEncoder` | registration, feedback, control frames; the multi-turn count | `dji_motor.c` |
| `Pid` | one controller with every stage it may have | `controller.c` |
| `Intmux` | the interrupt path and the order in which drivers connect to it | `hal_intmux.c`, `hal_nvic.c`, `bsp_can.c`, `rpmsg_platform.c`, `main.c` |
| `SysTimer` | reading the timer, delays, ticks, timeout loops | `hal_timer.c`, `hal_base.c` |
| `GpioIrqGroup` | pins of a bank divided among cores and priorities | `hal_gpio_irq_group.c` |
| `HalI2c` | the master's transfer automaton with its controller and slave | `hal_i2c.c` |
| `Mutex`, `SwSpinlock`, `HwSpinlock` | abstract: one holder at a time; the two locks that implement it | `hal_spinlock.c`, `hal_hwspinlock.c`, `hal_asrc.c` |
| `*Proof` | theorems about the module of that name, `MotorsProof`, `DriversProof` and `ServicesProof` about `MC...` | |
| `MC*` | instances for TLC | |

Conventions. Variables and actions keep the names of the code. A program counter
(`master_pc`, `main_pc`, `isr_pc`, `pc`) says between which two steps an activity is;
an activity of the main loop has a guard (`MainRuns`, `Runs`) that says that no
handler is active. Definitions that a comment introduces as a broken variant, or as
"the same without ..." or "the same with ...", belong to no next-state relation: each
is a plausible bug, there so that every property can be seen to fail for one.

**Side by side.** `MCShared`, `MCMotors`, `MCDrivers` and `MCServices` put components
into one run that share no variable. A variable `part`, chosen at first and never
changed, says which component moves; the others keep an initial state. As the
behaviours of the run with `part` equal to one component are that component's, and
every property speaks of one component's variables, a property holds of the run
exactly if it holds of the component. The fairness of a component is conditioned on its
part. The two virtqueues of the link are two parts of `MCShared`, with the same variables;
`kind` chooses between the two masters in `MCRpmsgLink`; `port` in `RtosEnv`, `build` in `SwSpinlock`, `uses` in `HwSpinlock`, `pid` in `Pid` and
`down` in `SysTimer` are parameters of the same sort inside one module. In all of
them a component that does not move has one fixed initial state. `Parts` in `MCDrivers` says
which parts a run looks at: all in `drivers`, one lock in `locks_print` and in `locks_register`.

**Virtqueue.** `avail_idx`, `avail_ring`, `used_idx`, `used_ring` are the shared vring;
`vq_available_idx` and `vq_used_cons_idx` the private cursors. `MasterWriteAvail` and
`MasterPublishAvail` are the two stores of `vq_ring_update_avail` with the write
barrier between them; `MasterSeesUsed` and `MasterGetBuffer` are the index test and the
read of `virtqueue_get_buffer`; the `Remote*` actions are the same for the MCU, once
per context. `TakeCtx` and `GiveCtx` name the contexts that use the queue:
`env_lock_mutex` is empty in `rpmsg_env_bm.c`, so two contexts really interleave.
`master_bufs` and `remote_bufs` are ghost sets: which core has a descriptor index in
its hands.

**RpmsgLink.** The master (`MasterReady` ... `MasterAck`), the MCU's main loop from
`rpmsg_lite_remote_init` to the endpoint (`MainRegister` ... `MainCreateEpt`) and its
mailbox handler (`IsrEnter` ... `IsrClear`). A message is its number modulo `SeqMod`;
`linux_control_cmd` holds the number of the last command stored. `IsrTake` and
`IsrHandle` are one turn of the loop of `rpmsg_lite_rx_callback`, `IsrClear` the
clearing that follows the callback.

**Telemetry.** `rpmsg_lite_send` step by step: look for a buffer, wait an interval of
`RL_MS_PER_INTERVAL`, give up when the time has passed, fill, publish, ring. Time
passes in `HAL_DelayMs` only. The bare-metal master of this repository never enables
the interrupt of its mailbox, so the master that listens is Linux: external.

**LinkLifecycle.** `remote_init` and `deinit` store by store, with the counters of
the environment and the platform, the table of interrupts, the mailbox table and its
clients, and doorbells between any two stores.

**EndpointList.** Blocks of the heap hold junk until they are written. `add_to_list`
and `remove_from_list` are split at every store the interrupt's walk can see; the walk
itself is atomic, as the main loop cannot run during it.

**RtosEnv.** Sections with the scheduler or the interrupts off are one step. A port is a
record: the semaphore's first count, whether it is binary, whether the bit of a link is
cleared before the wait, whether `platform_init` may fail, and which task waits for
which links. A callback readies the blocked tasks through the timer daemon, which has
the highest priority.

**RpmsgQueue.** The virtqueue is abstracted to the free buffers, the sequence of
filled ones and the slots of the used ring; the callback handles a buffer per step; readers
copy or take a buffer, and release it. A release is two stores: `StoreSlot` puts the buffer
into the slot of the index, `ReleaseRxBuffer` raises the index and so gives the master
whatever the slot holds by then. The tasks do both under `env_lock_mutex`; the interrupt's
own release (`Release`, of a buffer without an endpoint or without room) takes no mutex, is not
interrupted, and may come between a task's two, which the ghost `overtaken` remembers.
(`used->idx++` is a load and a store; an interrupt between these finds the task at the same
place, "publish".) The owner of a queue may unbind, drain, destroy and create it again.

**CanReceive.** `fifo` holds identifiers with, as a ghost, the instances each frame was
due to when the controller stored it. `INT` and `unmasked` are the latched bits and
INT_MASK, in four classes. `IsrRead`, `IsrClear` (with `HAL_CANFD_BusOffRcy`),
`IsrReceive` per frame and `IsrReturn` are `CANCommonIRQHandler`;
`MainRegister`/`MainPublish` the two stores of `can_instance[idx++] = instance` in either
order; `MainSetMask`/`MainApplyMask` the two halves of `CANSetInterruptEnable`.

**CanTransmit, CanPayload.** One turn of the last loop of `DJIMotorControl` is
`SkipGroup`, or `SelectRequest` (the look at TX0) and `WriteRequest` (frame and
command). What the controller does with a write to a request that is still pending is
not in the repository: either frame may survive. `CanPayload` follows single bytes
through `CANSwapBytesPerWord`, the registers (where older messages left theirs), the
bus and back; that lane 0 of a register goes first on the bus is external.

**DjiMotor, MotorEncoder, Pid.** The motors obey the manual the code quotes. The current
asked of a motor stands for that motor. `MotorEncoder` compares `total_round` with the
turns of the shaft. `Pid` computes with integers, plus the infinities and the
not-a-number that a division by `dt = 0` yields: `last_cnt` is an uninitialised local,
so `dt` may be anything. (Built with -O0 its stack slot usually holds what an earlier
call left there.)

**Intmux.** Outputs of the multiplexer with three sources each; the priorities of
the code (1 for CAN's output, 0 for the mailbox's, which preempts it);
`IsrTake`, `IsrDispatch`, `IsrReturn` are the vector, one turn of `INTMUX_Dispatch` and its
end. Whatever ran before may have left sources enabled and bits pending.

**SysTimer, GpioIrqGroup, HalI2c, spinlocks.** The timer ticks between any two accesses
of `HAL_TIMER_GetCount`. The dispatcher of a bank and the handlers of its groups run on
several cores; each access to the shared mask and note registers is a step. `HalI2c`
composes the driver with a controller that shifts FIFO loads and a slave that may refuse
any byte. The spinlocks are modelled instruction by instruction with the exclusive
monitor and the event register of each architecture, which are external; interrupts that
print may come between any two. `Builds` gives each core of a chip its architecture, what its main
program calls for the lock and whether its interrupts print; `Uses` does the same for the
register, where a call asks for the owner first (`HAL_ASRC_TryLock`) or not
(`HAL_DBG_Printf`). `Safe` and `HwSafe` say which cores the locks are good for.

## 3. The runs

| run | asks | result |
|---|---|---|
| `shared` | `Virtqueue`, both queues of the link: `TypeOK`, `Conservation`, `NoSlotRace`, refinement `ImplementsExchange`; `CanReceive`, receive interrupts enabled: `ReceiveSafe`, `HandlerReturns`; `EndpointList`: `MemorySafe`, refinement `ImplementsRegistry` | holds |
| `link` | start-up and reception against a master that waits for a free mailbox (`PacedCommandCurrent`, `PacedProgress`) and one that does not (`LinkSafe` only) | holds |
| `motors` | `CanTransmit`: `AcceptedKept`, `EverySetPointSent`; `DjiMotor`: `EachItsOwn`; `MotorEncoder`: `RoundsTracked`; `CanPayload`: `BytesKept`; `Pid`: `PidSafe`, `NumberAgain`; types: `MotorsTypeOK` | holds |
| `drivers` | `Intmux`: `DriversConnected`, `DriversServed`; `SysTimer`: `ReadIsCurrent`, `TimeKept`; `GpioIrqGroup`: `EdgeKept`, `PinsAnswered`; `HalI2c`: `TransferTrue`; `CallsEnd` of timer and I2C; types: `DriversTypeOK`; `SwSpinlock` and `HwSpinlock` on cores that are `Safe` and `HwSafe`, the RK3506's among them: `LocksSafe`, `LocksProgress`, refinements `ImplementsMutex`, `HwImplementsMutex` | holds |
| `services` | `Telemetry`: `AcceptedArrive`, `TelemetryFlows`; `LinkLifecycle`: `LifeSafe`; `RtosEnv`: `PlatformReady`, `SeenIsUp`; `RpmsgQueue`: `QueueSafe`, until an interrupt overtakes a release; `TasksProceed` of environment and queues; types: `ServicesTypeOK` | holds |
| `virtqueue_hold` | `Conservation` when the main loop gives back held buffers while the interrupt gives back its own | violated, see 7 |
| `link_kick` | a kick is always followed by handling | violated, see 7 |
| `can_transmit_full` | `AcceptedKept` when the bus does not keep up | violated, see 7 |
| `motor_angle` | the angle fed to the position loop never falls when the shaft goes forward | violated, see 7 |
| `locks_print` | `MutualExclusion` on two Cortex-A7 that print in main programs and interrupts | violated, see 7 |
| `locks_register` | `HwMutualExclusion` on cores that print in main programs and interrupts | violated, see 7 |
| `queue_release` | `ReleasedComesBack` when the interrupt releases a buffer while a task does | violated, see 7 |

The invariants of one component that are asked together are one definition, a
conjunction of named parts: `LinkSafe` is `TypeOK`, `InOrder` and `LinkKept`; `PacedProgress` is
`Boots`, `EveryMessageHandled` and `NoStranded`; `ReceiveSafe` is `RxTypeOK` and `Delivered`;
`EachItsOwn` is `NoCrossTalk`, `FeedbackOwn` and `StopHolds`; `BytesKept`, `PidSafe`, `DriversServed`,
`TimeKept`, `PinsAnswered`, `TransferTrue`, `LifeSafe`, `QueueSafe`, `TasksProceed`, `LocksSafe`,
`LocksProgress` and `MemorySafe` are read at their definitions. `NoOverrun` of `Virtqueue` is proved only.

What the parts say:

- **virtqueue** `Conservation`: the two rings' in-flight entries and the two cores' hands
  partition the descriptors. `NoOverrun`: no ring has more than N in flight. `NoSlotRace`: the
  slot being published is outside the window the other core reads.
- **link** `InOrder`: what is handled is the sequence that was written, contents intact.
  `LinkKept`: the reset of `link_state` never erases a link the interrupt reported.
  `NoStranded`: at rest, with the link up, the queue is empty. `PacedCommandCurrent`: at
  rest the command in use is the newest. `Boots`: `RPMsg_Frame_Init` ends.
  `EveryMessageHandled`: what is handed over is taken.
- **telemetry** `AcceptedArrive`: what `rpmsg_lite_send` accepted arrives once, complete and in
  order, and what it refused never does. `OnTime` (in `TelemetryFlows`): it refuses exactly when
  its time has passed.
  `TelemetryFlows`: reports are handled for ever, although a full queue rings nobody.
- **lifecycle** `ClientPresent`: the mailbox handler always finds its client. `FreedUnreachable`:
  no interrupt reaches freed virtqueues. `FirstLife`: the first life of the link is sound.
- **environment** `HandlesLive`: no task uses a deleted object. `PlatformReady`: who has got 0 from
  `env_init` finds the platform. `InitReturns`, `LinkSeen`, `SeenIsUp`: `env_init` returns; who waits
  for a link that is up returns, and not before.
- **queues** As long as no interrupt has overtaken a release: `QueueTypeOK`: each buffer is in
  exactly one place. `BufferIsMine`: a buffer keeps its message until its reader releases it.
  `ReadInOrder`, `Lossless`, `QueueFlows`. With it: `ReleasedComesBack` fails (`queue_release`).
- **endpoints** `ImplementsRegistry`: whatever two stores a message comes between, it reaches the
  endpoint registered under its address and no other. `NothingLeaks`, `CallbackData`.
- **CAN** `Delivered`: at rest no frame due to an instance is in the FIFO, and none was taken without
  reaching every instance it was due to. `HandlerReturns`: however fast frames arrive.
  `AcceptedKept`: a frame for which `CANTransmit` returned 1 is on the bus or pending.
  `EverySetPointSent`: all enabled groups of a bus are sent before the next period begins.
  `SentInOrder`, `ReceivedInOrder`, `HalAgrees`: bytes and their order, for every length.
- **motors** `NoCrossTalk`, `FeedbackOwn`: nobody is told another motor's current or decodes another
  motor's report. `StopHolds`: a stopped motor is told nothing. `RoundsTracked`: `total_round` follows
  the shaft. `IntegralBounded`, `PidTypeOK`: the limits hold for every combination of stages and
  every `dt`. `BlockedReported`: a blocked motor is reported. `NumberAgain`: one `dt = 0` spoils one
  output only.
- **interrupts** `DriversConnected`: no driver cut another one off. `StartsUp`: start-up is not caught
  in an interrupt nobody serves. `Served`.
- **time** `ReadIsCurrent`: no torn value. `DelayIsLong`, `TickIsCurrent`, `TimeoutNotEarly`, `Ends`.
- **GPIO** `EdgeKept`, `CalledForAnEdge`, `MaskedWhileServed`, `EdgesServed`, `LevelsServed`: no edge is
  lost or handed out twice on its way over the note register, and every pin is served.
- **I2C** `Written`, `ReadRight`: what is reported done is what stood on the wire, each chunk answered
  as it must be. `RefusalReported`, `BusFreed`, `Finishes`.
- **locks** `MutualExclusion`, `HwMutualExclusion`, `ImplementsMutex`, `HwImplementsMutex`, `OwnerNamed`,
  `HeldWhileInside`, and `FreeIsTaken`, `Released`: no wake-up lost, no lock kept.

Deadlock is checked in `shared` and `motors`. In
`drivers` and `services` devices, tasks and the main loop may stop (their calls are bounded), and
a master that drops rings may (`link` has the step in which nothing happens for it; `link_kick`
and `queue_release` switch the check off); a lock that hangs in `drivers` violates `LocksProgress`. A motor that clashes makes `DJIMotorInit` spin: `Spins` in `MCMotors`.

## 4. Bounds

- Ring of N = 2 slots, indices modulo IdxMod = 8: four laps, so indices wrap and full, empty
  and half-full rings all occur. The proofs cover every N and every multiple IdxMod >= 2N.
- Messages are numbered modulo `SeqMod` = `MsgMod` = 4 > N + 1, so the outstanding ones and the next
  have different numbers. `TickMod` = 4 values of `tick_count`, RL_BLOCK the largest.
- CAN receive: two identifiers, any number of extended frames, two slots
  (CAN_MX_REGISTER_CNT is 2), FIFO of two frames. `Delivered` needs FifoDepth <= DrainLimit;
  the run takes the boundary, equality. In the code the limit is 16 frames; the depth is
  hardware, about seven frames by the watermark.
- CAN transmit: all six groups, any subset with at most two per controller, set-points modulo 2.
- Motors: three calls of `DJIMotorInit` with four configurations, both sides of the border
  between the groups and a clash. `NoCrossTalk` holds for at most Slots + 1 motors (see 7).
- Encoder: eight positions, all lengths of movement below half a turn, three turns either way.
- Payload: every sanitized length up to 8, and 12 and 64; beyond 8 all lengths are whole words.
- PID: eight sets of parameters that between them use every stage, three measurements, three
  set-points, `dt` 0, 1 or 2, MaxCount = 2 for 500.
- Multiplexer: two outputs of three sources, both controllers and an orphan on the first, two
  interrupts per device. Two controllers suffice for one failing and one not.
- Timer: registers of 16 values, started just before a carry at which `HAL_GetTick` wraps too, calls
  up to StartBy, ticks up to LastTick (no call is under way by then, and less than a quarter of the
  timer's range, by which `GetSysTimerCount` tells which way it counts). `Pace` = 1 tick between two
  steps of the CPU bounds liveness only; the proofs have no such bound.
- GPIO: one bank, three groups on two cores and two levels, four pins, one of them by level, three
  events.
- I2C: FIFO of two words, messages of 0, 1, 4 and 5 bytes: none, less than a load, two loads with
  the address in the first, three. `BothOnNak`: a controller that raises MBTF together with NAKRCV,
  in interrupt mode (in polled mode the driver relies on it not to).
- Locks: two cores and two interrupts; three numbers of which 0 was never set. Chips for the word:
  two cores of armv8-a in 64 bit, of armv8 in 32 bit, or of armv7-m, which lock, try and print in
  interrupts; and every pair of the RK3506's cores (a Cortex-A7 whose main program takes the
  lock, one whose interrupts print, a Cortex-M0 that tries) in which a main program takes it. For the
  register: every core asks for the owner in interrupts, or leaves the lock to its interrupts.
  Interrupts of one core do not nest on each other (`HAL_GIC_PREEMPT_FEATURE_ENABLED` off).
- Endpoints: three nodes, endpoints and addresses (a first, a last and one between them), two binders.
  The proofs cover any heap.
- Lifecycle: MboxCnt = 4, three initialisations. Environment: three tasks, four calls of `env_init`, ports
  FreeRTOS (with and without a failing platform) and ThreadX with two tasks waiting for both
  links. Queues: two buffers, two queues, three readers, three messages; one queue is
  destroyed and created again. The used ring was first filled in the order of the buffers
  (`FirstFill`); the proofs allow any order.

## 5. Fairness and the environment

- `RpmsgLink`: weak fairness of the handler (an enabled interrupt is taken, a handler goes
  on); strong fairness of the main loop (between two runs of the handler it gets its turn);
  weak fairness of a master in the middle of a send. Whether the master sends at all is its own
  choice; only `BusySpec` (`link_kick`) makes it send as long as it finds a buffer, so that the
  counterexample is not one of a master that falls silent.
- `Telemetry`: weak fairness of the sender in a call and of the handler. `Late` is how many more
  reports the master's handler may see before its doorbell is cleared; `Late` < N is needed for
  `TelemetryFlows`.
- `CanReceive`: the handler only. Nothing is assumed of the bus. `CanTransmit`: the control loop and,
  per controller, the bus (another node acknowledges).
- `Intmux`: main loop, each handler. `SysTimer`: the timer ticks, the CPU goes on. `GpioIrqGroup`: each
  interrupt's handler. `HalI2c`: controller and handler; none for `ForceStop`, so that `Finishes` is
  not the caller's doing (a `Stop` that is cut off by `CleanIPD` is not reached: it takes a bit the
  state does not expect while a stop is under way, which this controller does not raise). Spinlocks: each core; a lock is left in the end by who holds it.
- `RtosEnv`: each task inside a call. `RpmsgQueue`: the callback and each reader, which calls for ever;
  a reader that waits for the mutex gets it. The number of messages is bounded.
- What these exclude: a main loop starved by an interrupt that drains as fast as the master fills
  (strong fairness of the main loop in `RpmsgLink`; no code bounds the loop of
  `rpmsg_lite_rx_callback`), and a master's handler slower than the sender (`Late`).

The environment enters by constants, so that each assumption can be switched off:
`KickRetries` (the master waits for a free mailbox; the master of `rpmsg_lite.c` does not),
`StartAfterRemote`, `ReadyRings`, `BusKeepsUp`, `TakeCtx` and `GiveCtx`, `RunMasks`, `QuietFirst`
(Linux sends nothing before it has been announced an endpoint), `DrainFirst`, `Uses`,
`Builds`, `Ports`. A property that holds only under one of them says so, and section 7
says what happens without it wherever a document promises more.

## 6. What is proved

Eight modules hold theorems; each is for every value of the constants that the
assumptions named in the modules allow. What a theorem assumes beyond those stands in its
`ASSUME`, as a named definition.

`VirtqueueProof`, for every ring size, every index range of at least two laps, either
way of stocking the ring, and one context of the remote core (`OneContext`):

    TypeCorrect, Conserved, NeverOverrun, NeverSlotRace, Implements

`OneContext` cannot be dropped: `virtqueue_hold` is the counterexample. The invariant is
`TypeOK /\ Conservation /\ Counting /\ MidOperation`. `Conservation` alone is not inductive:
that a ring has room for one more entry when a core publishes is a matter of numbers, so
`Counting` says that the two windows and the two cores' hands together have N entries.
`MidOperation` is what a core knows between its two steps. The proof goes in four layers:
arithmetic of free-running indices; what one push or pop does to the window of a ring;
one lemma per action; the theorems. `Implements` (`ImplementsExchange`) is the refinement: the
window in flight, oldest first, is a `Queue`; the store of a slot leaves it alone
(`QueueWrite`), the store of the index appends what the slot holds (`QueuePublish`), the read of a slot takes
its head (`QueueConsume`), so that each step of a core is a step of `BufferExchange` or a stutter.

`MotorsProof`, about what lies between `DJIMotorControl` and the CAN bus:

- `FramesAccepted` (`AcceptedKept`), for two groups on a controller and a bus that keeps up
  (`TwoRequests`; `can_transmit_full` shows the third). The invariant says where the loop stands:
  the second request is used only after the first group of its controller.
- `OwnFrames` (`EachItsOwn`, and `ClashStops`, which fails beyond), for all configurations and orders
  of registration, if all motors but the last have an instance (`AllButOne`: MaxMotors <= Slots + 1).
  Arithmetic first: two motors with one place in one frame would report with one identifier
  (`OnePlaceOneReport`), and a motor listens where `MotorSenderGrouping` puts it (`ListensToItsOwn`).
- `EncoderTypes`, `TurnsCounted`. For every resolution, every set of movements below half a turn
  between two decoded reports and every pattern of lost reports, `total_round` differs from the
  shaft's turns by a constant from the first report on. The invariant adds `ShaftTracked`: the last
  report plus the movement since is where the shaft is, across the boundary.
- `BytesAreKept` (`BytesKept`). The two reversals of a word are inverse to each other on every
  length that `CANFD_Len2Dlc` makes of one, whole words or below.
- `PidIsSafe` (`PidSafe`) for integers of any size and every choice of stages, if a controller that
  integrates limits its integral and the limits are below the value that stands for infinity
  (`Bounded`); `OutputIsNumberAgain` (`NumberAgain`) also assumes that no sum reaches it (`Room`).
- `EachPart`: the composition implements each of its five parts; hence `MotorsAreSafe` and
  `MotorsKeepTheirOwn`, the invariants and the action properties of the run.

`CanReceiveProof`: `FramesAreDelivered` (`ReceiveSafe`), for any identifiers, any number of instances and
any depth of the FIFO, if the interrupts stay on (`Receives`) and a run of the handler may drain
a whole FIFO (`Drained`: FifoDepth <= DrainLimit). `Delivered` is not inductive: `NoneForgotten` says that a
frame in the FIFO that is due has its interrupt bit set or the handler still reads, `DueThere` that the
instances a frame is due to are in the table and match it, also while `CANRegister` publishes one.

`DriversProof`, about the drivers that run side by side:

- `DriversStayConnected` (`DriversConnected`), for any outputs, sources per output, CAN controllers and
  interrupts that earlier software left behind. The invariant follows start-up step by step: what each
  step has connected, and that no later one undoes it.
- `CountIsCurrent` (`ReadIsCurrent`): `HAL_TIMER_GetCount` returns a value the timer had during
  the call, for registers of any width, interruptions of any length and both directions. The
  invariant orders three moments: entered, the read of the low half, now.
- `TimeIsKept` (`TimeKept`), for rates, delays and timeouts as `Rates` states them: what `TimerDelayUs`
  multiplies fits a register (section 7 has the delay for which it does not), and the timer is in
  the first quarter of its range. `HAL_DelayMs` is a sum of delays, `HAL_GetTick` a quotient of a count
  of its call, and a timeout compares quotients that wrap; the arithmetic of each is a lemma.
- `EdgesAreKept` (`EdgeKept`, and `GpioTypeOK`, `MaskedWhileServed`, `CalledForAnEdge`), for any number of
  banks, cores, levels and pins whose configuration is `Divided`: a pin and an interrupt belong to one
  group (section 7 has the banks for which the last condition of it fails). No register is locked;
  that no step of one core spoils another's is the invariant: a group that waits in the
  dispatcher's loops is unmasked and idle; from the dispatcher's masking to the handler's unmasking it
  is masked, its note is written at most once, and is taken before the next (`MaskKept`, `Notes`);
  what was read of its edges is still there when they are cleared (`ReadStill`); and an edge, its note and the
  handler's copy are paid for by edges that came (`Counted`).
- `TransferIsTrue` (`TransferTrue`), for a FIFO of two bytes or more, any lengths, both types and a slave that
  refuses any byte at any moment. `Put` and `Got` are what a message of n bytes puts on the wire;
  `PutGrows`, `GotGrows` and `TakenGrows` say that one more chunk makes of them what a longer message
  puts there. The invariant says for each `state` of the handle how far the wire is: a chunk
  is in TXDATA or has gone out (`InWrite`), is asked for or is in RXDATA (`InRead`), and the bit that the
  handler waits for is set only in the second case; a refusal stays in IPD until the handler has seen it
  (`InTransfer`), so that an unexpected call can only follow a refusal (`UnexpectedInv`).
- `EachDriver`: the composition, which the locks are part of too, implements each of the four; hence `DriversTypes` (`DriversTypeOK`) and
  `DriversAreSafe`. The values of the run satisfy `Rates` and `Divided`; `MCDrivers` assumes it, so that
  TLC evaluates them.

`LinkProof`, for every number of buffers and every numbering of the messages: `LinkIsSafe` and
`EitherLinkIsSafe` (`LinkSafe`, for a master that repeats a kick and for one that does not),
`PacedIsServed` and `PacedCommand` (`NoStranded`, `CommandCurrent`), which assume `Paced`: the master
starts after the remote, on rings that are ready, and waits for a free mailbox before it rings.
`Paced` cannot be dropped: `link_kick` is the counterexample. `LinkSafe` needs two companions to be
inductive: `OnePlace`, no buffer is in two of the queue, the hands and the used ring; and
`ResetFirst`, the link is reported only after it was reset. `PacedInv` adds where the doorbell is
while the ring is not empty: pending, being served, or about to be rung.

`LocksProof`, for any number of cores and interrupts. The word in memory: `LockTypes` holds whatever the
cores are; `LockExcludes`, `OwnerIsNamed` and `LockImplements` where every core is `Safe` (`SafeBuilds`): its
return from an interrupt clears the monitor, or it uses the lock only in its main program or only in
interrupts, or it never calls Lock where none is compiled. Thus a Cortex-A7 whose main program locks or whose
interrupts print, and a Cortex-M0 that tries, are covered in any number beside each other; a Cortex-A7
that prints in both and a Cortex-M0 that locks are not, `locks_print` and the table in section 7 have
the counterexamples. The invariant says that a monitor that is set at a store-exclusive has seen the lock
free since, which on a Cortex-A7 needs that no call was interrupted by another (`AsBuilt`, `MainAsUsed`:
each core is only where its build lets it be). The register: `RegisterLocks` and `RegisterImplements`
where every core is `HwSafe` (`SafeUses`): its interrupts ask for the owner first, or its main program leaves
the lock to them; `locks_register` is the counterexample. The invariant, `HeldWhileInside`, says that the
register holds the number of the core of whoever is inside. `LocksAreSafe` is both.

`EndpointListProof`, for any finite heap, any number of addresses and of binders of the name service:

- `EndpointsAreSafe` (`MemorySafe`). The invariant `EptInv` says that the list is a chain (`Chain`): different
  nodes, each with the next one's address and, but for the first, the previous one's, one for
  each endpoint an interrupt may find, whose addresses differ; and what the call in progress knows of its node
  and the list between any two of its stores (`Knows`): that the node is in the chain or outside it,
  that it already points to the head. `Blocks` counts a node for every endpoint, `Handles` says who
  holds which context. Between the two stores that make the first node there is no chain, as the node's
  `next` is still junk; only that the node is the head (`First`).
- `VisitIs`, `LookupIs`: the walk of the interrupt visits the chain from end to end and returns the one
  node with the address, or NULL. `Visit` is recursive; that it follows the chain is proved by taking
  the set of the steps at which it does, which contains 0 and every successor (`SetInduction`, from
  the well-foundedness of `<`).
- `ListIsRegistry` (`ImplementsRegistry`), when nothing arrives between those two stores (`QuietFirst`; section
  7 says what happens otherwise): the store of the head, or the one that takes a node out, is `Register`
  or `Unregister`, a message is `Deliver`, every other store is invisible.

`ServicesProof`, about what runs beside the link:

- `EnvReady`, `SeenLinkIsUp`, for any number of tasks and any set of ports. The invariant says that
  whoever is between `env_init` and `env_deinit` is counted (a failed `env_init` stays counted,
  hence `<=`), that the objects exist while somebody is, that the semaphore and whoever got
  past it have the platform with a sound port, and that a waiter's bit is set only if its link
  is up with a port that clears it first.
- `EnvCounts` (`EnvTypeOK`) assumes that a semaphore is created given once at most; its invariant counts
  the semaphore together with those that owe it: a counting semaphore never exceeds what it was
  created with plus one.
- `TelemetryArrives`, `RefusedOnTime`, for every number of buffers, every set of timeouts and every
  delay. `AcceptedArrive` is kept up only together with `OneBuffer`, no buffer is in two of the rings
  and hands; `Waits` says that the counter of a call that sleeps is what it has waited.
- `QueuesAreSafe` (`QueueSafe`), for any number of buffers, queues and reading tasks and any order of the
  used ring's first filling, if the owner of a queue empties it before it destroys it (`DrainFirst`;
  section 7 says what happens otherwise), until an interrupt overtakes a release (`overtaken`;
  `queue_release` shows what happens then). A buffer is in one of the master's buffers, the ring, a queue
  and a reader's hands; `Accounted` counts the places, the invariant `QueueInv` says of every two of them
  that they share nothing, and that what waits in one after the other has rising numbers; `SlotKept`
  that between a task's two stores the slot still holds its buffer.
- `LastingQueues`: where no queue is ever destroyed (`Owned` is empty) and the master writes only to
  addresses of queues (`Addressed`), the interrupt has no buffer of its own to release, so that `overtaken`
  stays FALSE and `QueuesAreSafe` holds for ever.
- `LifeIsSafe`, for every number of initialisations and every size of the table of mailboxes. The
  invariant `LifeInv` walks through the first life step by step: what is in the table of
  mailboxes, what is counted and which queues are installed at each `main_pc`; the second life finds
  both mailboxes with a client (`Wired`) and hangs at its end, so that there is no third.
- `EachComponent`: the composition implements each of its four components; hence
  `ServicesAreSafe` and `ServicesKeepTime`, the invariants and the action properties of the run (of
  the queues, until an interrupt overtakes a release).

Every safety invariant, every action property and every refinement that a passing run checks is stated
by one of these theorems. Only model-checked: liveness, which is out of reach of the proof system.

## 7. Where the code and its documents disagree

Seven runs end in a violation; `PROJECT.json` quotes the lines.

1. `virtqueue_hold`: "no mutex needed ... not shared with ISR context" (`rpmsg_env_bm.c`), but
   the receive callback runs in the interrupt, and a buffer that was held and is released from
   the main loop shares the used ring with it. The firmware as it stands releases at once and
   does not meet it.
2. `link_kick`: a kick between the last look at the queue and the clearing of the doorbell is
   dropped, and a full ring then never produces another.
3. `can_transmit_full`: `HAL_CANFD_Transmit` never finds both requests busy, so `CANTransmit` never
   times out and returns 1 for a frame that is lost.
4. `motor_angle`: `total_angle` adds encoder positions (8192 to a turn) to degrees.
5. `locks_print`: a TryLock of an interrupt that finds the lock taken leaves the exclusive monitor
   set, and `IRQ_Handler` of the Cortex-A7 has no CLREX: the store-exclusive it interrupted
   then takes a lock that another core has. `HAL_DBG_Printf` calls TryLock in both places.
6. `locks_register`: an interrupt that calls TryLock without asking for the owner, as
   `HAL_DBG_Printf` does, reads its own core's number back and "has" the lock its main program holds;
   its Unlock then releases it.
7. `queue_release`: a task that releases a buffer (`rpmsg_lite_release_rx_buffer`, under a mutex) has stored the
   slot of the used ring; the interrupt releases a buffer without an endpoint (no mutex) into the
   same slot and raises the index; the task raises it once more. The task's buffer is lost.

TLC refutes the following as well; the module and what to change in its passing
instance reproduce each.

| module | change | refuted | what happens |
|---|---|---|---|
| `RpmsgLink` | `ReadyRings = FALSE` | `ReadyIsHeard` | the kick that should tell the remote that the master is ready rings MBOX0; the remote listens to MBOX3 |
| `CanReceive` | `RunMasks = {{"RX"}, {}}` | `Delivered` | an interrupt between the halves of `CANSetInterruptEnable(..., 0)` clears the receive bit without draining |
| `CanReceive` | none | `TxMaskKept` | recovery from bus-off rewrites INT_MASK |
| `DjiMotor` | `MaxMotors = 4` | `ClashStops`, `NoCrossTalk` | the clash test reads `rx_id` through the NULL instance of a refused `CANRegister` |
| `DjiMotor` | none | `AllHeard` | the third motor has no receive instance: CAN_MX_REGISTER_CNT is 2, a bus may have six |
| `Pid` | none | `DeadZoneClears` | "clear the integral and the output": the dead zone clears `ITerm` and `Output`, not `Iout` |
| `LinkLifecycle` | none | `DeinitSucceeds`, `InitAgain` | the second initialisation is not counted, so the second `rpmsg_lite_deinit` asserts; `first_notify` is never reset, so the second link is never reported |
| `EndpointList` | `QuietFirst = FALSE` | `NotShared` | `add_to_list` on an empty list sets the head before the node's `next` (`llist.c:75`): a message between the two sends the interrupt's walk through a pointer nobody has written. Linux, which waits for the announcement of an endpoint, does not send then |
| `EndpointList` | none | `BindReports` | `rpmsg_ns_bind` does not test what `rpmsg_lite_create_ept` returned |
| `SwSpinlock` | `Builds <- LockingM0s` (in `MCDrivers`) | `MutualExclusion` | for the Cortex-M0 no branch of `HAL_SW_SPINLOCK_Lock` (`hal_spinlock.c:75`) is compiled: the call returns at once, as if it had the lock |
| `SysTimer` | a delay whose product exceeds a register | `DelayIsLong` | `count` is multiplied in 32 bits |
| `GpioIrqGroup` | two banks divided differently | `EdgesServed` | `s_groupCtrl` exists once for all banks |
| `RtosEnv` | two tasks wait for one link on FreeRTOS, without `Alone` | `LinkSeen` | the second clears the bit the first is about to wait for |
| `RtosEnv` | `mayFail`, or XOS's `initial = 1`, without `Sound` | `PlatformReady` | a caller gets 0 without a platform |
| `RtosEnv` | Zephyr or ThreadX, without `clears` | `SeenIsUp` | the bit of a link outlives its instance |
| `RpmsgQueue` | `DrainFirst = FALSE` | `Accounted` | `rpmsg_queue_destroy` drops the references on the queue, and with them the buffers |

`HAL_ISSUE_LOG.md` records faults that were repaired: the CAN initialisation that disabled
the mailbox's interrupt (`DriversConnected`) and the lanes of an incomplete last word
(`SentInOrder`, `ReceivedInOrder`, `HalAgrees`).
Besides, a comment of `controller.c` speaks of 1000 calls where the code counts 500, and
`Proportional_On_Measurement` is declared but implemented nowhere.

## 8. What is not modelled, and why

- The restart of one side of the link alone: nothing in the code handles it.
- The zero-copy calls of rpmsg_lite, and the fields of commands and telemetry: nothing in the
  firmware reads `linux_control_cmd`.
- When both CAN controllers fail to start, their output is not configured and an orphan source a
  previous run left enabled keeps the core busy; `StartsUp` and `Served` are about the other cases.
- The classes of INT bits are coarser than the hardware's; a full FIFO drops the new frame,
  which is not a loss the firmware can prevent. Classic frames with a DLC above 8.
- The compiler may move the stores to a new CAN instance past its publication; only the
  order of the two stores of `can_instance[idx++]` is left open.
- The chaining of the PID loops of a motor, feed-forward and the power limit: floating-point
  formulas without state. Rounding, and a NaN that a low-pass filter keeps for ever, are beyond
  the integers of `Pid` (`NumberAgain` names the exception).
- I2C: the raw `StartTX`/`StopTX`/`CloseTX` calls, the clock divider, reads of no byte. Timer: CPU
  usage, the SysTick variant of `HAL_GetTick`. GPIO: enabling and disabling pins, the bank type,
  and the variant without `GPIO_IRQ_GROUP_CTRL_GPIO_MASK`.
- Environments: XOS's own waits (its event groups clear themselves), QNX, one-line wrappers.
- UART: an initialisation and a polled write. The rest of the HAL: register accesses of devices
  this firmware does not build. OpenAMP, sdhci, vendor headers: third party.
- Locks: interrupts that preempt one another on one core (`HAL_GIC_PREEMPT_FEATURE_ENABLED`); a critical
  zone left by a reset of one core.
- Data that the other core corrupts on purpose or by failure.

## 9. Plan

Done: all modules of section 2 with their runs, and the proofs of section 6.

Left: SPI and DMA transfers of the HAL in the manner of `HalI2c`.
