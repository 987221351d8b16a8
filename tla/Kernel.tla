------------------------------- MODULE Kernel -------------------------------
(***************************************************************************)
(* The kernel put together: kmain's start-up sequence and idle loop        *)
(* (kernel/kmain.c), the interrupt controller and dispatch table           *)
(* (arch/x86/cpu/isr.c), the start of the timer and input drivers, the     *)
(* PS/2 controller of module Ps2, the scheduler of module Sched, and the   *)
(* keyboard's two readers: setup_run (userspace/setup/setup.c) and the     *)
(* shell thread (userspace/shell/shell.c).  The keyboard ring is its       *)
(* length, which is all that matters of the FIFO queue module Keyboard     *)
(* shows it to be.                                                         *)
(***************************************************************************)
EXTENDS Sched, Ps2

CONSTANTS
    Shell,                 \* the thread kmain creates
    KeyCapacity            \* KEY_BUF_SIZE - 1

ASSUME KernelAssumption ==
    /\ Shell \in Threads \ {Idle}
    /\ KeyCapacity \in Nat \ {0}
    /\ MaxDue \in Nat

Irqs == 0 .. 15

VARIABLES
    kpc,           \* where kmain is
    step,          \* the step of Boot it is at
    spc,           \* where the shell thread is
    handlers,      \* handlers[32 + irq]
    masked,        \* interrupt lines masked in the two controllers
    nkeys          \* key events in the keyboard ring

schedVars == vars
irqVars == <<handlers, masked>>
kvars == <<vars, ps2Vars, kpc, step, spc, irqVars, nkeys>>

(* Entered from the boot loader with interrupts off.                       *)
KInit ==
    /\ InitWith(FALSE)
    /\ Ps2Init
    /\ kpc = "boot"
    /\ step = 1
    /\ spc = "readline"
    /\ handlers = [irq \in Irqs |-> "none"]
    /\ masked = {}
    /\ nkeys = 0

-----------------------------------------------------------------------------
(* kmain's start-up.                                                       *)

(* Leaves the timer's line masked.                                         *)
PitInitMasked == << <<"register", 0, "pit_tick">> >>

(* pit_init takes the place of kmain's own handler.                        *)
PitInit == << <<"register", 0, "pit_tick">>, <<"unmask", 0>> >>

Enable == << <<"sti">> >>

(* The memory managers, file systems and other drivers that are started in *)
(* between use neither interrupts, nor the scheduler, nor the keyboard.    *)
Boot ==
    << <<"isr_init">>, <<"register", 0, "sched_tick">> >> \o PitInit \o Enable
    \o KeyboardInit \o MouseInit \o << <<"sched_init">> >>

(* kmain runs while it is the only code or the idle thread.                *)
OnKmain == cur \in {NULL, Idle}

At(op) == OnKmain /\ kpc = "boot" /\ Boot[step][1] = op

Done ==
    /\ step' = IF step < Len(Boot) THEN step + 1 ELSE step
    /\ kpc' = IF step < Len(Boot) THEN kpc ELSE "setup"
    /\ UNCHANGED <<spc, nkeys>>

(* isr_init: no handlers, every line masked.                               *)
IsrInit ==
    /\ At("isr_init") /\ Done
    /\ handlers' = [irq \in Irqs |-> "none"]
    /\ masked' = Irqs
    /\ UNCHANGED <<schedVars, ps2Vars>>

isr_register ==
    /\ At("register") /\ Done
    /\ handlers' = [handlers EXCEPT ![Boot[step][2]] = Boot[step][3]]
    /\ UNCHANGED <<schedVars, ps2Vars, masked>>

pic_unmask_irq ==
    /\ At("unmask") /\ Done
    /\ masked' = masked \ {Boot[step][2]}
    /\ UNCHANGED <<schedVars, ps2Vars, handlers>>

EnableInterrupts ==
    /\ iflag' = TRUE
    /\ UNCHANGED <<rq, state, cur, esp, quantum, wake_tick, need_resched,
                   nthreads, ticks>>

Sti ==
    /\ At("sti") /\ Done
    /\ EnableInterrupts
    /\ UNCHANGED <<ps2Vars, irqVars>>

SchedInit ==
    /\ At("sched_init") /\ Done
    /\ sched_init
    /\ UNCHANGED <<ps2Vars, irqVars>>

(* keyboard_init and mouse_init send ...                                   *)
Send ==
    /\ \/ At("cmd") /\ ps2_send_cmd(Boot[step][2])
       \/ At("keyboard") /\ ps2_send_data(Boot[step][2]) /\ UNCHANGED cfg
       \/ At("mouse") /\ mouse_write(Boot[step][2]) /\ UNCHANGED cfg
    /\ Done
    /\ UNCHANGED <<schedVars, stolen, mistaken, irqVars>>

(* ... wait for a byte and drop it ...                                     *)
ReadByte ==
    /\ At("read") /\ Done
    /\ OutputFull
    /\ TakeByte
    /\ UNCHANGED <<schedVars, cfg, stolen, mistaken, irqVars>>

(* ... or use it as the configuration, which they write back changed ...   *)
ReadConfig(op, changed) ==
    /\ At(op) /\ Done
    /\ OutputFull
    /\ TakeByte
    /\ cfg' \in changed
    /\ mistaken' = (mistaken \/ (op = "mouse_config" /\ DataByte # "config"))
    /\ UNCHANGED <<schedVars, stolen, irqVars>>

(* ... or empty the port, until a look at its status finds nothing.        *)
FlushByte ==
    /\ At("flush")
    /\ OutputFull
    /\ TakeByte
    /\ UNCHANGED <<schedVars, cfg, stolen, mistaken, kpc, step, spc, irqVars, nkeys>>

FlushEnd ==
    /\ At("flush") /\ Done
    /\ ~ OutputFull
    /\ UNCHANGED <<schedVars, ps2Vars, irqVars>>

StartUp ==
    \/ IsrInit \/ isr_register \/ pic_unmask_irq \/ Sti \/ SchedInit
    \/ Send \/ ReadByte \/ FlushByte \/ FlushEnd
    \/ ReadConfig("keyboard_config", {KeyboardConfig(bits) : bits \in Configs(DataByte)})
    \/ ReadConfig("mouse_config", {MouseConfig(bits) : bits \in Configs(DataByte)})

-----------------------------------------------------------------------------
(* kmain after that.                                                       *)

Goto(from, to) ==
    OnKmain /\ kpc = from /\ kpc' = to /\ UNCHANGED <<ps2Vars, step, spc, irqVars>>

(* setup_run, needed at every boot since /etc is on a new tmpfs: readln    *)
(* takes keys until the line that ends setup.                              *)
SetupKey ==
    /\ \E to \in {"setup", "create"} : Goto("setup", to)
    /\ nkeys > 0
    /\ nkeys' = nkeys - 1
    /\ UNCHANGED schedVars

SetupEmpty ==
    /\ Goto("setup", "setup_empty")
    /\ nkeys = 0
    /\ UNCHANGED <<schedVars, nkeys>>

(* A key that came since the poll waits until another interrupt ends hlt.  *)
SetupHlt == Goto("setup_empty", "setup_hlt") /\ UNCHANGED <<schedVars, nkeys>>

CreateShell == Goto("create", "add") /\ thread_create(Shell) /\ UNCHANGED nkeys

AddShell == Goto("add", "yield") /\ sched_add(Shell) /\ UNCHANGED nkeys

KmainYield == Goto("yield", "net_poll") /\ sched_yield /\ UNCHANGED nkeys

(* The idle loop: net_poll, then sti; hlt.                                 *)
IdleLoop == Goto("net_poll", "idle_hlt") /\ EnableInterrupts /\ UNCHANGED nkeys

-----------------------------------------------------------------------------
(* The shell thread: readline takes the keys there are, then yields.       *)
ShellKey ==
    /\ cur = Shell /\ spc = "readline"
    /\ nkeys > 0
    /\ nkeys' = nkeys - 1
    /\ UNCHANGED <<schedVars, ps2Vars, kpc, step, spc, irqVars>>

ShellEmpty ==
    /\ cur = Shell /\ spc = "readline"
    /\ nkeys = 0
    /\ spc' = "yield"
    /\ UNCHANGED <<schedVars, ps2Vars, kpc, step, irqVars, nkeys>>

ShellYield ==
    /\ cur = Shell /\ spc = "yield"
    /\ spc' = "readline"
    /\ sched_yield
    /\ UNCHANGED <<ps2Vars, kpc, step, irqVars, nkeys>>

-----------------------------------------------------------------------------
(* Interrupts.  A line of the second controller also needs line 2.         *)
Deliverable(irq) == irq \notin masked /\ (irq >= 8 => 2 \notin masked)

Irq(irq) == iflag /\ Deliverable(irq)

(* hlt ends in whichever loop kmain was waiting.                           *)
EndHlt ==
    kpc' = CASE kpc = "setup_hlt" /\ OnKmain -> "setup"
             [] kpc = "idle_hlt" /\ OnKmain  -> "net_poll"
             [] OTHER                        -> kpc

(* isr_dispatch of the timer interrupt.  The tick counter stops at the     *)
(* model's bound; nothing here depends on its value.                       *)
TimerIrq ==
    /\ Irq(0)
    /\ CASE handlers[0] = "sched_tick" -> sched_tick
         [] handlers[0] = "pit_tick" /\ ticks < MaxTicks -> pit_tick
         [] OTHER -> UNCHANGED schedVars
    /\ EndHlt
    /\ UNCHANGED <<ps2Vars, step, spc, irqVars, nkeys>>

(* isr_dispatch of IRQ1: kb_handler reads the byte; a press that finds the *)
(* ring full is dropped.                                                   *)
KeyIrq ==
    /\ Irq(1)
    /\ KeyIrqLine
    /\ IF handlers[1] = "kb_handler"
       THEN /\ TakeByte
            /\ nkeys' = IF IsPress(outk) /\ nkeys < KeyCapacity THEN nkeys + 1 ELSE nkeys
            /\ stolen' = (stolen \/ outk = "config")
       ELSE UNCHANGED <<devVars, nkeys, stolen>>
    /\ EndHlt
    /\ UNCHANGED <<schedVars, cfg, mistaken, step, spc, irqVars>>

(* The controller and the user.                                            *)
Device(act) == act /\ UNCHANGED <<schedVars, cfg, stolen, mistaken, kpc, step, spc, irqVars, nkeys>>

Kmain ==
    \/ StartUp \/ SetupKey \/ SetupEmpty \/ SetupHlt \/ CreateShell
    \/ AddShell \/ KmainYield \/ IdleLoop

ShellThread == ShellKey \/ ShellEmpty \/ ShellYield

KNext ==
    \/ Kmain \/ ShellThread \/ TimerIrq \/ KeyIrq
    \/ Device(CtlSend) \/ Device(KbdSend) \/ Device(MouseSend) \/ Device(KeyPress)

(* The processor runs whatever thread is current, the timer ticks, and the *)
(* devices answer.                                                         *)
KSpec ==
    /\ KInit /\ [][KNext]_kvars
    /\ WF_kvars(Kmain \/ ShellThread)
    /\ WF_kvars(TimerIrq)
    /\ WF_kvars(Device(CtlSend)) /\ WF_kvars(Device(KbdSend)) /\ WF_kvars(Device(MouseSend))

-----------------------------------------------------------------------------
(* Interrupts are on from before the first driver registers, so a line may *)
(* only be unmasked once its handler is in the table: otherwise            *)
(* isr_dispatch acknowledges the interrupt and nobody reads the device.    *)
HandlerBeforeUnmask ==
    iflag => \A irq \in Irqs : Deliverable(irq) => handlers[irq] # "none"

(* A hlt ends, in setup and in the idle loop, which so keeps polling the   *)
(* network: interrupts are on whichever thread kmain came back from, and   *)
(* the timer's line is unmasked, so that no key is needed.                 *)
HaltEnds ==
    /\ kpc = "setup_hlt" ~> kpc = "setup"
    /\ kpc = "idle_hlt" ~> kpc = "net_poll"

(* The keyboard that keyboard_init has set up stays on, with its           *)
(* interrupt, whatever was typed before and meanwhile: mouse_init changes  *)
(* its own bit of the shared configuration only, unless it took a byte     *)
(* from the keyboard for that configuration.                               *)
KeyboardStaysOn ==
    handlers[1] = "kb_handler" /\ ~ mistaken => "kbd_int" \in cfg /\ "kbd_off" \notin cfg

(* keyboard_init and mouse_init end if the devices answer, although they   *)
(* wait without a limit and drop bytes without looking at them; unless     *)
(* kb_handler, live by then, takes the reply that mouse_init asked for, or *)
(* a user who never stops typing keeps ps2_flush busy.                     *)
BootEnds == <>(kpc # "boot" \/ stolen) \/ []<><<FlushByte>>_kvars

(* docs/architecture.md: the scheduler is "Round-robin preemptive (PIT     *)
(* driven)", so a thread in the run queue runs.                            *)
PreemptiveReadyRuns == \A t \in Threads : Queued(t) ~> cur = t
=============================================================================
