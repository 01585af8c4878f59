------------------------------- MODULE Console -------------------------------
(***************************************************************************)
(* The serial console: the UART and its driver (serial/uart16550.rs), the  *)
(* system calls SYS_GETC and SYS_PUTC (trap.rs), the echo task             *)
(* (user_task.rs), the last line of kmain (main.rs) and the log line of    *)
(* every task switch (scheduler.rs), which share one transmitter.          *)
(*                                                                         *)
(* Bytes are told apart as far as the code does: "cr", "lf", "ff" and any  *)
(* other.  A trap clears mstatus.MIE and mret sets it again, so a tick     *)
(* comes between two instructions of the echo task but in no handler;      *)
(* kmain prints its last line with MIE set.                                *)
(***************************************************************************)
EXTENDS Integers, Sequences

CONSTANTS
  Input,         \* bytes the other end may send
  FIFO_SIZE,     \* depth of the UART's FIFOs (16)
  MAX_SENT,      \* bound: bytes the other end sends
  MAX_SWITCHES   \* bound: preemptions of the echo task

ASSUME ConsoleAssumption ==
  /\ FIFO_SIZE \in Nat \ {0} /\ MAX_SENT \in Nat /\ MAX_SWITCHES \in Nat

VARIABLES
  (* the UART *)
  DLAB, divisor, IER, fifo_on, rx, tx,
  line,        \* history: what was sent, tagged with who wrote it
  (* the kernel *)
  MIE,         \* mstatus.MIE
  at,          \* "init", "start", "kmain", "log", "getc", "putc", or the task
               \* that runs
  writes,      \* register writes serial::init has left
  todo,        \* bytes puts has left
  next,        \* what runs after the log line
  switches,
  (* the echo task *)
  pc, byte,    \* its next step, its register a0
  (* the other end *)
  sent,        \* bytes sent
  received     \* history: those the UART took since it was initialised

uart == <<DLAB, divisor, IER, fifo_on, rx, tx, line>>
kernel == <<MIE, at, writes, todo, next, switches>>
echo == <<pc, byte>>
host == <<sent, received>>
vars == <<uart, kernel, echo, host>>

\* The concatenation of a sequence of sequences, and the beginnings of a
\* sequence.  SequencesExt has both; they are defined here because every proof
\* about a module that extends SequencesExt takes several times as long.
Flatten(ss) ==
  LET upto[i \in 0..Len(ss)] == IF i = 0 THEN <<>> ELSE upto[i - 1] \o ss[i]
  IN  upto[Len(ss)]

Begins(s, t) == \E n \in 0..Len(t) : s = SubSeq(t, 1, n)

Byte(from, b) == [from |-> from, byte |-> b]

\* serial::init without the write that sets DLAB.
InitWithoutDlab ==
  <<[reg |-> "1", val |-> 0], [reg |-> "0", val |-> 1], [reg |-> "1", val |-> 0],
    [reg |-> "LCR", val |-> "8BIT"], [reg |-> "FCR", val |-> 7]>>

\* serial::init: IER, DLAB, the divisor, 8N1 and the FIFOs.  Offsets 0 and 1
\* are THR and IER, or the divisor while DLAB is set.
InitWrites ==
  <<[reg |-> "1", val |-> 0], [reg |-> "LCR", val |-> "DLAB"],
    [reg |-> "0", val |-> 1], [reg |-> "1", val |-> 0],
    [reg |-> "LCR", val |-> "8BIT"], [reg |-> "FCR", val |-> 7]>>

Init ==
  /\ DLAB = FALSE /\ divisor = <<0, 0>> /\ fifo_on = FALSE
  /\ IER \in {0, 1}  \* whatever was left of it
  /\ rx = <<>> /\ tx = <<>> /\ line = <<>>
  /\ MIE = FALSE /\ at = "init" /\ writes = InitWrites /\ todo = <<>>
  /\ next = "start" /\ switches = 0
  /\ pc = "getc" /\ byte = "none"
  /\ sent = 0 /\ received = <<>>
-----------------------------------------------------------------------------
(* The UART *)

Capacity == IF fifo_on THEN FIFO_SIZE ELSE 1

\* A byte written to THR; one too many is lost.
Queue(b) == tx' = IF Len(tx) < Capacity THEN Append(tx, b) ELSE tx

\* LSR_TX_EMPTY: the transmitter has nothing left.
TxEmpty == tx = <<>>

Transmit ==
  /\ tx # <<>>
  /\ line' = Append(line, Head(tx)) /\ tx' = Tail(tx)
  /\ UNCHANGED <<DLAB, divisor, IER, fifo_on, rx, kernel, echo, host>>

\* A byte arrives; it is dropped when the receiver is full.
Receive ==
  /\ sent < MAX_SENT
  /\ sent' = sent + 1
  /\ \E b \in Input :
       IF Len(rx) < Capacity
       THEN /\ rx' = Append(rx, b)
            /\ received' = IF at = "init" THEN received ELSE Append(received, b)
       ELSE UNCHANGED <<rx, received>>
  /\ UNCHANGED <<DLAB, divisor, IER, fifo_on, tx, line, kernel, echo>>
-----------------------------------------------------------------------------
(* The driver *)

\* The effect of one register write of serial::init.
WriteRegister(w) ==
  CASE w.reg = "LCR" -> /\ DLAB' = (w.val = "DLAB")
                        /\ UNCHANGED <<divisor, IER, fifo_on, rx, tx>>
    [] w.reg = "FCR" -> /\ fifo_on' = TRUE /\ rx' = <<>> /\ tx' = <<>>
                        /\ UNCHANGED <<DLAB, divisor, IER>>
    [] w.reg = "0" -> /\ IF DLAB THEN divisor' = <<w.val, divisor[2]>> /\ UNCHANGED tx
                         ELSE Queue(Byte("init", w.val)) /\ UNCHANGED divisor
                      /\ UNCHANGED <<DLAB, IER, fifo_on, rx>>
    [] w.reg = "1" -> /\ IF DLAB THEN divisor' = <<divisor[1], w.val>> /\ UNCHANGED IER
                         ELSE IER' = w.val /\ UNCHANGED divisor
                      /\ UNCHANGED <<DLAB, fifo_on, rx, tx>>

SwitchLine == <<"msg", "lf">>

\* puts: a line feed is preceded by a carriage return.
puts(s) == Flatten([i \in DOMAIN s |-> IF s[i] = "lf" THEN <<"cr", "lf">> ELSE <<s[i]>>])

\* The last write of serial::init is followed by the boot messages, which are
\* one line here: all of them are printed with MIE clear.
InitUart ==
  /\ at = "init"
  /\ WriteRegister(Head(writes))
  /\ writes' = Tail(writes)
  /\ IF Len(writes) > 1 THEN UNCHANGED <<at, todo>>
     ELSE at' = "log" /\ todo' = puts(SwitchLine)
  /\ UNCHANGED <<line, MIE, next, switches, echo, host>>

\* putc: spins until the transmitter is empty, then writes THR.
putc(b) == TxEmpty /\ Queue(b) /\ UNCHANGED <<DLAB, divisor, IER, fifo_on, rx, line>>

\* puts, one byte at a time; after the last byte of a switch line mret starts
\* the chosen task.
Log ==
  /\ at = "log"
  /\ putc(Byte("log", Head(todo)))
  /\ todo' = Tail(todo)
  /\ at' = IF Len(todo) = 1 THEN next ELSE "log"
  /\ MIE' = (at' \in {"echo", "other"} \/ MIE)
  /\ UNCHANGED <<writes, next, switches, echo, host>>

\* start_scheduler sets MIE before its own line ...
StartScheduler ==
  /\ at = "start" /\ at' = "kmain"
  /\ MIE' = TRUE /\ todo' = puts(SwitchLine)
  /\ UNCHANGED <<uart, writes, next, switches, echo, host>>

\* ... and prints it until the first tick; then it waits in wfi for that tick.
\* (A tick between the read of LSR and the write of THR comes, for the wire,
\* before both: kmain is never resumed.)
KmainPuts ==
  /\ at = "kmain" /\ todo # <<>>
  /\ putc(Byte("kmain", Head(todo)))
  /\ todo' = Tail(todo)
  /\ UNCHANGED <<MIE, at, writes, next, switches, echo, host>>

\* A tick that leaves MIE as it is for the handler.
SwitchUnmasked ==
  /\ MIE
  /\ IF at = "echo"
     THEN switches < MAX_SWITCHES /\ switches' = switches + 1 /\ next' = "other"
     ELSE next' = "echo" /\ UNCHANGED switches
  /\ at' = "log" /\ todo' = puts(SwitchLine)
  /\ UNCHANGED <<uart, MIE, writes, echo, host>>

\* A tick: schedule prints its line and dispatches the next task.  The echo
\* task is the first one, and comes again after the others.  Whatever kmain had
\* left to print is abandoned: schedule saves the context of no task but the
\* current one, and there is none.
Switch ==
  /\ MIE
  /\ IF at = "echo"
     THEN switches < MAX_SWITCHES /\ switches' = switches + 1 /\ next' = "other"
     ELSE next' = "echo" /\ UNCHANGED switches
  /\ at' = "log" /\ MIE' = FALSE /\ todo' = puts(SwitchLine)
  /\ UNCHANGED <<uart, writes, echo, host>>
-----------------------------------------------------------------------------
(* The system calls, and the echo task between them *)

Trap(to) == at = "echo" /\ at' = to /\ MIE' = FALSE

Mret(from) == at = from /\ at' = "echo" /\ MIE' = TRUE

SysCall ==
  /\ \/ pc = "getc" /\ Trap("getc")
     \/ pc \in {"putc", "newline"} /\ Trap("putc")
  /\ UNCHANGED <<uart, writes, todo, next, switches, echo, host>>

\* A SYS_GETC that looks at the byte and leaves it in the receiver.
GetcPeeks ==
  /\ Mret("getc") /\ pc' = "test"
  /\ byte' = IF rx # <<>> THEN Head(rx) ELSE "ff"
  /\ UNCHANGED <<uart, writes, todo, next, switches, host>>

\* A SYS_GETC that reads the data register once more than it keeps.
GetcReadsTwice ==
  /\ Mret("getc") /\ pc' = "test"
  /\ byte' = IF rx # <<>> THEN Head(rx) ELSE "ff"
  /\ rx' = IF Len(rx) > 1 THEN Tail(Tail(rx)) ELSE <<>>
  /\ UNCHANGED <<DLAB, divisor, IER, fifo_on, tx, line, writes, todo, next, switches, host>>

\* SYS_GETC: try_getc().unwrap_or(0xFF)
SysGetc ==
  /\ Mret("getc") /\ pc' = "test"
  /\ IF rx # <<>> THEN byte' = Head(rx) /\ rx' = Tail(rx)
     ELSE byte' = "ff" /\ UNCHANGED rx
  /\ UNCHANGED <<DLAB, divisor, IER, fifo_on, tx, line, writes, todo, next, switches, host>>

\* SYS_PUTC
SysPutc ==
  /\ Mret("putc")
  /\ putc(Byte("echo", IF pc = "newline" THEN "lf" ELSE byte))
  /\ pc' = IF pc = "newline" THEN "getc" ELSE "cr_test"
  /\ UNCHANGED <<byte, writes, todo, next, switches, host>>

\* The branches of user_echo_task: 0xFF is taken for "no byte", and a
\* carriage return is followed by a line feed.
EchoBranch ==
  /\ at = "echo"
  /\ \/ pc = "test" /\ pc' = IF byte = "ff" THEN "getc" ELSE "putc"
     \/ pc = "cr_test" /\ pc' = IF byte = "cr" THEN "newline" ELSE "getc"
  /\ UNCHANGED <<byte, uart, kernel, host>>
-----------------------------------------------------------------------------
KernelStep ==
  InitUart \/ Log \/ StartScheduler \/ KmainPuts \/ SysGetc \/ SysPutc
EchoStep == SysCall \/ EchoBranch

Next == Transmit \/ Receive \/ KernelStep \/ Switch \/ EchoStep

\* The transmitter drains, kernel code and the echo task execute, the timer
\* ticks and the scheduler comes back to the echo task (Kernel!NoStarvation).
\* Nothing is assumed of the other end.
Fairness ==
  /\ WF_vars(Transmit) /\ WF_vars(KernelStep) /\ WF_vars(EchoStep)
  /\ WF_vars(at \in {"kmain", "other"} /\ Switch)

Spec == Init /\ [][Next]_vars

FairSpec == Spec /\ Fairness
-----------------------------------------------------------------------------
(* Properties *)

SentOf(who, e) == IF e.from = who THEN <<e.byte>> ELSE <<>>

SentBy(who, s) == Flatten([i \in DOMAIN s |-> SentOf(who, s[i])])

EchoOf(b) ==
  CASE b = "ff" -> <<>>
    [] b = "cr" -> <<"cr", "lf">>
    [] OTHER -> <<b>>

Echoed(s) == Flatten([i \in DOMAIN s |-> EchoOf(s[i])])

\* The bytes the UART took are echoed once each and in order, with a line feed
\* after a carriage return and without 0xFF; nothing received before
\* serial::init is, however preemption, the log and bytes dropped by a full
\* receiver fall between (user_echo_task, handle_syscall, try_getc).
EchoInOrder == Begins(SentBy("echo", line \o tx), Echoed(received))

\* b is the byte after a in a line that puts writes.
Follows(a, b) ==
  a.from = b.from /\ <<a.byte, b.byte>> \in {<<"msg", "cr">>, <<"cr", "lf">>}

Adjacent(a, b) ==
  /\ a.from = "log" /\ a.byte # "lf" => Follows(a, b)
  /\ a.from = "kmain" /\ a.byte # "lf" => Follows(a, b) \/ b = Byte("log", "msg")
  /\ b.from \in {"log", "kmain"} /\ b.byte # "msg" => Follows(a, b)

\* A line written with MIE clear, by boot or by a task switch, reaches the wire
\* whole, with a carriage return before its line feed: no other byte falls into
\* it and none of its bytes is lost, although the transmitter holds few (puts,
\* putc).  The line start_scheduler prints after enable_interrupts may be cut,
\* but only by the line of the first task switch, and then it is never taken up
\* again: no echoed byte falls into it either.
LogLinesWhole == \A i \in 1..(Len(line) - 1) : Adjacent(line[i], line[i + 1])

\* After serial::init the divisor is set, offsets 0 and 1 are the data register
\* and IER again, the UART's own interrupts are off, and no register value was
\* sent as data on the way.
UartConfigured ==
  /\ at # "init" => ~DLAB /\ fifo_on /\ divisor = <<1, 0>> /\ IER = 0
  /\ SentBy("init", line) = <<>>

\* Every byte the UART took is echoed eventually: no handler spins for ever on
\* the transmitter, and polling with preemption misses no byte.
EchoComplete ==
  \A n \in 1..MAX_SENT :
    Len(received) >= n ~>
      /\ Len(received) >= n
      /\ Begins(Echoed(SubSeq(received, 1, n)), SentBy("echo", line))

=============================================================================
