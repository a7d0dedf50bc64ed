------------------------------ MODULE Console -------------------------------
(***************************************************************************)
(* From a key to the shell: the keyboard controller and the two PICs       *)
(* (external), src/pic.c, src/idt.c, src/timer.c, src/keyboard.c, and the  *)
(* login and input loops of src/shell.c.  The shell's thread polls the     *)
(* ring and halts; an interrupt may come between any two of its steps and  *)
(* is itself one step, for its gate clears IF.                             *)
(***************************************************************************)
EXTENDS KeyRing, FiniteSets, FiniteSetsExt

CONSTANTS
  Scancodes,           \* [key, up]: a key pressed or released
  Users,               \* user names, as sequences of characters
  SHELL_BUFFER_SIZE,   \* 256 in the kernel
  FIELD_SIZE,          \* username[32], password[32]
  MaxTyped,            \* bound: scancodes the keyboard ever sends
  MaxToggles           \* bound: keyboard_disable_interrupts

IRQs == {0, 1}
Modifiers == {"shift", "ctrl", "alt"}
FKeys == {"f1", "f5"}                   \* within and beyond KEY_F1..KEY_F4
Shifted == [a |-> "A", b |-> "B"]
Printable == {"a", "b", "A", "B"}

VARIABLES
  irr, imr, isr,       \* PIC: requested, masked, in service
  interrupt_handlers,  \* IRQ -> which C handler, "none" for NULL
  interrupts_on,       \* the IF flag
  port,                \* what the keyboard has sent; the head is in the data port
  typed,               \* scancodes sent so far
  pressed,             \* shift_pressed, ctrl_pressed, alt_pressed
  at,                  \* place of the shell's thread
  toggles,
  taken,               \* what keyboard_getchar has returned, oldest first
  ui                   \* login fields, current line, and who is logged in

picvars == <<irr, imr, isr>>
cvars == <<keyboard_buffer, buffer_read_pos, buffer_write_pos, dropped, irr, imr, isr,
           interrupt_handlers, interrupts_on, port, typed, pressed, at, toggles, taken, ui>>

LoginStart == [mode |-> "username", username |-> <<>>, password |-> <<>>, line |-> <<>>]

Registered == [i \in IRQs |-> IF i = 0 THEN "timer" ELSE "keyboard"]

\* After idt_init: no handlers, every IRQ masked, IF clear.
idt_init ==
  /\ imr = IRQs
  /\ interrupt_handlers = [i \in IRQs |-> "none"]
  /\ interrupts_on = FALSE
  /\ at = "boot"
  /\ ui = LoginStart

\* Later: somebody has logged in, and no key waits.
LoggedIn ==
  /\ imr = {}
  /\ interrupt_handlers = Registered
  /\ interrupts_on = TRUE
  /\ at = "poll"
  /\ \E name \in Users :
       ui = [mode |-> "shell", username |-> name, password |-> name, line |-> <<>>]

ConsoleInit ==
  /\ RingInit
  /\ irr = {} /\ isr = {}
  /\ port = <<>> /\ typed = 0
  /\ pressed = {}
  /\ toggles = 0
  /\ taken = <<>>
  /\ idt_init \/ LoggedIn

-----------------------------------------------------------------------------
\* The hardware.  The controller raises IRQ1 once for each byte it shows in the
\* port, and shows the next one only when the last was read.
key_event(sc) ==
  /\ typed < MaxTyped
  /\ typed' = typed + 1
  /\ port' = Append(port, sc)
  /\ irr' = IF port = <<>> THEN irr \union {1} ELSE irr
  /\ UNCHANGED <<ringvars, imr, isr, interrupt_handlers, interrupts_on, pressed, at, toggles, taken, ui>>

pit_tick ==
  /\ irr' = irr \union {0}
  /\ UNCHANGED <<ringvars, imr, isr, interrupt_handlers, interrupts_on, port, typed, pressed,
                 at, toggles, taken, ui>>

\* The non-specific end of interrupt clears the most urgent line in service.
pic_send_eoi(service) == service \ {Min(service)}

-----------------------------------------------------------------------------
\* keyboard_interrupt_handler: what a scancode puts into the ring, or "none".
Code(sc) ==
  CASE sc.up \/ sc.key \in Modifiers -> "none"
    [] sc.key \in FKeys -> IF "alt" \in pressed THEN sc.key ELSE "none"
    [] sc.key \in DOMAIN Shifted /\ "shift" \in pressed -> Shifted[sc.key]
    [] OTHER -> sc.key

\* keyboard_irq_handler: read the port, note modifiers, put, end of interrupt.
keyboard_irq_handler ==
  LET sc == Head(port) IN
  /\ port' = Tail(port)
  /\ irr' = IF Len(port) > 1 THEN irr ELSE irr \ {1}
  /\ pressed' = IF sc.key \notin Modifiers THEN pressed
                ELSE IF sc.up THEN pressed \ {sc.key} ELSE pressed \union {sc.key}
  /\ IF Code(sc) = "none" THEN UNCHANGED ringvars ELSE buffer_put(Code(sc))
  /\ isr' = pic_send_eoi(isr \union {1})

\* timer_irq_handler, without the switch of processes, and default_irq_handler, which
\* acknowledges and reads nothing.
quiet_irq_handler(irq) ==
  /\ irr' = irr \ {irq}
  /\ isr' = pic_send_eoi(isr \union {irq})
  /\ UNCHANGED <<ringvars, port, pressed>>

\* The stub and interrupt_handler_common; the halted thread goes on after the iret.
interrupt_handler_common(irq) ==
  /\ interrupts_on
  /\ irq \in irr \ imr
  /\ \A i \in (irr \ imr) \union isr : irq <= i
  /\ irq \notin isr
  /\ IF interrupt_handlers[irq] = "keyboard" THEN keyboard_irq_handler
     ELSE quiet_irq_handler(irq)
  /\ at' = IF at = "halted" THEN "poll" ELSE at
  /\ UNCHANGED <<imr, interrupt_handlers, interrupts_on, typed, toggles, taken, ui>>

-----------------------------------------------------------------------------
\* timer_init, keyboard_init, keyboard_enable_interrupts, then sti.
kmain ==
  /\ at = "boot"
  /\ interrupt_handlers' = Registered
  /\ imr' = {}
  /\ interrupts_on' = TRUE
  /\ at' = "poll"
  /\ UNCHANGED <<ringvars, irr, isr, port, typed, pressed, toggles, taken, ui>>

Field(f, c, size) ==
  CASE c = "backspace" -> IF f = <<>> THEN f ELSE SubSeq(f, 1, Len(f) - 1)
    [] c \in Printable -> IF Len(f) < size - 1 THEN Append(f, c) ELSE f
    [] OTHER -> f

\* shell_login: one character of the user name or the password.
shell_login(u, c) ==
  CASE u.mode = "username" ->
         IF c = "enter" THEN [u EXCEPT !.mode = IF u.username = <<>> THEN @ ELSE "password"]
         ELSE [u EXCEPT !.username = Field(@, c, FIELD_SIZE)]
    [] OTHER ->
         IF c # "enter" THEN [u EXCEPT !.password = Field(@, c, FIELD_SIZE)]
         ELSE IF u.username \in Users /\ u.password = u.username THEN [u EXCEPT !.mode = "shell"]
         ELSE LoginStart

\* Mutated form: a line that was run is not cleared.
shell_input_keeps(u, c) ==
  CASE c \in FKeys -> u
    [] c = "enter" -> u
    [] OTHER -> [u EXCEPT !.line = Field(@, c, SHELL_BUFFER_SIZE)]

\* shell_handle_input, and the F keys that shell_run gives to handle_screen_switch.
shell_handle_input(u, c) ==
  CASE c \in FKeys -> u
    [] c = "enter" -> [u EXCEPT !.line = <<>>]
    [] OTHER -> [u EXCEPT !.line = Field(@, c, SHELL_BUFFER_SIZE)]

\* The loops of shell_login and shell_run: test the ring, ...
keyboard_haskey ==
  /\ at = "poll"
  /\ at' = IF buffer_is_empty THEN "hlt" ELSE "get"
  /\ UNCHANGED <<ringvars, picvars, interrupt_handlers, interrupts_on, port, typed, pressed,
                 toggles, taken, ui>>

\* ... take a key and act on it, ...
keyboard_getchar ==
  LET c == keyboard_buffer[buffer_read_pos] IN
  /\ at = "get"
  /\ buffer_get
  /\ taken' = Append(taken, c)
  /\ ui' = IF ui.mode = "shell" THEN shell_handle_input(ui, c) ELSE shell_login(ui, c)
  /\ at' = "poll"
  /\ UNCHANGED <<picvars, interrupt_handlers, interrupts_on, port, typed, pressed, toggles>>

\* ... or halt until the next interrupt.
hlt ==
  /\ at = "hlt"
  /\ at' = "halted"
  /\ UNCHANGED <<ringvars, picvars, interrupt_handlers, interrupts_on, port, typed, pressed,
                 toggles, taken, ui>>

\* Mutated form: the handler goes before the line is masked.
keyboard_disable_unmasked ==
  \/ /\ at = "poll" /\ toggles < MaxToggles
     /\ toggles' = toggles + 1
     /\ interrupt_handlers' = [interrupt_handlers EXCEPT ![1] = "none"]
     /\ at' = "disable"
     /\ UNCHANGED imr
  \/ /\ at = "disable"
     /\ imr' = imr \union {1}
     /\ at' = "off"
     /\ UNCHANGED <<interrupt_handlers, toggles>>

\* Mask IRQ1, then forget the handler.
keyboard_disable_interrupts ==
  \/ /\ at = "poll" /\ toggles < MaxToggles
     /\ toggles' = toggles + 1
     /\ imr' = imr \union {1}
     /\ at' = "disable"
     /\ UNCHANGED interrupt_handlers
  \/ /\ at = "disable"
     /\ interrupt_handlers' = [interrupt_handlers EXCEPT ![1] = "none"]
     /\ at' = "off"
     /\ UNCHANGED <<imr, toggles>>

\* Register the handler, then unmask IRQ1.
keyboard_enable_interrupts ==
  \/ /\ at = "off"
     /\ interrupt_handlers' = [interrupt_handlers EXCEPT ![1] = "keyboard"]
     /\ at' = "enable"
     /\ UNCHANGED <<imr, toggles>>
  \/ /\ at = "enable"
     /\ imr' = imr \ {1}
     /\ at' = "poll"
     /\ UNCHANGED <<interrupt_handlers, toggles>>

switch_keyboard ==
  /\ keyboard_disable_interrupts \/ keyboard_enable_interrupts
  /\ UNCHANGED <<ringvars, irr, isr, interrupts_on, port, typed, pressed, taken, ui>>

Thread == kmain \/ keyboard_haskey \/ keyboard_getchar \/ hlt \/ switch_keyboard

ConsoleNext ==
  \/ \E sc \in Scancodes : key_event(sc)
  \/ pit_tick
  \/ \E irq \in IRQs : interrupt_handler_common(irq)
  \/ Thread

Spec == ConsoleInit /\ [][ConsoleNext]_cvars

\* The CPU runs between two ticks, long enough for the other line to be served.
Fairness ==
  /\ WF_cvars(Thread)
  /\ WF_cvars(pit_tick)
  /\ \A irq \in IRQs : SF_cvars(interrupt_handler_common(irq))

FairSpec == Spec /\ Fairness

-----------------------------------------------------------------------------
\* Keys taken since the last Enter, which the shell shows on its line.
LastEnter == Max({0} \union {k \in DOMAIN taken : taken[k] = "enter"})
Count(lo, hi, S) == Cardinality({k \in lo..hi : taken[k] \in S})

\* A character stays on the line unless a backspace after it is not spent on a later one.
Survives(i) ==
  taken[i] \in Printable
    /\ \A j \in i..Len(taken) : Count(i + 1, j, {"backspace"}) <= Count(i + 1, j, Printable)

\* What the shell holds as its line is what the user kept of the keys since the last
\* Enter: nothing of the login, of an earlier line or of a screen switch is in it.  (A
\* line that was ever full has lost what came then.)
LineIsWhatWasTyped ==
  LET kept == {i \in LastEnter + 1 .. Len(taken) : Survives(i)} IN
  ui.mode = "shell" /\ Count(LastEnter + 1, Len(taken), Printable) < SHELL_BUFFER_SIZE =>
    /\ Len(ui.line) = Cardinality(kept)
    /\ \A i \in kept : ui.line[Cardinality({k \in kept : k <= i})] = taken[i]

\* Every key that was pressed is taken by the shell in the end, also one that comes
\* between the test of the ring and the hlt: then the next tick wakes the thread.
KeysTaken == <>[](port = <<>> /\ buffer_is_empty)
=============================================================================
