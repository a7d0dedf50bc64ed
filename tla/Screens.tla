------------------------------ MODULE Screens -------------------------------
(***************************************************************************)
(* Text output, src/vga.c, and the virtual screens, src/screen.c with      *)
(* handle_screen_switch of src/kernel.c.  The shell's thread writes to the *)
(* VGA instruction by instruction; the timer's switch of processes prints  *)
(* a message between any two of them, with the same cursor.  A cell holds  *)
(* the screen that was current when it was written, or Blank.              *)
(***************************************************************************)
EXTENDS Integers, Sequences, FiniteSets

CONSTANTS
  VGA_WIDTH, VGA_HEIGHT, TAB_STOP,   \* 80, 25, 4 in the kernel
  MAX_SCREENS,                       \* 4
  Messages,                          \* what the timer's printk writes
  MaxCalls, MaxMessages              \* bounds: what the shell and the timer do

Screens == 0..(MAX_SCREENS - 1)
Blank == MAX_SCREENS
Visible == 0..(VGA_WIDTH * VGA_HEIGHT - 1)
Memory == 0..(VGA_WIDTH * (VGA_HEIGHT + 1) - 1)     \* one row below the screen
Chars == {"x", "newline", "return", "tab"}

ASSUME ScreensAssumption ==
  /\ VGA_WIDTH \in Nat \ {0} /\ VGA_HEIGHT \in Nat \ {0} /\ MAX_SCREENS \in Nat \ {0}
  /\ TAB_STOP \in Nat \ {0} /\ VGA_WIDTH % TAB_STOP = 0
  /\ Messages \subseteq Seq(Chars)

VARIABLES
  vga,              \* cells of the memory, vga_row, vga_column
  screen_buffers, screen_cursors, current_screen,
  pc, arg, ret,     \* the thread: place, argument, where vga_putchar returns to
  reg,              \* what it has loaded: an index, a row or a column
  pos,              \* the cursor position the erasing code has fetched
  left,             \* history: each screen as the user left it
  disturbed,        \* history: a message came in the middle of a switch
  calls, messages

svars == <<vga, screen_buffers, screen_cursors, current_screen, pc, arg, ret, reg, pos,
           left, disturbed, calls, messages>>

Empty == [k \in Visible |-> Blank]

\* vga_init and screen_init; what init_screens then prints and switches, and later the
\* shell, are calls of the thread.
ScreensInit ==
  /\ vga = [cell |-> [k \in Memory |-> Blank], row |-> 0, col |-> 0]
  /\ screen_buffers = [s \in Screens |-> Empty]
  /\ screen_cursors = [s \in Screens |-> <<0, 0>>]
  /\ current_screen = 0
  /\ pc = "idle" /\ arg = 0 /\ ret = "idle" /\ reg = 0 /\ pos = <<0, 0>>
  /\ left = [s \in Screens |-> [cell |-> Empty, row |-> 0, col |-> 0]]
  /\ disturbed = FALSE
  /\ calls = 0 /\ messages = 0

-----------------------------------------------------------------------------
\* vga_putchar as a whole, for the timer's printk: interrupts are off there.
Index(v) == v.row * VGA_WIDTH + v.col
NextTab(col) == ((col + TAB_STOP) \div TAB_STOP) * TAB_STOP

Write(v, c) ==
  CASE c = "newline" -> [v EXCEPT !.col = 0, !.row = @ + 1]
    [] c = "return" -> [v EXCEPT !.col = 0]
    [] c = "tab" -> [v EXCEPT !.col = NextTab(@)]
    [] OTHER -> [v EXCEPT !.cell[Index(v)] = current_screen, !.col = @ + 1]

Wrap(v) == IF v.col >= VGA_WIDTH THEN [v EXCEPT !.col = 0, !.row = @ + 1] ELSE v

\* Cell k after its step of vga_scroll.
Scrolled(cell, k) == IF k < (VGA_HEIGHT - 1) * VGA_WIDTH THEN cell[k + VGA_WIDTH] ELSE Blank

\* Mutated form: one row too late.
ScrollLate(v) ==
  IF v.row > VGA_HEIGHT
  THEN [v EXCEPT !.cell = [k \in Memory |-> IF k \in Visible THEN Scrolled(@, k) ELSE @[k]],
                 !.row = VGA_HEIGHT - 1]
  ELSE v

Scroll(v) ==
  IF v.row >= VGA_HEIGHT
  THEN [v EXCEPT !.cell = [k \in Memory |-> IF k \in Visible THEN Scrolled(@, k) ELSE @[k]],
                 !.row = VGA_HEIGHT - 1]
  ELSE v

printk(v, msg) ==
  LET written[n \in 0..Len(msg)] ==
        IF n = 0 THEN v ELSE Scroll(Wrap(Write(written[n - 1], msg[n])))
  IN  written[Len(msg)]

Switching == {"save", "save2", "select", "restore"}

\* process_switch or process_signal_process, called by the timer, prints a message.
timer_message(msg) ==
  /\ messages < MaxMessages /\ messages' = messages + 1
  /\ vga' = printk(vga, msg)
  /\ disturbed' = (disturbed \/ pc \in Switching)
  /\ UNCHANGED <<screen_buffers, screen_cursors, current_screen, pc, arg, ret, reg, pos, left,
                 calls>>

-----------------------------------------------------------------------------
Goto(place) == pc' = place /\ UNCHANGED <<arg, ret, pos>>
Keep == UNCHANGED <<screen_buffers, screen_cursors, current_screen, left, disturbed, messages>>
Inside == UNCHANGED calls
Call == pc = "idle" /\ calls < MaxCalls /\ calls' = calls + 1
Load(x) == reg' = x /\ UNCHANGED vga
Store(v) == vga' = v /\ UNCHANGED reg

\* vga_putchar, by the thread.
vga_putchar(c) ==
  /\ Call /\ pc' = "start" /\ arg' = c /\ ret' = "idle"
  /\ UNCHANGED <<vga, reg, pos>> /\ Keep

putchar_start ==
  /\ pc = "start" /\ Keep /\ Inside
  /\ \/ arg = "newline" /\ Store([vga EXCEPT !.col = 0]) /\ Goto("newline")
     \/ arg = "return" /\ Store([vga EXCEPT !.col = 0]) /\ Goto("wrap")
     \/ arg = "tab" /\ Load(vga.col) /\ Goto("tab")
     \/ arg \in {"x", "space"} /\ Load(Index(vga)) /\ Goto("entry")

\* vga_putentryat
putentryat ==
  /\ pc = "entry" /\ Keep /\ Inside
  /\ Store([vga EXCEPT !.cell[reg] = IF arg = "space" THEN Blank ELSE current_screen])
  /\ Goto("column")

\* vga_column++, then the end of the row, where a row is added as for a newline.
putchar_column ==
  /\ Keep /\ Inside
  /\ \/ pc = "column" /\ Load(vga.col) /\ Goto("column+")
     \/ pc = "column+" /\ Store([vga EXCEPT !.col = reg + 1]) /\ Goto("wrap")
     \/ pc = "tab" /\ Store([vga EXCEPT !.col = NextTab(reg)]) /\ Goto("wrap")
     \/ /\ pc = "wrap" /\ UNCHANGED <<vga, reg>>
        /\ Goto(IF vga.col >= VGA_WIDTH THEN "wrapped" ELSE "check")

putchar_row ==
  /\ Keep /\ Inside
  /\ \/ pc = "wrapped" /\ Store([vga EXCEPT !.col = 0]) /\ Goto("wrapped+")
     \/ pc = "newline" /\ Load(vga.row) /\ Goto("newline+")
     \/ pc = "newline+" /\ Store([vga EXCEPT !.row = reg + 1]) /\ Goto("wrap")
     \/ pc = "wrapped+" /\ Load(vga.row) /\ Goto("wrapped++")
     \/ pc = "wrapped++" /\ Store([vga EXCEPT !.row = reg + 1]) /\ Goto("check")

\* vga_scroll cell by cell, then the row.
putchar_scroll ==
  /\ Keep /\ Inside
  /\ \/ /\ pc = "check" /\ UNCHANGED vga /\ reg' = 0
        /\ Goto(IF vga.row >= VGA_HEIGHT THEN "scroll" ELSE ret)
     \/ /\ pc = "scroll" /\ reg \in Visible
        /\ vga' = [vga EXCEPT !.cell[reg] = Scrolled(vga.cell, reg)]
        /\ reg' = reg + 1 /\ Goto("scroll")
     \/ /\ pc = "scroll" /\ reg \notin Visible
        /\ Store([vga EXCEPT !.row = VGA_HEIGHT - 1]) /\ Goto(ret)

\* vga_set_cursor_position
SetCursor(row, col) ==
  IF row < VGA_HEIGHT /\ col < VGA_WIDTH THEN [vga EXCEPT !.row = row, !.col = col] ELSE vga

\* The end of a backspace in shell_handle_input and shell_login: fetch the cursor, step
\* back, write a space, step back.
erase ==
  /\ Keep /\ UNCHANGED reg
  /\ \/ /\ Call /\ vga.col > 0
        /\ pos' = <<vga.row, vga.col>> /\ pc' = "back" /\ UNCHANGED <<vga, arg, ret>>
     \/ /\ pc = "back" /\ Inside
        /\ vga' = SetCursor(pos[1], pos[2] - 1)
        /\ pc' = "start" /\ arg' = "space" /\ ret' = "erased" /\ UNCHANGED pos
     \/ /\ pc = "erased" /\ Inside
        /\ vga' = SetCursor(pos[1], pos[2] - 1) /\ Goto("idle")

\* Cell by cell, then the cursor.
vga_clear ==
  /\ Keep
  /\ \/ Call /\ Load(0) /\ Goto("clear")
     \/ /\ pc = "clear" /\ Inside /\ reg \in Visible
        /\ vga' = [vga EXCEPT !.cell[reg] = Blank] /\ reg' = reg + 1 /\ Goto("clear")
     \/ /\ pc = "clear" /\ Inside /\ reg \notin Visible
        /\ Store([vga EXCEPT !.row = 0, !.col = 0]) /\ Goto("idle")

-----------------------------------------------------------------------------
\* handle_screen_switch: screen_save, then screen_switch, which saves again.
handle_screen_switch(n) ==
  /\ Call /\ pc' = "save" /\ arg' = n /\ reg' = 0
  /\ left' = [left EXCEPT ![current_screen] =
                [cell |-> [k \in Visible |-> vga.cell[k]], row |-> vga.row, col |-> vga.col]]
  /\ UNCHANGED <<vga, screen_buffers, screen_cursors, current_screen, ret, pos, disturbed, messages>>

screen_save ==
  /\ \/ /\ pc \in {"save", "save2"} /\ reg \in Visible
        /\ screen_buffers' = [screen_buffers EXCEPT ![current_screen][reg] = vga.cell[reg]]
        /\ reg' = reg + 1
        /\ UNCHANGED <<pc, screen_cursors>>
     \/ /\ pc \in {"save", "save2"} /\ reg \notin Visible
        /\ screen_cursors' = [screen_cursors EXCEPT ![current_screen] = <<vga.row, vga.col>>]
        /\ reg' = 0
        /\ pc' = IF pc = "save2" THEN "select" ELSE IF arg = current_screen THEN "idle" ELSE "save2"
        /\ UNCHANGED screen_buffers
  /\ UNCHANGED <<vga, current_screen, arg, ret, pos, left, disturbed, calls, messages>>

screen_switch ==
  /\ pc = "select" /\ pc' = "restore"
  /\ current_screen' = arg
  /\ UNCHANGED <<vga, screen_buffers, screen_cursors, arg, ret, reg, pos, left,
                 disturbed, calls, messages>>

\* Mutated form: the cursor stays where the other screen had it.
screen_restore_cells ==
  /\ Keep /\ Inside
  /\ \/ /\ pc = "restore" /\ reg \in Visible
        /\ vga' = [vga EXCEPT !.cell[reg] = screen_buffers[arg][reg]]
        /\ reg' = reg + 1 /\ Goto("restore")
     \/ /\ pc = "restore" /\ reg \notin Visible
        /\ UNCHANGED <<vga, reg>> /\ Goto("idle")

screen_restore ==
  /\ Keep /\ Inside
  /\ \/ /\ pc = "restore" /\ reg \in Visible
        /\ vga' = [vga EXCEPT !.cell[reg] = screen_buffers[arg][reg]]
        /\ reg' = reg + 1 /\ Goto("restore")
     \/ /\ pc = "restore" /\ reg \notin Visible
        /\ Store(SetCursor(screen_cursors[arg][1], screen_cursors[arg][2])) /\ Goto("idle")

Thread ==
  \/ \E c \in Chars : vga_putchar(c)
  \/ putchar_start \/ putentryat \/ putchar_column \/ putchar_row \/ putchar_scroll
  \/ erase \/ vga_clear
  \/ \E n \in Screens : handle_screen_switch(n)
  \/ screen_save \/ screen_switch \/ screen_restore

ScreensNext == Thread \/ \E msg \in Messages : timer_message(msg)

ScreensSpec == ScreensInit /\ [][ScreensNext]_svars

-----------------------------------------------------------------------------
\* Wherever a message interrupts, in the middle of vga_putchar, of a scroll or of a
\* switch, the cursor is at most in the row below the screen, no index the thread has
\* computed leaves the screen, and outside vga_putchar the cursor is on it.
CursorBounded ==
  /\ Index(vga) \in Memory
  /\ pc = "entry" => reg \in Visible
  /\ pc \in Switching \union {"idle", "back", "clear"} =>
       vga.row < VGA_HEIGHT /\ vga.col < VGA_WIDTH

\* Coming back to a screen shows the text and the cursor with which it was left.
ReturnsAsLeft ==
  [][pc = "restore" /\ pc' = "idle" /\ ~disturbed =>
       [cell |-> [k \in Visible |-> vga'.cell[k]], row |-> vga'.row, col |-> vga'.col]
         = left[current_screen]]_svars
=============================================================================
