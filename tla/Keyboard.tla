------------------------------ MODULE Keyboard -------------------------------
(***************************************************************************)
(* The PS/2 keyboard, kernel/drivers/keyboard.c, with the interrupt path   *)
(* of arch/x86_64/idt.c: the IRQ 1 handler puts characters in a ring,      *)
(* keyboard_getchar takes them out and sleeps in hlt while it is empty,    *)
(* keyboard_readline edits a line for the shell.                           *)
(*                                                                         *)
(* There is one processor and the gates are interrupt gates, so a handler  *)
(* runs to its end between two instructions of the reader: each handler is *)
(* one action, and the reader takes a step per access to shared state.     *)
(* The 8042 controller and the PIC are hardware, modelled as the code uses *)
(* them: the controller holds one byte in port 0x60 until it is read, and  *)
(* raises IRQ 1 on the edge when it puts one there.                        *)
(***************************************************************************)
EXTENDS Naturals, Sequences

CONSTANTS KBD_BUFFER_SIZE,  \* slots of the ring
          MaxLen,           \* keyboard_readline's max_len
          MaxScancodes      \* bound: scancodes the keyboard sends

ASSUME KeyboardAssumption ==
  /\ KBD_BUFFER_SIZE \in Nat /\ KBD_BUFFER_SIZE >= 2
  /\ MaxLen \in Nat /\ MaxLen >= 2
  /\ MaxScancodes \in Nat

NoChar == "none"     \* a 0 entry of the tables
Char == {"a", "A", "enter", "backspace", "tab"}
Printable == {"a", "A"}

\* The scancodes that the handler tells apart, and the characters of keys.
ShiftDown == "shift_down"   \* 0x2A, 0x36
ShiftUp == "shift_up"       \* 0xAA, 0xB6
Release == "release"        \* any other code with bit 0x80
Keys == {"a", "enter", "backspace", "tab", "ctrl"}
Scancodes == Keys \cup {ShiftDown, ShiftUp, Release}

kbd_scancodes == [k \in Keys |-> IF k = "ctrl" THEN NoChar ELSE k]
kbd_scancodes_shift == [kbd_scancodes EXCEPT !["a"] = "A"]

VARIABLES
  kbd_buffer, kbd_head, kbd_tail, shift_pressed,
  registered,    \* interrupt_handlers[33] is set
  device,        \* hardware: scancodes the keyboard has queued
  port,          \* hardware: the byte in port 0x60, NoChar when empty
  irq1,          \* hardware: IRQ 1 is latched in the PIC
  sent,          \* how many scancodes have been sent
  pc,            \* where the reader is
  c,             \* keyboard_getchar's local
  delivered,     \* what keyboard_getchar last returned
  idx,           \* keyboard_readline's local
  lost           \* ghost: characters dropped because the ring was full

ring == <<kbd_buffer, kbd_head, kbd_tail>>
hardware == <<device, port, irq1, sent>>
reader == <<pc, c, delivered, idx>>
vars == <<ring, shift_pressed, registered, hardware, reader, lost>>

Slots == 0 .. (KBD_BUFFER_SIZE - 1)
Succ(n) == (n + 1) % KBD_BUFFER_SIZE

\* The state in which idt_init has just executed sti.
Init ==
  /\ kbd_buffer = [s \in Slots |-> NoChar] /\ kbd_head = 0 /\ kbd_tail = 0
  /\ shift_pressed = FALSE
  /\ registered = FALSE
  /\ device = <<>> /\ port = NoChar /\ irq1 = FALSE /\ sent = 0
  /\ pc = "boot" /\ c = NoChar /\ delivered = NoChar /\ idx = 0
  /\ lost = 0

-----------------------------------------------------------------------------
(* Hardware *)

\* Keys are pressed at any time, before keyboard_init too.
KeyEvent(code) ==
  /\ sent < MaxScancodes
  /\ device' = Append(device, code)
  /\ sent' = sent + 1
  /\ UNCHANGED <<ring, shift_pressed, registered, port, irq1, reader, lost>>

FillPort ==
  /\ port = NoChar /\ device # <<>>
  /\ port' = Head(device)
  /\ device' = Tail(device)
  /\ irq1' = TRUE
  /\ UNCHANGED <<ring, shift_pressed, registered, sent, reader, lost>>

\* An interrupt that arrives in hlt resumes the reader after the instruction.
Wakes == pc' = IF pc = "halted" THEN "check" ELSE pc

-----------------------------------------------------------------------------
(* Interrupts *)

EnqueueUnchecked(ch) ==
  /\ kbd_buffer' = [kbd_buffer EXCEPT ![kbd_head] = ch]
  /\ kbd_head' = Succ(kbd_head)
  /\ UNCHANGED <<kbd_tail, lost>>

Enqueue(ch) ==
  IF Succ(kbd_head) # kbd_tail
  THEN /\ kbd_buffer' = [kbd_buffer EXCEPT ![kbd_head] = ch]
       /\ kbd_head' = Succ(kbd_head)
       /\ UNCHANGED <<kbd_tail, lost>>
  ELSE lost' = lost + 1 /\ UNCHANGED ring

CharOf(code) ==
  IF code \notin Keys THEN NoChar
  ELSE IF shift_pressed THEN kbd_scancodes_shift[code] ELSE kbd_scancodes[code]

\* irq_handler for vector 33: keyboard_interrupt_handler reads the port, and
\* without a registered handler nothing does.  Both end with the EOI.  A byte
\* that is not read stays, and no edge tells of it again.
KeyboardIRQ ==
  /\ irq1
  /\ irq1' = FALSE
  /\ Wakes
  /\ IF registered
     THEN /\ port' = NoChar
          /\ shift_pressed' = CASE port = ShiftDown -> TRUE
                                [] port = ShiftUp -> FALSE
                                [] OTHER -> shift_pressed
          /\ IF CharOf(port) # NoChar THEN Enqueue(CharOf(port)) ELSE UNCHANGED <<ring, lost>>
     ELSE UNCHANGED <<port, shift_pressed, ring, lost>>
  /\ UNCHANGED <<registered, device, sent, c, delivered, idx>>

\* pic_remap writes 0xFC to the master mask: IRQ 0 and IRQ 1 are delivered.
OnlyKeyboardUnmasked == FALSE
TimerUnmasked == TRUE

\* IRQ 0: no handler is registered, but the interrupt ends a hlt.
TimerIRQ ==
  /\ TimerUnmasked
  /\ pc = "halted" /\ Wakes
  /\ UNCHANGED <<ring, shift_pressed, registered, hardware, c, delivered, idx, lost>>

-----------------------------------------------------------------------------
(* The reader: kernel_main up to keyboard_init, then keyboard_readline in   *)
(* the shell's loop, which calls keyboard_getchar for each character.       *)

keyboard_init ==
  /\ pc = "boot"
  /\ registered' = TRUE
  /\ pc' = "check"
  /\ UNCHANGED <<ring, shift_pressed, hardware, c, delivered, idx, lost>>

keyboard_has_char == kbd_head # kbd_tail

\* keyboard_getchar's loop test; the handler may run before the hlt.
Check ==
  /\ pc = "check"
  /\ pc' = IF keyboard_has_char THEN "load" ELSE "hlt"
  /\ UNCHANGED <<ring, shift_pressed, registered, hardware, c, delivered, idx, lost>>

Hlt ==
  /\ pc = "hlt"
  /\ pc' = "halted"
  /\ UNCHANGED <<ring, shift_pressed, registered, hardware, c, delivered, idx, lost>>

Load ==
  /\ pc = "load"
  /\ c' = kbd_buffer[kbd_tail]
  /\ pc' = "advance"
  /\ UNCHANGED <<ring, shift_pressed, registered, hardware, delivered, idx, lost>>

Advance ==
  /\ pc = "advance"
  /\ kbd_tail' = Succ(kbd_tail)
  /\ delivered' = c
  /\ pc' = "edit"
  /\ UNCHANGED <<kbd_buffer, kbd_head, shift_pressed, registered, hardware, c, idx, lost>>

\* keyboard_readline's loop body on the character, and its loop test: a line
\* that reaches max_len - 1 characters ends without waiting for enter.
LineFull(n) == n >= MaxLen - 1

Edit ==
  LET n == CASE delivered = "backspace" -> IF idx > 0 THEN idx - 1 ELSE 0
             [] delivered \in Printable -> idx + 1
             [] OTHER -> idx
  IN /\ pc = "edit"
     /\ pc' = IF delivered = "enter" \/ LineFull(n) THEN "line" ELSE "check"
     /\ idx' = n
     /\ c' = NoChar
     /\ UNCHANGED <<ring, shift_pressed, registered, hardware, delivered, lost>>

\* buffer[idx] = '\0', and the shell runs the line and asks for the next one.
EndLine ==
  /\ pc = "line"
  /\ idx' = 0
  /\ pc' = "check"
  /\ UNCHANGED <<ring, shift_pressed, registered, hardware, c, delivered, lost>>

-----------------------------------------------------------------------------
Reader == keyboard_init \/ Check \/ Hlt \/ Load \/ Advance \/ Edit \/ EndLine
Device == (\E code \in Scancodes : KeyEvent(code)) \/ FillPort

Next == Reader \/ Device \/ KeyboardIRQ \/ TimerIRQ

Spec == Init /\ [][Next]_vars

\* The processor runs, hardware delivers bytes and latched interrupts, and the
\* timer keeps ticking; nobody has to press keys.
FairSpec == /\ Spec
            /\ WF_vars(Reader) /\ WF_vars(FillPort)
            /\ WF_vars(KeyboardIRQ) /\ WF_vars(TimerIRQ)

-----------------------------------------------------------------------------
(* Properties *)

\* How many characters wait in the ring, and which.
Waiting == (kbd_head + KBD_BUFFER_SIZE - kbd_tail) % KBD_BUFFER_SIZE
Queue == [n \in 1 .. Waiting |-> kbd_buffer[(kbd_tail + n - 1) % KBD_BUFFER_SIZE]]

\* The type of the state.
TypeOK ==
  /\ kbd_buffer \in [Slots -> Char \cup {NoChar}]
  /\ kbd_head \in Slots /\ kbd_tail \in Slots
  /\ shift_pressed \in BOOLEAN /\ registered \in BOOLEAN /\ irq1 \in BOOLEAN
  /\ device \in Seq(Scancodes) /\ port \in Scancodes \cup {NoChar}
  /\ sent \in Nat
  /\ pc \in {"boot", "check", "hlt", "halted", "load", "advance", "edit", "line"}
  /\ c \in Char \cup {NoChar} /\ delivered \in Char \cup {NoChar}
  /\ idx \in 0 .. (MaxLen - 1)
  /\ lost \in Nat

\* The ring and the two sides that touch it implement a bounded FIFO queue:
\* nothing is lost, duplicated or reordered below KBD_BUFFER_SIZE - 1 waiting
\* characters, whatever the handler interrupts.
Abs == INSTANCE CharQueue WITH Capacity <- KBD_BUFFER_SIZE - 1, queue <- Queue
ImplementsCharQueue == Abs!Spec

\* A character typed between the reader's test and its hlt does not sleep in the
\* ring for ever: the reader catches up with the keyboard again and again.
ReaderCatchesUp == []<>(kbd_head = kbd_tail)
==============================================================================
