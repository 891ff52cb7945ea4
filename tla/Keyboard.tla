------------------------------ MODULE Keyboard ------------------------------
(***************************************************************************)
(* The keyboard driver, kernel/keyboard.c with its key map                 *)
(* kernel/keymap.us.pc.c.  A key that is pressed or released makes one     *)
(* scan code, or two for the keys of the extended block; each code makes   *)
(* an interrupt, and keys may be pressed while codes wait in the           *)
(* controller.  The driver turns codes into events of the root window.     *)
(***************************************************************************)
EXTENDS Integers, Sequences, SequencesExt

CONSTANTS
  Key,           \* scan codes of the plain keys there are
  Extended,      \* scan codes of the keys of the extended block
  MaxTyped       \* bound: keys pressed and released

KeyboardAssumption ==
  Key \subseteq 1..88 /\ Extended \subseteq 1..88 /\ MaxTyped \in Nat

SHIFT == 1
ALT == 2
CTRL == 3
CAPSLOCK == 4
NUMLOCK == 5
ALPHA == 6
NUMPAD == 8
DEL == 127
KEY_INVALID == 255
KEY_UP == 134
EXTRA == 224                                  \* KEYCODE_EXTRA

VARIABLES
  held,          \* the keys that are down
  codes,         \* scan codes that wait in the controller
  shift_mode, alt_mode, ctrl_mode, capslock_mode, numlock_mode, expect_extra,
  posted,        \* events posted to the root window
  rebooted,      \* reboot() was called
  meant,         \* history: the events the keys stand for
  typed

modes == <<shift_mode, alt_mode, ctrl_mode, capslock_mode, numlock_mode, expect_extra>>
vars == <<held, codes, modes, posted, rebooted, meant, typed>>

Event == [type : {"down", "up"}, code : 0..65535]

TypeOK ==
  /\ held \subseteq Key \cup {1000 + c : c \in Extended}
  /\ codes \in Seq(0..255)
  /\ {shift_mode, alt_mode, ctrl_mode, capslock_mode, numlock_mode, expect_extra} \subseteq {0, 1}
  /\ posted \in Seq(Event) /\ rebooted \in BOOLEAN /\ typed \in 0..MaxTyped

Init ==
  /\ held = {} /\ codes = << >> /\ posted = << >> /\ meant = << >> /\ rebooted = FALSE /\ typed = 0
  /\ shift_mode = 0 /\ alt_mode = 0 /\ ctrl_mode = 0 /\ capslock_mode = 0 /\ numlock_mode = 0
  /\ expect_extra = 0

-----------------------------------------------------------------------------
(* The key map: one key of each kind, and the codes the driver mistakes for others *)

Entry(n, s, c, sp) == [normal |-> n, shifted |-> s, ctrled |-> c, special |-> sp]

keymap(c) ==
  CASE c = 2 -> Entry(49, 33, 49, 0)                  \* 1 and !
    [] c = 6 -> Entry(53, 37, 53, 0)                  \* 5 and %
    [] c = 30 -> Entry(97, 65, 1, ALPHA)              \* a, A and ^A
    [] c \in {42, 54} -> Entry(KEY_INVALID, KEY_INVALID, KEY_INVALID, SHIFT)
    [] c = 29 -> Entry(KEY_INVALID, KEY_INVALID, KEY_INVALID, CTRL)
    [] c = 56 -> Entry(KEY_INVALID, KEY_INVALID, KEY_INVALID, ALT)
    [] c = 58 -> Entry(KEY_INVALID, KEY_INVALID, KEY_INVALID, CAPSLOCK)
    [] c = 69 -> Entry(KEY_INVALID, KEY_INVALID, KEY_INVALID, NUMLOCK)
    [] c = 72 -> Entry(KEY_UP, 56, 56, NUMPAD)
    [] c = 83 -> Entry(DEL, DEL, DEL, 0)
    [] OTHER -> Entry(KEY_INVALID, KEY_INVALID, KEY_INVALID, 0)

\* A char of the map as the uint16_t of an event: it is signed.
Posted(c) == IF c >= 128 THEN c + 65536 - 256 ELSE c

\* The character of a key in the modes the driver is in.
Character(k) ==
  IF capslock_mode = 1 THEN (IF k.special = ALPHA /\ shift_mode = 0 THEN k.shifted ELSE k.normal)
  ELSE IF numlock_mode = 1
         THEN (IF k.special = NUMPAD /\ shift_mode = 0 THEN k.shifted ELSE k.normal)
  ELSE IF shift_mode = 1 THEN k.shifted ELSE IF ctrl_mode = 1 THEN k.ctrled ELSE k.normal

\* What a mode becomes when its key goes down (1) or up (0).
Follows(k, special, mode, direction) == IF k.special = special THEN direction ELSE mode
\* A lock changes when its key goes up.
Locks(k, special, mode, direction) ==
  IF k.special = special /\ direction = 0 THEN 1 - mode ELSE mode

keyboard_interrupt_l2(code) ==
  LET direction == IF code >= 128 THEN 0 ELSE 1
      k == keymap(code % 128)
      plain == k.special \notin {SHIFT, ALT, CTRL, CAPSLOCK, NUMLOCK}
      reboots == plain /\ direction = 1 /\ ctrl_mode = 1 /\ alt_mode = 1 /\ k.normal = DEL
  IN  /\ shift_mode' = Follows(k, SHIFT, shift_mode, direction)
      /\ alt_mode' = Follows(k, ALT, alt_mode, direction)
      /\ ctrl_mode' = Follows(k, CTRL, ctrl_mode, direction)
      /\ capslock_mode' = Locks(k, CAPSLOCK, capslock_mode, direction)
      /\ numlock_mode' = Locks(k, NUMLOCK, numlock_mode, direction)
      /\ rebooted' = reboots
      /\ posted' = IF plain /\ ~reboots
                     THEN Append(posted, [type |-> IF direction = 1 THEN "down" ELSE "up",
                                          code |-> Posted(Character(k))])
                     ELSE posted

\* The codes that follow KEYCODE_EXTRA and are not ignored, with what they are replaced by.
Extra == [c \in {72, 66, 75, 77} |->
            CASE c = 72 -> KEY_UP [] c = 66 -> 135 [] c = 75 -> 136 [] c = 77 -> 137]

\* expect_extra after a code.  Mutant: it is only cleared by a code that is not ignored.
Expects_Known(code) == IF code = EXTRA THEN 1 ELSE IF code \in DOMAIN Extra THEN 0 ELSE expect_extra
Expects(code) == IF code = EXTRA THEN 1 ELSE 0

keyboard_interrupt ==
  LET code == Head(codes)
      extra == expect_extra = 1
  IN  /\ codes # << >> /\ ~rebooted
      /\ codes' = Tail(codes) /\ expect_extra' = Expects(code)
      /\ IF code = EXTRA \/ (extra /\ code \notin DOMAIN Extra)
           THEN UNCHANGED <<shift_mode, alt_mode, ctrl_mode, capslock_mode, numlock_mode, posted,
                            rebooted>>
           ELSE keyboard_interrupt_l2(IF extra THEN Extra[code] ELSE code)
      /\ UNCHANGED <<held, meant, typed>>

-----------------------------------------------------------------------------
(* The keys *)

Is(special) == \E c \in held : c < 1000 /\ keymap(c).special = special
Toggled(special, evs) ==
  Len(SelectSeq(evs, LAMBDA e : e.special = special /\ e.type = "up")) % 2 = 1

\* What a key stands for: a letter is a capital with shift or with the lock, but not both; a
\* digit and its sign; a key of the pad its digit with the lock and its move without.
Letter(k, shift, caps, ctrl) ==
  IF shift # caps THEN k.shifted ELSE IF ctrl /\ ~shift THEN k.ctrled ELSE k.normal

Means(c, type) ==
  LET k == keymap(c)
  IN  [special |-> k.special, type |-> type, key |-> c, shift |-> Is(SHIFT), ctrl |-> Is(CTRL),
       caps |-> Toggled(CAPSLOCK, meant)]

Press(c) ==
  /\ ~rebooted /\ typed < MaxTyped /\ typed' = typed + 1
  /\ c \notin held /\ held' = held \cup {c}
  /\ codes' = codes \o IF c > 1000 THEN <<EXTRA, c - 1000>> ELSE <<c>>
  /\ meant' = IF c > 1000 THEN meant ELSE Append(meant, Means(c, "down"))
  /\ UNCHANGED <<modes, posted, rebooted>>

Release(c) ==
  /\ ~rebooted /\ typed < MaxTyped /\ typed' = typed + 1
  /\ c \in held /\ held' = held \ {c}
  /\ codes' = codes \o IF c > 1000 THEN <<EXTRA, c - 1000 + 128>> ELSE <<c + 128>>
  /\ meant' = IF c > 1000 THEN meant ELSE Append(meant, Means(c, "up"))
  /\ UNCHANGED <<modes, posted, rebooted>>

Quiet == (rebooted \/ typed = MaxTyped) /\ UNCHANGED vars

Next ==
  \/ \E c \in Key \cup {1000 + e : e \in Extended} : Press(c) \/ Release(c)
  \/ keyboard_interrupt
  \/ Quiet

Spec == Init /\ [][Next]_vars

-----------------------------------------------------------------------------
Characters == SelectSeq(meant, LAMBDA e : e.special \in {0, ALPHA, NUMPAD})

\* When the codes are all read the modes are those of the keys that are down: none is left
\* over from a key that was released, also when keys of the extended block came between.
ModesFollow ==
  codes = << >> /\ ~rebooted =>
    /\ shift_mode = (IF Is(SHIFT) THEN 1 ELSE 0)
    /\ ctrl_mode = (IF Is(CTRL) THEN 1 ELSE 0)
    /\ alt_mode = (IF Is(ALT) THEN 1 ELSE 0)

\* Every letter that was typed is posted once, in the order of typing, as what it stood for
\* when it was typed; however late its code is read.
LettersRight ==
  codes = << >> /\ ~rebooted =>
    /\ Len(posted) = Len(Characters)
    /\ \A i \in DOMAIN posted :
         LET e == Characters[i]
         IN  e.special = ALPHA =>
               posted[i] = [type |-> e.type,
                            code |-> Letter(keymap(e.key), e.shift, e.caps, e.ctrl /\ ~e.caps)]
=============================================================================
