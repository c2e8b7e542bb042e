-------------------------------- MODULE Desktop --------------------------------
(***************************************************************************)
(* The desktop: windows, the Menu popup, the "My Computer" icon and file   *)
(* manager (Framebuffer.c), the cursor (ui_extra.c), the mouse (PS2Mouse.c)*)
(* and the window system calls (Syscall.c).  Everything is painted over    *)
(* what is on the screen, and what was there is saved beforehand and put   *)
(* back later; nothing knows what lies above or below it.                  *)
(*                                                                         *)
(* The screen is a grid of cells above the taskbar.  A window is as wide   *)
(* as it was asked to be, more than the screen too, and as high as the     *)
(* grid: row 0 is its title, whose last cell closes it, row 1 its body.  A *)
(* tick and a system call are each one step: both run with interrupts      *)
(* masked.                                                                 *)
(***************************************************************************)
EXTENDS Integers, Sequences, FiniteSets

CONSTANTS
  Cols,     \* columns of the grid
  WinW,     \* the width of My Computer's window
  Widths,   \* the widths that tasks ask for
  Slot,     \* the slots of g_windows: 1 .. n
  App,      \* the tasks that make system calls
  MaxDepth, \* bound: how deep the folders are
  MaxMade   \* bound: how many windows are created

ASSUME DesktopAssumption ==
  /\ {Cols, WinW} \cup Widths \subseteq Nat \ {0} /\ WinW < Cols
  /\ IsFiniteSet(Slot) /\ Slot = 1 .. Cardinality(Slot) /\ App \subseteq Nat

VARIABLES
  ui,    \* what the code keeps, and the screen
  prev,  \* g_prev_buttons: the left button as the desktop remembers it
  power, \* whether the machine runs
  held,  \* history: the left button at the tick before
  own,   \* history: no task closed a window of somebody else
  made   \* how many windows there were

vars == <<ui, prev, power, held, own, made>>

Cell == (0 .. Cols - 1) \X {0, 1}
IconCell == <<Cols - 1, 0>>
MenuCell == <<0, 1>>
Button == <<0, 2>>              \* the Menu button, in the taskbar
Kernel == -1
NoWindow == -1
None == <<>>
Free == [used |-> FALSE, owner |-> Kernel, x |-> 0, w |-> 0, saved |-> None, drag |-> -1]

\* What is stacked: slots, the popup and the cursor.
Popup == 0
Cursor == -1

DrivesView == -1
Drives == <<"drive">>           \* one mount, "/"

\* What a cell of a window shows: the file manager's list, or a white body.
Face(fm, mine) == IF mine THEN <<"fm", fm.list>> ELSE <<"white">>
IconFace(hover) == IF hover THEN <<"halo">> ELSE <<"icon">>
Wallpaper(hover) ==
  [c \in Cell |-> IF c = IconCell THEN IconFace(hover) ELSE <<"desk">>]

\* clean says whether there was memory to save what is below the icon.  stack and
\* tidy are history: what was painted, in order, and whether nothing covered was
\* ever taken away or painted anew, nor closed by somebody else, and what was
\* painted over was saved.
Init ==
  /\ \E clean \in BOOLEAN :
     ui = [scr |-> Wallpaper(FALSE), win |-> [i \in Slot |-> Free],
           menu |-> [open |-> FALSE, hover |-> -1, saved |-> None],
           hover |-> FALSE, clean |-> clean, fx |-> NoWindow,
           fm |-> [dir |-> DrivesView, list |-> <<>>],
           cur |-> [at |-> Button, saved |-> None],
           bufs |-> 0, stack |-> <<>>, tidy |-> TRUE]
  /\ prev = FALSE /\ held = FALSE /\ power = "on" /\ own = TRUE /\ made = 0

-----------------------------------------------------------------------------
(* Painting                                                                *)

Columns(w) == w.x .. w.x + w.w - 1
Area(w) == (Columns(w) \X {0, 1}) \cap Cell

Cells(s, item) ==
  CASE item = Popup -> {MenuCell}
    [] item = Cursor -> {s.cur.at} \cap Cell
    [] OTHER -> Area(s.win[item])

\* No item painted later lies over this one.
Uncovered(s, item) ==
  \A k \in DOMAIN s.stack : s.stack[k] = item =>
    \A l \in k + 1 .. Len(s.stack) : Cells(s, s.stack[l]) \cap Cells(s, item) = {}

Paint(s, C, v) == [s EXCEPT !.scr = [c \in Cell |-> IF c \in C THEN v ELSE @[c]]]
Under(s, C) == [c \in C |-> s.scr[c]]
PutBack(s, saved) ==
  [s EXCEPT !.scr = [c \in Cell |-> IF c \in DOMAIN saved THEN saved[c] ELSE @[c]]]

Without(stack, item) ==
  LET K == {k \in DOMAIN stack : stack[k] = item}
      k == CHOOSE k \in K : TRUE
  IN IF K = {} THEN stack
     ELSE [l \in 1 .. Len(stack) - 1 |-> IF l < k THEN stack[l] ELSE stack[l + 1]]

\* An item is put on top, changed where it lies, or taken away.
On(s, item) == [s EXCEPT !.stack = Append(@, item)]
Touch(s, item) == [s EXCEPT !.tidy = @ /\ Uncovered(s, item)]
Off(s, item) == [Touch(s, item) EXCEPT !.stack = Without(@, item)]

\* Bound: what a screen shows that is not tidy is not followed.
Unknown(w) == [w EXCEPT !.saved = IF w.saved = None THEN None ELSE <<None>>]
Settled(s) ==
  IF s.tidy THEN s
  ELSE [s EXCEPT
          !.scr = Wallpaper(FALSE), !.stack = <<>>, !.menu.saved = <<None>>,
          !.clean = TRUE, !.hover = FALSE,
          !.cur = [at |-> Button, saved |-> None],
          !.win = [i \in Slot |-> Unknown(s.win[i])]]

-----------------------------------------------------------------------------
(* Windows                                                                 *)

\* Without a buffer nothing is saved, and a window that does not fit or lies
\* outside the screen saves other cells than its own.
SaveBg(s, i, got) ==
  LET w == s.win[i]  has == w.saved # None \/ got IN
  [s EXCEPT !.win[i].saved = IF has THEN <<Under(s, Area(w))>> ELSE None,
            !.bufs = IF w.saved = None /\ got THEN @ + 1 ELSE @,
            !.tidy = @ /\ has /\ Columns(w) \subseteq 0 .. Cols - 1]

RestoreBg(s, i) ==
  IF s.win[i].saved = None THEN s ELSE PutBack(s, s.win[i].saved[1])

\* ui_win_draw, and fm_draw after it where the window is My Computer's.
Draw(s, i, mine) == Paint(s, Area(s.win[i]), Face(s.fm, mine))

FreeSlots(s) == {i \in Slot : ~s.win[i].used}
Lowest(S) == CHOOSE i \in S : \A j \in S : i <= j

\* Where a window is put: the further right, the more there are.
Places(w) == IF w > Cols THEN {0} ELSE 0 .. Cols - w

\* memset forgets what the slot held.
WinCreate(s, owner, x, w, got) ==
  LET i == Lowest(FreeSlots(s))
      a == [s EXCEPT !.win[i] = [Free EXCEPT !.used = TRUE, !.owner = owner, !.x = x,
                                                     !.w = w]]
  IN On(Draw(SaveBg(a, i, got), i, FALSE), i)

Freed(s, i) ==
  [s EXCEPT !.win[i] = Free, !.bufs = IF s.win[i].saved = None THEN @ ELSE @ - 1]

WinClose(s, i) == Freed(RestoreBg(Off(s, i), i), i)

\* Mutant of Moved: the new place is saved before the old one is restored.
MovedLate(s, i, x, got) ==
  LET a == SaveBg([s EXCEPT !.win[i].x = x], i, got) IN
  [RestoreBg(s, i) EXCEPT !.win = a.win, !.bufs = a.bufs, !.tidy = a.tidy]

Moved(s, i, x, got) == SaveBg([RestoreBg(s, i) EXCEPT !.win[i].x = x], i, got)

WinMove(s, i, x, got) ==
  On(Draw(Moved(Off(s, i), i, x, got), i, i = s.fx), i)

-----------------------------------------------------------------------------
(* My Computer.  (g_fm_busy refuses a call while another one reads the     *)
(* disk; interrupts are masked, so there is none.)                         *)

\* A directory lists ".." and what it holds, or could not be opened.
Dir(files) == <<"up">> \o files

Opened(fm, kind, files) ==
  CASE kind = "drive" -> [dir |-> 0, list |-> Dir(files)]
    [] kind = "up" /\ fm.dir = 0 -> [dir |-> DrivesView, list |-> Drives]
    [] kind = "up" /\ fm.dir > 0 -> [dir |-> fm.dir - 1, list |-> Dir(files)]
    [] kind = "dir" -> [dir |-> fm.dir + 1, list |-> Dir(files)]
    [] OTHER -> fm

FmClick(s, i, p, files) ==
  LET k == p[1] - s.win[i].x + 1
      kind == IF k \in DOMAIN s.fm.list THEN s.fm.list[k] ELSE "none"
  IN IF kind \in {"none", "file"} \/ (kind = "dir" /\ s.fm.dir = MaxDepth)
     THEN s
     ELSE Touch(Draw([s EXCEPT !.fm = Opened(s.fm, kind, files)], i, TRUE), i)

\* The icon opens a window unless there is one; fm_reset starts at the drives.
IconClick(s, x, got) ==
  IF s.fx # NoWindow /\ s.win[s.fx].used THEN s
  ELSE IF FreeSlots(s) = {} THEN [s EXCEPT !.fx = NoWindow]
  ELSE LET i == Lowest(FreeSlots(s))
           a == [WinCreate(s, Kernel, x, WinW, got) EXCEPT
                   !.fx = i, !.fm = [dir |-> DrivesView, list |-> Drives]]
       IN Draw(a, i, TRUE)

-----------------------------------------------------------------------------
(* The mouse                                                               *)

\* The popup has a buffer from the first time that there is memory for one.  (What
\* is in it while the popup is closed is of no use to anybody.)
MenuClose(s) ==
  LET a == [Off(s, Popup) EXCEPT !.menu.open = FALSE] IN
  IF s.menu.saved = None THEN a
  ELSE [PutBack(a, s.menu.saved[1]) EXCEPT !.menu.saved = <<None>>]

MenuOpen(s, got) ==
  LET has == s.menu.saved # None \/ got
      below == IF has THEN <<Under(s, {MenuCell})>> ELSE None
  IN On([Paint(s, {MenuCell}, <<"menu", -1>>) EXCEPT
           !.menu = [open |-> TRUE, hover |-> -1, saved |-> below],
           !.tidy = @ /\ has], Popup)

MenuToggle(s, got) == IF s.menu.open THEN MenuClose(s) ELSE MenuOpen(s, got)

\* h is the item below the pointer, -1 if there is none.  (Bound: one item;
\* Shutdown and Reboot both end here.)
MenuStep(s, p, h, click) ==
  IF ~s.menu.open THEN s
  ELSE LET a == IF h = s.menu.hover THEN s
                ELSE Touch(Paint([s EXCEPT !.menu.hover = h], {MenuCell}, <<"menu", h>>),
                           Popup)
       IN IF click /\ p # MenuCell THEN MenuClose(a) ELSE a

\* The halo goes away with what was saved below it.
IconStep(s, p, click, x, got) ==
  LET over == p = IconCell
      free == \A k \in DOMAIN s.stack : IconCell \notin Cells(s, s.stack[k])
      a == IF over = s.hover THEN s
           ELSE [Paint(s, {IconCell}, IconFace(over)) EXCEPT
                   !.hover = over, !.tidy = @ /\ free /\ (over \/ s.clean)]
  IN IF click /\ over THEN IconClick(a, x, got) ELSE a

\* The left edge is not looked at again.
Within(x, w) ==
  LET a == IF x < 0 THEN 0 ELSE x IN IF a + w > Cols THEN Cols - w ELSE a

\* Mutant of Forgets: the window is closed and its number stays.
ForgetsNot(s, i) == s.fx

Forgets(s, i) == IF i = s.fx THEN NoWindow ELSE s.fx

\* One window of the loop: its cross, its body, its title, its dragging.
WindowStep(s, i, p, click, left, files, got) ==
  LET w == s.win[i]
      body == click /\ i = s.fx /\ p \in Area(w) /\ p[2] = 1
      a == IF body THEN FmClick(s, i, p, files) ELSE s
      b == IF click /\ p \in Area(w) /\ p[2] = 0
           THEN [a EXCEPT !.win[i].drag = p[1] - w.x] ELSE a
      c == IF left THEN b ELSE [b EXCEPT !.win[i].drag = -1]
      x == Within(p[1] - c.win[i].drag, w.w)
  IN IF ~w.used THEN s
     ELSE IF click /\ p = <<w.x + w.w - 1, 0>>
     THEN [WinClose(s, i) EXCEPT !.fx = Forgets(s, i)]
     ELSE IF c.win[i].drag # -1 /\ x # w.x THEN WinMove(c, i, x, got) ELSE c

\* The loop over all slots.
WindowSteps(s, p, click, left, files, got) ==
  LET loop[n \in 0 .. Cardinality(Slot)] ==
        IF n = 0 THEN s ELSE WindowStep(loop[n - 1], n, p, click, left, files, got)
  IN loop[Cardinality(Slot)]

CursorOff(s) ==
  IF s.cur.saved = None THEN s
  ELSE [PutBack(Off(s, Cursor), s.cur.saved[1]) EXCEPT !.cur.saved = None]

CursorOn(s, p) ==
  LET C == {p} \cap Cell IN
  On([Paint(s, C, <<"cursor">>) EXCEPT !.cur = [at |-> p, saved |-> <<Under(s, C)>>]],
     Cursor)

\* Mutant of Remembers: the button is not remembered when the Menu returns.
RemembersNot(p, left) == IF p = Button THEN prev ELSE left

Remembers(p, left) == left

\* The choices a tick has, where it makes any.
Clicks(p, left, C) == left /\ ~prev /\ p \in C
Items(p) == IF ui.menu.open /\ p = MenuCell THEN {-1, 0} ELSE {-1}
Where(p, left) == IF Clicks(p, left, {IconCell}) THEN 0 .. Cols - WinW ELSE {0}
Got(p, left) ==
  IF Clicks(p, left, {IconCell}) \/ (ui.menu.saved = None /\ Clicks(p, left, {Button}))
  THEN BOOLEAN ELSE {TRUE}
Files(p, left) ==
  IF ui.fx # NoWindow /\ Clicks(p, left, {c \in Cell : c[2] = 1})
  THEN {<<>>, <<"dir">>} ELSE {<<>>}

\* Whatever bytes the mouse sends, or loses, the pointer stays on the screen.
\* (Bound: of the taskbar it reaches the Menu button only.)
Pointer == Cell \cup {Button}

\* Shutdown and reboot: whatever they try, they do not return.
SwitchOff == power' = "off"

\* A tick of the timer with the pointer at p.
Tick(p, left, h, x, files, got) ==
  LET click == left /\ ~prev
      a == CursorOff(ui)
      m == MenuStep(a, p, h, click)
      s == IF click /\ p = Button THEN MenuToggle(a, got)
           ELSE WindowSteps(IconStep(m, p, click, x, got), p, click, left, files, got)
  IN /\ power = "on"
     /\ held' = left /\ prev' = Remembers(p, left)
     /\ IF ui.menu.open /\ click /\ h # -1
        THEN SwitchOff /\ ui' = m /\ UNCHANGED made
        ELSE /\ ui' = Settled(CursorOn(s, p)) /\ UNCHANGED power
             /\ made' = IF s.fx # a.fx /\ s.fx # NoWindow THEN made + 1 ELSE made
  /\ made' <= MaxMade /\ UNCHANGED own

-----------------------------------------------------------------------------
(* System calls                                                            *)

Create(owner, x, w, got) ==
  /\ power = "on" /\ FreeSlots(ui) # {} /\ made < MaxMade
  /\ ui' = Settled(WinCreate(ui, owner, x, w, got)) /\ made' = made + 1
  /\ UNCHANGED <<prev, power, held, own>>

\* Nobody checks whose window it is.
Close(owner, i) ==
  /\ power = "on" /\ ui.win[i].used
  /\ ui' = Settled([WinClose(ui, i) EXCEPT !.tidy = @ /\ ui.win[i].owner = owner])
  /\ own' = (own /\ ui.win[i].owner = owner)
  /\ UNCHANGED <<prev, power, held, made>>

\* Nor whether the place is on the screen.
Move(i, x, got) ==
  /\ power = "on" /\ ui.win[i].used
  /\ ui' = Settled(WinMove(ui, i, x, got))
  /\ UNCHANGED <<prev, power, held, own, made>>

Owned(owner) == {i \in Slot : ui.win[i].used /\ ui.win[i].owner = owner}

Exit(owner) ==
  /\ power = "on" /\ Owned(owner) # {}
  /\ LET loop[n \in 0 .. Cardinality(Slot)] ==
           IF n = 0 THEN ui
           ELSE IF n \in Owned(owner) THEN WinClose(loop[n - 1], n) ELSE loop[n - 1]
     IN ui' = Settled(loop[Cardinality(Slot)])
  /\ UNCHANGED <<prev, power, held, own, made>>

Next ==
  \/ \E p \in Pointer, left \in BOOLEAN :
       \E h \in Items(p), x \in Where(p, left), got \in Got(p, left),
          files \in Files(p, left) : Tick(p, left, h, x, files, got)
  \/ \E a \in App, w \in Widths, got \in BOOLEAN : \E x \in Places(w) : Create(a, x, w, got)
  \/ \E a \in App, i \in Slot : Close(a, i)
  \/ \E i \in Slot, x \in -1 .. Cols - WinW, got \in BOOLEAN :
       (got \/ ui.win[i].saved = None) /\ Move(i, x, got)
  \/ \E a \in App : Exit(a)

Spec == Init /\ [][Next]_vars

-----------------------------------------------------------------------------
(* Properties                                                              *)

Shown(c) ==
  LET T == {k \in DOMAIN ui.stack : c \in Cells(ui, ui.stack[k])}
      i == ui.stack[CHOOSE k \in T : \A l \in T : l <= k]
  IN IF T = {} THEN Wallpaper(ui.hover)[c]
     ELSE IF i = Popup THEN <<"menu", ui.menu.hover>>
     ELSE IF i = Cursor THEN <<"cursor">>
     ELSE Face(ui.fm, ui.win[i].owner = Kernel)

\* The screen shows every window, the popup, the icon and the cursor where they
\* are, the file manager with the list a click would go by, and the desktop
\* elsewhere; as long as
\*   - nothing covered is taken away or painted anew,
\*   - no task closes a window of somebody else,
\*   - every window fits and lies on the screen,
\*   - the windows, the popup and an icon the pointer leaves have buffers for what
\*     they cover.
Composed == power = "on" /\ ui.tidy => \A c \in Cell : ui.scr[c] = Shown(c)

\* As long as tasks close only their own windows, My Computer's number is that
\* of a window the kernel made, or of none; and always every buffer below a
\* window belongs to an open one, so that none is forgotten.
OwnNumber ==
  /\ own /\ ui.fx # NoWindow => ui.win[ui.fx].used /\ ui.win[ui.fx].owner = Kernel
  /\ ui.bufs = Cardinality({i \in Slot : ui.win[i].used /\ ui.win[i].saved # None})

\* A press acts once, however many ticks the button is held: the Menu, My
\* Computer and the power change only when it goes down.
PressedOnce ==
  [][held => /\ ui'.menu.open = ui.menu.open
             /\ ui'.fx = ui.fx
             /\ power' = power]_vars

=============================================================================
