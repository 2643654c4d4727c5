------------------------------ MODULE Console -------------------------------
(***************************************************************************)
(* The text console, src/src/drivers/console.c, with the back buffer of    *)
(* src/src/drivers/vesa.c, under the shell's loop (prompt, getstr, answer) *)
(* and under interrupt handlers that print: echo replies (icmp.c) and, in  *)
(* the HTTP server, errors of the drive (ide.c).  A handler may break in   *)
(* between any two steps and prints to the end before the shell goes on.   *)
(*                                                                         *)
(* The build does not optimise, so that each use of the cursor reads it    *)
(* again: what an actor still has to do is a sequence of such steps.  The  *)
(* screen is kept in cells; a cell holds the glyphs drawn over each other  *)
(* in it.  console.buffer is written and never read: only where it is      *)
(* written is kept.                                                        *)
(***************************************************************************)
EXTENDS Integers, SequencesExt

CONSTANTS
  cols, rows,
  Word,               \* values of an unsigned int
  Prompt,             \* characters of the shell's prompt
  max_size,           \* size of the shell's line
  Keys,               \* characters the keyboard sends
  Messages,           \* formats and arguments that commands print
  Replies,            \* the same, of handlers
  MaxKeys, MaxReplies \* bounds: keys typed, messages of handlers

VARIABLES
  console,            \* cursor_x and cursor_y
  dirty_rect,
  back, front,        \* g_back_buffer and g_vbe_buffer, [row -> [column -> glyphs]]
  todo,               \* steps that each actor has before it
  shell,              \* where the shell is, and its line
  count,              \* keys typed and messages of handlers so far
  lines,              \* ghost: the last lines of all that was printed
  broken,             \* ghost: a handler broke into a step of the shell since the last clear
  plain               \* ghost: the line being typed is in one piece on the screen

screen == <<console, dirty_rect, back, front>>
ghosts == <<lines, broken, plain>>
vars == <<screen, todo, shell, count, ghosts>>

NL == "NL"
BS == "BS"
TAB == "TAB"          \* stands for all that is neither a newline nor printable
Actors == {"shell", "handler"}
Rows == 0 .. (rows - 1)
Cols == 0 .. (cols - 1)
Lower(i, j) == IF i < j THEN i ELSE j
Upper(i, j) == IF i > j THEN i ELSE j
Blank == [y \in Rows |-> [x \in Cols |-> {}]]

-----------------------------------------------------------------------------
(* console_vprintf: a format is a sequence of characters and conversions.  *)

Digit == <<"0", "1", "2", "3", "4", "5", "6", "7", "8", "9", "a", "b", "c", "d", "e", "f">>

(* The digits from the last to the first. *)
DigitsOf(val, base) ==
  LET d[v \in Nat] == IF v < base THEN <<Digit[v + 1]>>
                      ELSE <<Digit[(v % base) + 1]>> \o d[v \div base]
  IN d[val]

Padded(d, width, pad) == [i \in 1 .. Upper(Len(d), width) |-> IF i <= Len(d) THEN d[i] ELSE pad]

format_number(val, base, width, pad) == Reverse(Padded(DigitsOf(val % Word, base), width, pad))

(* %u is printed like %x. *)
Base(conv) == IF conv = "d" THEN 10 ELSE 16

Converted(p) == IF p.conv = "c" THEN <<p.val>> ELSE format_number(p.val, Base(p.conv), p.width, p.pad)

console_vprintf(format) == FlattenSeq([i \in DOMAIN format |-> Converted(format[i])])

-----------------------------------------------------------------------------
(* Steps *)

Step(name) == [op |-> name]
StepN(name, n) == [op |-> name, n |-> n]
StepC(name, c) == [op |-> name, c |-> c]
Mark(x, y, w, h) == [op |-> "mark", x1 |-> x, y1 |-> y, x2 |-> (x + w) % Word, y2 |-> (y + h) % Word]

Puts(s) == [i \in DOMAIN s |-> StepC("put", s[i])]
console_printf(format) == Puts(console_vprintf(format)) \o <<Step("flush")>>

Flush == <<Step("flush")>>
Clear == <<Step("wipe"), Step("home"), Mark(0, 0, cols, rows), Step("flush")>>

(* Mutant: nothing but the new row is shown after a scroll. *)
ScrollUnswapped == <<Step("scroll"), Mark(0, rows - 1, cols, 1), Step("bottom")>>

ScrollSteps == <<Step("scroll"), Mark(0, rows - 1, cols, 1), Step("swap"), Step("bottom")>>

NewLine == <<Step("return"), Step("feed")>> \o Flush

Does(a, op) == /\ todo[a] # <<>> /\ Head(todo[a]).op = op
               /\ a = "shell" => todo["handler"] = <<>>
Then(a, steps) == todo' = [todo EXCEPT ![a] = steps \o Tail(@)]
Arg(a) == Head(todo[a])
RestUnchanged == UNCHANGED <<shell, count, broken>>

(* The text as it should be on the screen. *)
Kept(ls) == IF Len(ls) > rows THEN Tail(ls) ELSE ls
Printed(ls, c) ==
  CASE c = NL -> Kept(Append(ls, <<>>))
    [] Len(Last(ls)) = cols -> Kept(Append(ls, <<c>>))
    [] OTHER -> [ls EXCEPT ![Len(ls)] = Append(@, c)]
Unprinted(ls) == IF Last(ls) = <<>> THEN ls ELSE [ls EXCEPT ![Len(ls)] = Front(@)]

(* console_putchar.  draw_char takes the cursor as it is when it is called.*)
console_putchar(a) ==
  /\ Does(a, "put")
  /\ LET c == Arg(a).c
         wrap == IF console.cursor_x >= cols THEN NewLine ELSE <<>>
     IN /\ Then(a, CASE c = NL -> NewLine
                     [] c = TAB -> <<>>
                     [] OTHER -> wrap \o <<StepC("store", c), StepC("draw", c), Step("advance")>>)
        /\ lines' = IF c = TAB THEN lines ELSE Printed(lines, c)
  /\ UNCHANGED <<screen, plain>> /\ RestUnchanged

Store(a) ==
  /\ Does(a, "store") /\ Then(a, <<>>)
  /\ UNCHANGED <<screen, lines, plain>> /\ RestUnchanged

draw_char(a) ==
  /\ Does(a, "draw")
  /\ LET x == console.cursor_x
         y == console.cursor_y
     IN /\ back' = IF x \in Cols /\ y \in Rows THEN [back EXCEPT ![y][x] = @ \cup {Arg(a).c}]
                   ELSE back                               \* vbe_putpixel clips
        /\ Then(a, <<Mark(x, y, 1, 1)>>)
  /\ UNCHANGED <<console, dirty_rect, front, lines, plain>> /\ RestUnchanged

(* cursor_x++, and the new row: read, then written. *)
Advance(a) ==
  /\ Does(a, "advance") /\ Then(a, <<StepN("column", (console.cursor_x + 1) % Word)>>)
  /\ UNCHANGED <<screen, lines, plain>> /\ RestUnchanged

Column(a) ==
  /\ Does(a, "column") /\ Then(a, <<>>)
  /\ console' = [console EXCEPT !.cursor_x = Arg(a).n]
  /\ UNCHANGED <<dirty_rect, back, front, lines, plain>> /\ RestUnchanged

CarriageReturn(a) ==
  /\ Does(a, "return") /\ Then(a, <<>>)
  /\ console' = [console EXCEPT !.cursor_x = 0]
  /\ UNCHANGED <<dirty_rect, back, front, lines, plain>> /\ RestUnchanged

LineFeed(a) ==
  /\ Does(a, "feed") /\ Then(a, <<StepN("row", (console.cursor_y + 1) % Word)>>)
  /\ UNCHANGED <<screen, lines, plain>> /\ RestUnchanged

(* Mutant: one row too many before the screen scrolls. *)
ScrollsLate(y) == y > rows

BelowScreen(y) == y >= rows

Row(a) ==
  /\ Does(a, "row") /\ Then(a, <<Step("below")>>)
  /\ console' = [console EXCEPT !.cursor_y = Arg(a).n]
  /\ UNCHANGED <<dirty_rect, back, front, lines, plain>> /\ RestUnchanged

(* The new row is read again for the test. *)
Below(a) ==
  /\ Does(a, "below")
  /\ Then(a, IF BelowScreen(console.cursor_y) THEN ScrollSteps ELSE <<>>)
  /\ UNCHANGED <<screen, lines, plain>> /\ RestUnchanged

console_scroll(a) ==
  /\ Does(a, "scroll") /\ Then(a, <<>>)
  /\ back' = [y \in Rows |-> IF y + 1 \in Rows THEN back[y + 1] ELSE [x \in Cols |-> {}]]
  /\ UNCHANGED <<console, dirty_rect, front, lines, plain>> /\ RestUnchanged

Bottom(a) ==
  /\ Does(a, "bottom") /\ Then(a, <<>>)
  /\ console' = [console EXCEPT !.cursor_y = rows - 1]
  /\ UNCHANGED <<dirty_rect, back, front, lines, plain>> /\ RestUnchanged

vesa_swap_buffers(a) ==
  /\ Does(a, "swap") /\ Then(a, <<>>)
  /\ front' = back
  /\ UNCHANGED <<console, dirty_rect, back, lines, plain>> /\ RestUnchanged

(* console_mark_dirty: if there is a rectangle, it is widened, and not     *)
(* marked again.                                                           *)
Rect(s) == [x1 |-> s.x1, y1 |-> s.y1, x2 |-> s.x2, y2 |-> s.y2, dirty |-> TRUE]

console_mark_dirty(a) ==
  /\ Does(a, "mark")
  /\ IF dirty_rect.dirty
       THEN Then(a, <<[Arg(a) EXCEPT !.op = "widen"]>>) /\ UNCHANGED dirty_rect
       ELSE Then(a, <<>>) /\ dirty_rect' = Rect(Arg(a))
  /\ UNCHANGED <<console, back, front, lines, plain>> /\ RestUnchanged

Widen(a) ==
  /\ Does(a, "widen") /\ Then(a, <<>>)
  /\ dirty_rect' = [x1 |-> Lower(Arg(a).x1, dirty_rect.x1), y1 |-> Lower(Arg(a).y1, dirty_rect.y1),
                    x2 |-> Upper(Arg(a).x2, dirty_rect.x2), y2 |-> Upper(Arg(a).y2, dirty_rect.y2),
                    dirty |-> dirty_rect.dirty]
  /\ UNCHANGED <<console, back, front, lines, plain>> /\ RestUnchanged

InRect(x, y) == /\ dirty_rect.x1 <= x /\ x < dirty_rect.x2
                /\ dirty_rect.y1 <= y /\ y < dirty_rect.y2

(* The rectangle begins far behind the screen: its copy faults, and        *)
(* isr_exception_handler stops the machine.                                *)
Faults == dirty_rect.dirty /\ dirty_rect.x1 > cols

console_flush(a) ==
  /\ Does(a, "flush") /\ ~Faults /\ Then(a, <<>>)
  /\ front' = IF dirty_rect.dirty
                THEN [y \in Rows |-> [x \in Cols |-> IF InRect(x, y) THEN back[y][x] ELSE front[y][x]]]
                ELSE front
  /\ dirty_rect' = [dirty_rect EXCEPT !.dirty = FALSE]
  /\ UNCHANGED <<console, back, lines, plain>> /\ RestUnchanged

(* console_ungetchar: at the left edge there is nothing to take back. *)
console_ungetchar(a) ==
  /\ Does(a, "unget")
  /\ Then(a, IF console.cursor_x > 0
               THEN <<Step("decrement"), StepC("store", "NUL"), Step("erase")>> \o Flush ELSE Flush)
  /\ lines' = Unprinted(lines)
  /\ plain' = (plain /\ console.cursor_x > 0)
  /\ UNCHANGED screen /\ RestUnchanged

(* cursor_x--: the column is read again, and 0 becomes the largest number. *)
Decrement(a) ==
  /\ Does(a, "decrement") /\ Then(a, <<StepN("column", (console.cursor_x - 1) % Word)>>)
  /\ UNCHANGED <<screen, lines, plain>> /\ RestUnchanged

Erase(a) ==
  /\ Does(a, "erase")
  /\ LET x == console.cursor_x
         y == console.cursor_y
     IN /\ back' = IF x \in Cols /\ y \in Rows THEN [back EXCEPT ![y][x] = {}] ELSE back
        /\ Then(a, <<Mark(x, y, 1, 1)>>)
  /\ UNCHANGED <<console, dirty_rect, front, lines, plain>> /\ RestUnchanged

(* console_clear *)
Wipe(a) ==
  /\ Does(a, "wipe") /\ Then(a, <<>>)
  /\ back' = Blank /\ lines' = << <<>> >> /\ broken' = FALSE
  /\ UNCHANGED <<console, dirty_rect, front, plain, shell, count>>

Home(a) ==
  /\ Does(a, "home") /\ Then(a, <<>>)
  /\ console' = [cursor_x |-> 0, cursor_y |-> 0]
  /\ UNCHANGED <<dirty_rect, back, front, lines, plain>> /\ RestUnchanged

(* The end of a turn of getstr's loop: the line goes on in the next row. *)
Wrap(a) ==
  /\ Does(a, "wrap")
  /\ Then(a, IF console.cursor_x >= cols THEN Puts(<<NL>>) \o Flush ELSE <<>>)
  /\ UNCHANGED <<screen, lines, plain>> /\ RestUnchanged

Steps(a) ==
  \/ console_putchar(a) \/ Store(a) \/ draw_char(a) \/ Advance(a) \/ Column(a)
  \/ CarriageReturn(a) \/ LineFeed(a) \/ Row(a) \/ Below(a) \/ console_scroll(a)
  \/ Bottom(a) \/ vesa_swap_buffers(a) \/ console_mark_dirty(a) \/ Widen(a) \/ console_flush(a)
  \/ console_ungetchar(a) \/ Decrement(a) \/ Erase(a) \/ Wipe(a) \/ Home(a) \/ Wrap(a)

-----------------------------------------------------------------------------
(* The shell's loop *)

ShellIsAt(at) == shell.at = at /\ \A a \in Actors : todo[a] = <<>>

ShellSteps(steps) == todo' = [todo EXCEPT !["shell"] = steps]

PromptSteps == Puts(Prompt) \o Flush \o Flush        \* console_printf, console_refresh

ShellPrompt ==
  /\ ShellIsAt("prompt")
  /\ ShellSteps(PromptSteps)
  /\ shell' = [shell EXCEPT !.at = "getstr", !.line = <<>>]
  /\ plain' = TRUE
  /\ UNCHANGED <<screen, count, lines, broken>>

(* Mutant: a backspace takes back what was there before the line. *)
AlwaysTakesBack(line) == TRUE

TakesBack(line) == line # <<>>

(* getstr: one key.  It returns at a newline, or when the line is full. *)
getstr(c) ==
  /\ ShellIsAt("getstr") /\ Len(shell.line) < max_size - 1 /\ count.keys < MaxKeys
  /\ count' = [count EXCEPT !.keys = @ + 1]
  /\ \/ /\ c = BS
        /\ shell' = [shell EXCEPT !.line = IF @ = <<>> THEN @ ELSE Front(@)]
        /\ ShellSteps((IF TakesBack(shell.line) THEN <<Step("unget")>> ELSE <<>>) \o <<Step("wrap")>>)
     \/ /\ c = NL
        /\ shell' = [shell EXCEPT !.at = IF shell.line = <<>> THEN "prompt" ELSE "command"]
        /\ ShellSteps(Puts(<<NL>>) \o Flush)
     \/ c = TAB /\ ShellSteps(<<Step("wrap")>>) /\ UNCHANGED shell
     \/ /\ c \notin {BS, NL, TAB}
        /\ shell' = [shell EXCEPT !.line = Append(@, c)]
        /\ ShellSteps(Puts(<<c>>) \o Flush \o <<Step("wrap")>>)
  /\ UNCHANGED <<screen, ghosts>>

LineIsFull ==
  /\ ShellIsAt("getstr") /\ Len(shell.line) = max_size - 1
  /\ shell' = [shell EXCEPT !.at = "command"]
  /\ UNCHANGED <<screen, todo, count, ghosts>>

Command ==
  /\ ShellIsAt("command")
  /\ \/ \E m \in Messages : /\ ShellSteps(console_printf(m))
                            /\ shell' = [shell EXCEPT !.at = "prompt", !.msg = m]
     \/ ShellSteps(Clear) /\ shell' = [shell EXCEPT !.at = "prompt"]
  /\ UNCHANGED <<screen, count, ghosts>>

HandlerPrints(m) ==
  /\ todo["handler"] = <<>> /\ count.replies < MaxReplies
  /\ todo' = [todo EXCEPT !["handler"] = console_printf(m)]
  /\ count' = [count EXCEPT !.replies = @ + 1]
  /\ broken' = (broken \/ todo["shell"] # <<>>)
  /\ plain' = FALSE
  /\ UNCHANGED <<screen, shell, lines>>

Init ==
  /\ console = [cursor_x |-> 0, cursor_y |-> 0]
  /\ dirty_rect = [x1 |-> 0, y1 |-> 0, x2 |-> 0, y2 |-> 0, dirty |-> FALSE]
  /\ back = Blank /\ front = Blank                      \* console_init has cleared both
  /\ todo = [a \in Actors |-> <<>>]
  /\ shell = [at |-> "prompt", line |-> <<>>, msg |-> <<>>]
  /\ count = [keys |-> 0, replies |-> 0]
  /\ lines = << <<>> >> /\ broken = FALSE /\ plain = FALSE

Next == \/ \E a \in Actors : Steps(a)
        \/ ShellPrompt \/ LineIsFull \/ Command
        \/ \E c \in Keys : getstr(c)
        \/ \E m \in Replies : HandlerPrints(m)

Spec == Init /\ [][Next]_vars

-----------------------------------------------------------------------------
(* Properties *)

(* The cursor and the shell's line are well formed. *)
TypeOK ==
  /\ console.cursor_x \in 0 .. (Word - 1) /\ console.cursor_y \in 0 .. (rows + 1)
  /\ \A y \in Rows, x \in Cols : back[y][x] \subseteq STRING /\ front[y][x] \subseteq STRING
  /\ Len(shell.line) < max_size

Quiet == \A a \in Actors : todo[a] = <<>>

Picture(ls) ==
  [y \in Rows |-> [x \in Cols |->
     IF y < Len(ls) /\ x < Len(ls[y + 1]) THEN {ls[y + 1][x + 1]} ELSE {}]]

(* What is printed for a number reads as that number, and fills its width. *)
NumberOf(s, base) ==
  FoldLeft(LAMBDA v, c : v * base + (CHOOSE i \in DOMAIN Digit : Digit[i] = c) - 1,
           0, SelectSeq(s, LAMBDA c : c # " "))

NumbersExact ==
  \A i \in DOMAIN shell.msg :
    LET p == shell.msg[i]
    IN p.conv # "c" => /\ NumberOf(Converted(p), Base(p.conv)) = p.val % Word
                       /\ Len(Converted(p)) >= p.width

(* However rows are filled, wrapped, scrolled and taken back, the back     *)
(* buffer holds the last lines of the text and the cursor is at its end;   *)
(* and whenever the shell waits for a key, all of it is visible: the dirty *)
(* rectangle has missed no cell.  A handler that prints between two calls  *)
(* of the shell is part of the text.  One that breaks into a call may mix  *)
(* the two, or move the column away under console_ungetchar: nothing is    *)
(* claimed from then on until the screen is cleared.                       *)
TextOnScreen ==
  /\ TypeOK /\ NumbersExact
  /\ Quiet /\ ~broken =>
       /\ back = Picture(lines)
       /\ console = [cursor_x |-> Len(Last(lines)), cursor_y |-> Len(lines) - 1]
       /\ shell.at = "getstr" => front = back

(* The line that getstr will return is what stands on the screen behind    *)
(* the prompt, as far as both are still there.  (A backspace at the left   *)
(* edge shortens the line and not the text: plain excludes it.)            *)
LineOnScreen ==
  Quiet /\ shell.at = "getstr" /\ plain /\ ~broken =>
    LET text == FlattenSeq(lines)
        line == Prompt \o shell.line
        n == Lower(Len(text), Len(line))
    IN SubSeq(text, Len(text) - n + 1, Len(text)) = SubSeq(line, Len(line) - n + 1, Len(line))

(* console.c:190: "Store character in buffer".  The place to which         *)
(* console_putchar and console_ungetchar write is in console.buffer, which *)
(* has rows * cols characters, wherever a handler breaks in whose message  *)
(* begins and ends with a newline.  A column that wrapped below 0 names    *)
(* the character before its row, and such a handler has left the first.    *)
StoredInBuffer ==
  \A a \in Actors : Does(a, "store") =>
    (console.cursor_y * cols + console.cursor_x) % Word < rows * cols
=============================================================================
