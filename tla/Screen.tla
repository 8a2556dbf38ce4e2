------------------------------- MODULE Screen -------------------------------
(***************************************************************************)
(* The screen of prgm/start: its window (fcurses.c), the keyboard and the  *)
(* messages of the child that it puts there (start.c), the /dev/tvb and    *)
(* /dev/cursor files below it (video.c), and the child's fprintf above.    *)
(* Styles are left out.  What a window should show is the history lines.   *)
(***************************************************************************)
EXTENDS Printf, FiniteSets, Bitwise

CONSTANTS
  width, height,     \* of the screen
  Formats, Args,     \* what the child prints: Args[n] are the arguments
  ScanCodes,         \* the scan codes of the keys that are used
  MSG_MAX,           \* sizeof(msg) in main
  Discarding,        \* "-Discarding-"
  MaxEvents          \* bound: prints, keys and rounds of main

\* The characters of the keys, by scan code from 0 on; 0 is no character.
scan_code1_to_char == <<
  0, 0, 49, 50, 51, 52, 53, 54, 55, 56, 57, 48, 45, 61, 8, 9, 113, 119, 101,
  114, 116, 121, 117, 105, 111, 112, 91, 93, 10, 0, 97, 115, 100, 102, 103,
  104, 106, 107, 108, 59, 39, 96, 0, 92, 122, 120, 99, 118, 98, 110, 109, 44,
  46, 47, 0, 42, 0, 32, 0, 0, 0, 0, 0, 0, 0, 0, 0, 0, 0, 0, 0, 55, 56, 57, 45,
  52, 53, 54, 43, 49, 50, 51, 48, 46, 0, 0, 0, 0 >>

scan_code1_to_char_shifted == <<
  0, 0, 33, 64, 35, 36, 37, 94, 38, 42, 40, 41, 95, 43, 8, 9, 81, 87, 69, 82,
  84, 89, 85, 73, 79, 80, 123, 125, 10, 0, 65, 83, 68, 70, 71, 72, 74, 75, 76,
  58, 34, 126, 0, 63, 90, 88, 67, 86, 66, 78, 77, 60, 62, 63, 0, 42, 0, 32, 0,
  0, 0, 0, 0, 0, 0, 0, 0, 0, 0, 0, 0, 55, 56, 57, 45, 52, 53, 54, 43, 49, 50,
  51, 48, 46, 0, 0, 0, 0 >>

ASSUME ScreenAssumption ==
  /\ width \in Nat /\ height \in Nat /\ width > 2 /\ height > 2
  /\ ScanCodes \subseteq 0..255

VARIABLES
  scr,      \* the characters of /dev/tvb; the window's pt_x, pt_y; cursor_data
  shift,    \* lshift and rshift of key_state
  held,     \* history: the keys that are down, of the two shift keys
  queue,    \* messages of the child that main has not consumed
  next,     \* main's next: the index of the empty message it is on, or 0
  echo,     \* history: the character last typed, as shown and as sent
  job,      \* the last fprintf: its format and its arguments
  lines,    \* history: the last lines put into the window
  st,       \* "up", or "astray" when fprintf wrote past its buffer
  events

svars == <<scr, shift, held, queue, next, echo, job, lines, st, events>>

NL == 10
BS == 8
SPACE == 32
w == width - 2      \* the window that main creates, at (1, 1)
h == height - 2

-----------------------------------------------------------------------------
(* The screen.  fs_write drops what is past the end of the file.           *)

Pos(x, y) == x + y * width

fc_putc(s, ch, x, y) ==
  IF Pos(x, y) \in DOMAIN s.buf THEN [s EXCEPT !.buf[Pos(x, y)] = ch] ELSE s

fc_move_buf(s, sx, sy, dx, dy, len) ==
  [s EXCEPT !.buf = [p \in DOMAIN @ |->
     IF p >= Pos(dx, dy) /\ p < Pos(dx, dy) + len
     THEN @[p - Pos(dx, dy) + Pos(sx, sy)] ELSE @[p]]]

cursor_pos(x, y) == x | (y * width)

\* The cursor file's write hook: the position goes to the display as a word.
fc_move_cursor(s, x, y) ==
  [s EXCEPT !.cursor = [x |-> x, y |-> y, pos |-> cursor_pos(x, y) % 2^16]]

\* Fault: the last line is cleared one column too far.
ClearedTo_edge(s) == w

ClearedTo(s) == w - 1

Scrolled(s) ==
  LET up == FoldLeft(LAMBDA t, i : fc_move_buf(t, 1, 1 + i, 1, i, w),
                     s, [i \in 1..(h - 1) |-> i])
  IN  FoldLeft(LAMBDA t, i : fc_putc(t, 0, i, h), up,
               [i \in 1..(ClearedTo(s) + 1) |-> i])

RECURSIVE Fit(_)
Fit(s) == IF s.y < h THEN s ELSE Fit([Scrolled(s) EXCEPT !.y = @ - 1])

scroll_check(s) ==
  Fit(IF s.x >= w THEN [s EXCEPT !.x = @ % w, !.y = @ + 1] ELSE s)

\* Fault: backspace also leaves the line's start.
Back_always(s) == [fc_putc(s, 0, s.x, 1 + s.y) EXCEPT !.x = @ - 1]

Back(s) == IF s.x = 0 THEN s ELSE [fc_putc(s, 0, s.x, 1 + s.y) EXCEPT !.x = @ - 1]

fc_wputc(s, ch) ==
  LET t == scroll_check(
             CASE ch = NL -> [s EXCEPT !.x = 0, !.y = @ + 1]
               [] ch = BS -> Back(s)
               [] OTHER   -> [fc_putc(s, ch, 1 + s.x, 1 + s.y) EXCEPT !.x = @ + 1])
  IN  fc_move_cursor(t, 1 + t.x, 1 + t.y)

fc_wputs(s, text) == FoldLeft(fc_wputc, s, text)

Corner == [TL |-> 201, BL |-> 200, TR |-> 187, BR |-> 188, HORZ |-> 205, VERT |-> 186]

Box(x, y) ==
  CASE x = 0 /\ y = 0                  -> Corner.TL
    [] x = 0 /\ y = height - 1         -> Corner.BL
    [] x = width - 1 /\ y = 0          -> Corner.TR
    [] x = width - 1 /\ y = height - 1 -> Corner.BR
    [] x \in {0, width - 1}            -> Corner.VERT
    [] OTHER                           -> Corner.HORZ

Edge == {<<x, y>> \in (0..(width - 1)) \X (0..(height - 1)) :
           x \in {0, width - 1} \/ y \in {0, height - 1}}

\* box_screen on the screen that setting the video mode has cleared.
box_screen ==
  [p \in 0..(width * height - 1) |->
     LET at == <<p % width, p \div width>>
     IN  IF at \in Edge THEN Box(at[1], at[2]) ELSE SPACE]

-----------------------------------------------------------------------------
(* What the window stands for: lines of text, the last one unfinished; a   *)
(* line of w characters is finished, and only the last h lines are kept.   *)

Kept(ls) == IF Len(ls) > h THEN Tail(ls) ELSE ls

Typed(ls, ch) ==
  LET n == Len(ls) IN
  CASE ch = NL -> Kept(Append(ls, <<>>))
    [] ch = BS -> IF ls[n] = <<>> THEN ls ELSE [ls EXCEPT ![n] = Front(@)]
    [] OTHER   -> LET more == [ls EXCEPT ![n] = Append(@, ch)]
                  IN  IF Len(more[n]) = w THEN Kept(Append(more, <<>>)) ELSE more

Show(text) == scr' = fc_wputs(scr, text) /\ lines' = FoldLeft(Typed, lines, text)

-----------------------------------------------------------------------------
(* Actions.                                                                *)

Event == st = "up" /\ events < MaxEvents /\ events' = events + 1

\* fprintf to stdout: the text is measured, then written into a buffer of
\* that size, and its string is sent.
fprintf ==
  /\ Event /\ Len(queue) < 2
  /\ \E n \in DOMAIN Formats : \E args \in Args[n] :
       LET sized == vsnprintf(0, Formats[n], args)
           full == vsnprintf(TextMax + 1, Formats[n], args)
       IN  /\ job' = [fmt |-> Formats[n], args |-> args]
           /\ IF sized.wild \/ full.i > sized.i
              THEN st' = "astray" /\ UNCHANGED queue
              ELSE queue' = Append(queue, String(full.buf)) /\ UNCHANGED st
  /\ UNCHANGED <<scr, shift, held, next, echo, lines>>

Shown(msg) == IF Len(msg) > MSG_MAX THEN Discarding ELSE msg

\* The first empty message behind next, or the place behind the queue's last.
NextEmpty(q, n) ==
  n + SelectInSeq(SubSeq(Append(q, <<>>), n + 1, Len(q) + 1), LAMBDA msg : msg = <<>>)

\* main's loop over the messages behind next.  A size of zero ends it: at the
\* end of the queue, where next becomes 0, or at an empty message, which stays
\* in the queue for good; the next round goes on behind that.
main_output ==
  LET e == NextEmpty(queue, next) IN
  /\ Event /\ queue # <<>>
  /\ Show(FlattenSeq([i \in 1..(e - next - 1) |-> Shown(queue[next + i])]))
  /\ queue' = SubSeq(queue, 1, next) \o SubSeq(queue, e, Len(queue))
  /\ next' = IF e > Len(queue) THEN 0 ELSE next + 1
  /\ UNCHANGED <<shift, held, echo, job, st>>

RELEASE == 128
LSHIFT == 42
RSHIFT == 54

\* Fault: releasing either shift key clears both.
Released_both(s, code) ==
  IF code \in {LSHIFT + RELEASE, RSHIFT + RELEASE}
  THEN [lshift |-> FALSE, rshift |-> FALSE] ELSE s

Released(s, code) == [lshift |-> s.lshift /\ code # LSHIFT + RELEASE,
                      rshift |-> s.rshift /\ code # RSHIFT + RELEASE]

Pressed(s, code) == [lshift |-> s.lshift \/ code = LSHIFT,
                     rshift |-> s.rshift \/ code = RSHIFT]

\* The size that is tested is that of the first table.
KeyChar(s, code) ==
  IF code >= Len(scan_code1_to_char) THEN 0
  ELSE IF s.lshift \/ s.rshift THEN scan_code1_to_char_shifted[code + 1]
                               ELSE scan_code1_to_char[code + 1]

process_key(code) ==
  LET up == code >= RELEASE
      s == IF up THEN Released(shift, code) ELSE Pressed(shift, code)
      down == (IF up THEN held \ {code - RELEASE} ELSE held \cup {code})
                \cap {LSHIFT, RSHIFT}
      ch == IF up THEN 0 ELSE KeyChar(s, code)
  IN  /\ Event
      /\ shift' = s /\ held' = down
      /\ IF ch = 0 THEN UNCHANGED <<scr, lines, echo>>
         ELSE Show(<<ch>>) /\ echo' = [key |-> code, ch |-> ch, held |-> down]
      /\ UNCHANGED <<queue, next, job, st>>

SInit ==
  /\ scr = fc_move_cursor([buf |-> box_screen, x |-> 0, y |-> 0,
                           cursor |-> [x |-> 0, y |-> 0, pos |-> 0]], 1, 1)
  /\ shift = [lshift |-> FALSE, rshift |-> FALSE] /\ held = {}
  /\ queue = <<>> /\ next = 0 /\ lines = <<<<>>>> /\ st = "up" /\ events = 0
  /\ echo = [key |-> 0, ch |-> 0, held |-> {}]
  /\ job = [fmt |-> <<>>, args |-> <<>>]

SNext ==
  \/ fprintf \/ main_output
  \/ \E code \in ScanCodes : process_key(code)

SSpec == SInit /\ [][SNext]_svars

-----------------------------------------------------------------------------
\* The window shows the last lines that were put into it, wrapped at its
\* width, with backspace taking back a character of the last line only; the
\* box around it is never touched; and the next character goes behind the
\* last (fc_wputc, scroll_check, fc_move_buf).  The display's cursor is on the
\* line of that character and never to the right of it, though x is ored to
\* y * width, not added (cursor_write).
ShowsTheLastLines ==
  /\ \A at \in Edge : scr.buf[Pos(at[1], at[2])] = Box(at[1], at[2])
  /\ \A r \in 1..h, c \in 1..w :
       LET cell == scr.buf[Pos(c, r)] IN
       IF r <= Len(lines) /\ c <= Len(lines[r]) THEN cell = lines[r][c]
                                                ELSE cell \in {0, SPACE}
  /\ scr.x = Len(Last(lines)) /\ scr.y = Len(lines) - 1
  /\ scr.cursor.x = 1 + scr.x /\ scr.cursor.y = 1 + scr.y
  /\ scr.cursor.pos \div width = scr.cursor.y
  /\ scr.cursor.pos <= Pos(scr.cursor.x, scr.cursor.y)

\* A key's character is the shifted one exactly if a shift key was down, the
\* other one having been pressed and released meanwhile or not (process_key).
ShiftedWhileHeld ==
  echo.key # 0 =>
    echo.ch = IF echo.held = {} THEN scan_code1_to_char[echo.key + 1]
                                ELSE scan_code1_to_char_shifted[echo.key + 1]

\* No conversion follows a %c, and no %x, %X or %o has an argument that is
\* ten or more, or for %o eight or more, and so is not printed alike in decimal.
CharIsLast(fmt) ==
  \A i, j \in DOMAIN fmt : i < j /\ fmt[i].k = "c" => ~Takes(fmt[j])

PrintsDecimal(fmt, args) ==
  \A n \in DOMAIN fmt : fmt[n].k \in {"x", "X", "o"} =>
    LET arg == args[Len(SelectSeq(SubSeq(fmt, 1, n), Takes))]
    IN  UnsignedArg(fmt[n], arg.num) < Smaller(10, Radix(fmt[n]))

\* With any length, 0 included, vsnprintf returns the length of the whole text
\* that format and arguments say, stores its first characters and a NUL in that
\* length and leaves the rest of the buffer alone; so fprintf's first pass
\* measures what its second writes.  Two cases are excepted: a conversion that
\* follows a %c, whose argument the first pass does not take, and a number for
\* %x, %X or %o with other digits than in decimal, since format_uint ignores its
\* radix (vsnprintf, format_uint, fprintf).
FormatsInLength ==
  CharIsLast(job.fmt) /\ PrintsDecimal(job.fmt, job.args) =>
    /\ st = "up"
    /\ \A len \in 0..(TextMax + 1) :
         LET r == vsnprintf(len, job.fmt, job.args)
             text == Text(job.fmt, job.args)
             kept == Smaller(len - 1, Len(text))
         IN  /\ r.i = Len(text)
             /\ len > 0 => SubSeq(r.buf, 1, kept + 1) = Append(SubSeq(text, 1, kept), 0)
             /\ \A p \in (len + 1)..(TextMax + 1) : r.buf[p] = JUNK

\* The four conversions of a number yield its numeral: the C library's, the
\* kernel's and fcurses' (utoa, itoa, dputu, dputl, number_to_string).
NumeralsAreRight ==
  \A n \in DOMAIN job.args, radix \in {8, 10, 16} :
    LET v == job.args[n].num
        str == number_to_string(ulong(v), LONG_BITS + 1, radix).str IN
    /\ Denotes(itoa(v, radix), v, radix) /\ dputl(v, radix) = itoa(v, radix)
    /\ Denotes(utoa(ulong(v), radix), ulong(v), radix) /\ str = utoa(ulong(v), radix)
=============================================================================
