-------------------------------- MODULE Lcd --------------------------------
(***************************************************************************)
(* The driver of the HD44780 text panel (lcd_hd44780.c) on the path the    *)
(* menu uses: lcd_mb_write of menu.c converts a UTF-8 string to a line of  *)
(* Windows-1251 and sends it by halves of bytes.  The panel cannot be read *)
(* (RW is tied to ground), so the driver relies on time alone: what it     *)
(* sends while the panel is busy is lost, and a lost half shifts all that  *)
(* follows.  The controller may be reset anywhere, the panel then keeps    *)
(* its power and its half byte.                                            *)
(*                                                                         *)
(* Time is in units of 100 us, ten to a tick of the kernel.                *)
(***************************************************************************)
EXTENDS Integers, Sequences, SequencesExt

CONSTANTS LcdCols,      \* LCD_COLS
          Texts,        \* the strings shown, as sequences of symbols
          Timings       \* records: clear, time the panel takes to clear, in
                        \* units; late, delays a preemption may add to a step

VARIABLES timing, panel,
          todo,     \* the steps that are left of the call in progress
          phase,    \* units since the last tick
          wanted,   \* the two texts on the panel, for the properties
          lost      \* 1 once a pulse of this run met a busy panel, likewise
lcdVars == <<timing, panel, todo, phase, wanted, lost>>

Rows == 0..1
Nowhere == -1
Space == 32
row_offsets == <<0, 64>>
Cells == {row_offsets[r + 1] + c : r \in Rows, c \in 0..(LcdCols - 1)}
Bit(b, mask) == (b \div mask) % 2 = 1

(***************************************************************************)
(* The panel                                                               *)
(***************************************************************************)
\* A panel whose supply has just come up: its own reset may have failed, so
\* that it is in any mode; it is busy for 40 ms.
FreshPanels ==
    {[wide |-> w, half |-> h, busy |-> 400, on |-> o, two |-> ~w, inc |-> o, ac |-> 0,
      ram |-> [a \in Cells |-> 0]] : w \in BOOLEAN, h \in {Nowhere, 0, 3}, o \in BOOLEAN}

Elapsed(p, t) == [p EXCEPT !.busy = IF @ > t THEN @ - t ELSE 0]

NextCell(p) == IF ~p.inc THEN (p.ac + 127) % 128
               ELSE IF p.ac = 39 THEN 64 ELSE IF p.ac = 103 THEN 0 ELSE (p.ac + 1) % 128

Wrote(p, b) ==
    [p EXCEPT !.ram = IF p.ac \in Cells THEN [@ EXCEPT ![p.ac] = b] ELSE @,
              !.ac = IF @ = Nowhere THEN @ ELSE NextCell(p), !.busy = 1]

\* Character generator memory and the shifts are not used: the first takes
\* the address away, the second leaves a cursor that is set before a use.
Commanded(p, b) ==
    LET quick == [p EXCEPT !.busy = 1] IN
    CASE b >= 128 -> [quick EXCEPT !.ac = b - 128]
      [] b \in 64..127 -> [quick EXCEPT !.ac = Nowhere]
      [] b \in 32..63 -> [quick EXCEPT !.wide = Bit(b, 16), !.two = Bit(b, 8)]
      [] b \in 8..15 -> [quick EXCEPT !.on = Bit(b, 4)]
      [] b \in 4..7 -> [quick EXCEPT !.inc = Bit(b, 2)]
      [] b \in 2..3 -> [p EXCEPT !.ac = 0, !.busy = timing.clear]
      [] b = 1 -> [p EXCEPT !.ac = 0, !.inc = TRUE, !.ram = [a \in Cells |-> Space],
                            !.busy = timing.clear]
      [] OTHER -> quick

Executed(p, b, rs) == IF rs = 1 THEN Wrote(p, b) ELSE Commanded(p, b)

\* An E pulse.  With the 8-bit interface the four lines nobody drives give the
\* low half.
Latched(p, n, rs, low) ==
    IF p.busy > 0 THEN p
    ELSE IF p.wide THEN Executed([p EXCEPT !.half = Nowhere], 16 * n + low, rs)
    ELSE IF p.half = Nowhere THEN [p EXCEPT !.half = n]
    ELSE Executed([p EXCEPT !.half = Nowhere], 16 * p.half + n, rs)

(***************************************************************************)
(* The driver: every call is a sequence of pulses and delays               *)
(***************************************************************************)
delay_us(us) == <<[op |-> "us", n |-> us \div 100, rs |-> 0]>>
delay_ms(ms) == <<[op |-> "ms", n |-> ms, rs |-> 0]>>
nibble(n, rs) == <<[op |-> "pulse", n |-> n, rs |-> rs]>> \o delay_us(100)
lcd_send(b, rs) == nibble(b \div 16, rs) \o nibble(b % 16, rs)

lcd_cmdUnwaited(b) == lcd_send(b, 0)
lcd_cmd(b) == lcd_send(b, 0) \o (IF b <= 3 THEN delay_ms(2) ELSE <<>>)

lcd_initTwice == delay_ms(50) \o nibble(3, 0) \o delay_ms(5) \o nibble(3, 0) \o delay_us(200)
    \o nibble(2, 0) \o delay_us(200)
    \o lcd_cmd(40) \o lcd_cmd(8) \o lcd_cmd(1) \o lcd_cmd(6) \o lcd_cmd(12)
lcd_init ==
    delay_ms(50) \o nibble(3, 0) \o delay_ms(5)
                 \o nibble(3, 0) \o delay_us(200)
                 \o nibble(3, 0) \o delay_us(200)
                 \o nibble(2, 0) \o delay_us(200)
    \o lcd_cmd(40)      \* 4 bits, two lines
    \o lcd_cmd(8)       \* display off
    \o lcd_cmd(1)       \* clear
    \o lcd_cmd(6)       \* cursor to the right
    \o lcd_cmd(12)      \* display on

Least(a, b) == IF a < b THEN a ELSE b
lcd_set_cursor(row, col) == lcd_cmd(128 + row_offsets[Least(row, 1) + 1] + Least(col, LcdCols - 1))

\* Windows-1251 C0..FF to the codes of the panel's Cyrillic ROM.
win1251_to_lcd ==
    << 65, 160,  66, 161, 224,  69, 163, 164, 165, 166,  75, 167,  77,  72,  79, 168,
       80,  67,  84, 169, 170,  88, 225, 171, 172, 226, 173, 174, 175, 176, 177, 162,
       97, 178, 179, 180, 227, 101, 182, 183, 184, 185, 186, 187, 188, 189, 111, 190,
      112,  99, 191, 121, 228, 120, 229, 192, 193, 230, 194, 195, 196, 197, 198, 199 >>

RomCode(c) == IF c >= 192 THEN win1251_to_lcd[c - 191] ELSE IF c = 176 THEN 223 ELSE c

lcd_print_win1251(s) == FlattenSeq([i \in 1..Len(s) |-> lcd_send(RomCode(s[i]), 1)])
-----------------------------------------------------------------------------
(***************************************************************************)
(* UTF-8 to Windows-1251.  A string of C is its bytes and a 0.             *)
(***************************************************************************)
\* The symbol that begins at s[i]: its code and where the next one begins.  A
\* string that ends inside a symbol gives '?' and is not read any further.
utf8_lead_to_win1251(s, i) ==
    LET c == s[i]
        c2 == s[i + 1]
        c3 == s[i + 2]
        Step(out, bytes) == [out |-> out, next |-> i + bytes]
        Unknown == 63
    IN CASE c \notin {208, 209, 194, 226} -> Step(c, 1)
         [] c \in {208, 209, 194, 226} /\ c2 = 0 -> Step(Unknown, 1)
         [] c = 208 /\ c2 # 0 -> Step(IF c2 = 129 THEN 168
                                      ELSE IF c2 \in 144..191 THEN c2 + 48 ELSE Unknown, 2)
         [] c = 209 /\ c2 # 0 -> Step(IF c2 = 145 THEN 184
                                      ELSE IF c2 \in 128..143 THEN c2 + 112 ELSE Unknown, 2)
         [] c = 194 /\ c2 # 0 -> Step(c2, 2)
         [] c = 226 /\ c2 # 0 /\ c3 = 0 -> Step(Unknown, 1)
         [] OTHER -> Step(IF c2 = 128 /\ c3 \in {147, 148} THEN 45 ELSE Unknown, 3)

\* The loop over the symbols of s, from each of its bytes on.
Decoder(s) ==
    LET From[i \in 1..Len(s)] ==
            IF s[i] = 0 THEN <<>>
            ELSE LET step == utf8_lead_to_win1251(s, i) IN <<step.out>> \o From[step.next]
    IN From

\* width codes, by symbols: cut or filled with spaces.
utf8_to_win1251ByBytes(s, width) ==
    LET From[i \in 1..Len(s)] ==
            IF s[i] = 0 \/ i > width THEN <<>>
            ELSE LET step == utf8_lead_to_win1251(s, i) IN <<step.out>> \o From[step.next]
        all == From[1]
    IN [k \in 1..width |-> IF k <= Len(all) THEN all[k] ELSE Space]
lcd_utf8_to_win1251(s, width) ==
    LET all == Decoder(s)[1]
    IN [k \in 1..width |-> IF k <= Len(all) THEN all[k] ELSE Space]

\* menu.c: one line, from its first column.
lcd_mb_write(row, s) == lcd_set_cursor(row, 0)
                        \o lcd_print_win1251(lcd_utf8_to_win1251(s, LcdCols))
-----------------------------------------------------------------------------
(***************************************************************************)
(* What a reader of the panel sees: symbols, their bytes in the source of  *)
(* the menu and their place in the ROM.  "cut" is the first half of a      *)
(* letter at the end of a string, "raw" a letter written in Windows-1251.  *)
(***************************************************************************)
Utf8 == [A |-> <<65>>, Pe |-> <<208, 159>>, ya |-> <<209, 143>>, degree |-> <<194, 176>>,
         dash |-> <<226, 128, 148>>, raw |-> <<207>>, cut |-> <<208>>,
         yo |-> <<209, 145>>, Yo |-> <<208, 129>>,
         laquo |-> <<194, 171>>, raquo |-> <<194, 187>>]
Glyph == [A |-> 65, Pe |-> 168, ya |-> 199, degree |-> 223, dash |-> 45, raw |-> 168,
          cut |-> 63]

\* lcd_hd44780.h:46-48 promises these four as well.  Their codes go to the
\* panel as they are (lcd_hd44780.c:165-166), where the ROM has the letters
\* i, Pe, Che and el of win1251_to_lcd.
Misdrawn == [yo |-> 184, Yo |-> 168, laquo |-> 171, raquo |-> 187]
Seen(x) == IF x \in DOMAIN Misdrawn THEN Misdrawn[x] ELSE Glyph[x]

Symbols == DOMAIN Utf8

CString(text) == FlattenSeq([i \in 1..Len(text) |-> Utf8[text[i]]]) \o <<0>>

\* A string is cut at its end, if at all.
ASSUME LcdAssumption ==
    /\ LcdCols \in 1..40
    /\ Texts \subseteq Seq(Symbols)
    /\ \A t \in Texts : \A k \in 1..Len(t) : t[k] = "cut" => k = Len(t)

\* The panel clears within the 1.52 ms of lcd_hd44780.c:60, rounded up to 16
\* units; a preemption may delay any step by any time.
ASSUME TimingAssumption ==
    \A w \in Timings : w.clear \in 0..16 /\ w.late \subseteq Nat
-----------------------------------------------------------------------------
LcdInit == /\ timing \in Timings
           /\ panel \in FreshPanels
           /\ todo = lcd_init
           /\ phase = 0
           /\ wanted = [r \in Rows |-> <<>>]
           /\ lost = 0

\* Time t goes by, and as much again as a preemption takes.
Wait(p, t) == \E extra \in timing.late :
    /\ panel' = Elapsed(p, t + extra)
    /\ phase' = (phase + t + extra) % 10

Advance == todo' = Tail(todo) /\ UNCHANGED <<timing, wanted>>

\* lcd_write_nibble: the pulse.
Pulse == /\ todo # <<>> /\ Head(todo).op = "pulse"
         /\ \E low \in {0, 15} : Wait(Latched(panel, Head(todo).n, Head(todo).rs, low), 0)
         /\ lost' = IF panel.busy > 0 THEN 1 ELSE lost
         /\ Advance

\* delay_us looks at a running counter, it never ends early.
Busy == /\ todo # <<>> /\ Head(todo).op = "us"
        /\ Wait(panel, Head(todo).n)
        /\ Advance
        /\ UNCHANGED lost

\* delay_ms sleeps to the n-th tick from now: the first comes after the rest
\* of the present one.
Sleep == /\ todo # <<>> /\ Head(todo).op = "ms"
         /\ Wait(panel, 10 * Head(todo).n - phase)
         /\ Advance
         /\ UNCHANGED lost

\* menu_process draws a line.
Draw == /\ todo = <<>>
        /\ \E r \in Rows, t \in Texts :
              /\ t # wanted[r]
              /\ todo' = lcd_mb_write(r, CString(t))
              /\ wanted' = [wanted EXCEPT ![r] = t]
        /\ phase' = 0
        /\ panel' = Elapsed(panel, 10)
        /\ UNCHANGED <<timing, lost>>

\* The controller starts anew: by the watchdog, or with the power of both.
Restart(p) == /\ panel' = p
              /\ todo' = lcd_init
              /\ phase' = 0
              /\ wanted' = [r \in Rows |-> <<>>]
              /\ lost' = 0
              /\ UNCHANGED timing
LcdReset == Restart(panel)
Supply == \E p \in FreshPanels : Restart(p)

LcdNext == Pulse \/ Busy \/ Sleep \/ Draw \/ LcdReset \/ Supply
LcdSpec == LcdInit /\ [][LcdNext]_lcdVars
-----------------------------------------------------------------------------
(***************************************************************************)
(* Properties                                                              *)
(***************************************************************************)
\* What a row should show: the text's symbols, cut or filled up to the width.
Shown(text) == [c \in 0..(LcdCols - 1) |-> IF c < Len(text) THEN Seen(text[c + 1]) ELSE Space]

LcdTypeOK ==
    /\ timing \in Timings /\ phase \in 0..9 /\ lost \in {0, 1}
    /\ \A r \in Rows : wanted[r] \in Texts \cup {<<>>}
    /\ panel \in [wide : BOOLEAN, half : 0..15 \cup {Nowhere}, busy : 0..400, on : BOOLEAN,
                  two : BOOLEAN, inc : BOOLEAN, ac : 0..127 \cup {Nowhere},
                  ram : [Cells -> 0..255]]

\* delay_ms(2) is two ticks, begun anywhere in the first: with the delay after
\* the pulse it lasts at least 1.1 ms.  That is enough for a panel as quick as
\* this, and for any where nothing delays the driver on its way to the sleep.
Covered == timing.clear <= 11 \/ timing.late = {0}
AfterClear == lcd_cmd(6) \o lcd_cmd(12)

\* From power-on, through a reset in the middle of a byte, to the last
\* character of a line, no pulse comes while the panel is busy, wherever in a
\* tick the fixed delays begin; but for one place.  The sleep after the clear
\* of lcd_init may be too short for the time lcd_hd44780.c:60 names, and the
\* first pulse that is lost, if any, is the one after it.
PanelKeepsUp ==
    /\ LcdTypeOK
    /\ lost = 1 => ~Covered
    /\ lost = 0 /\ todo # <<>> /\ Head(todo).op = "pulse" /\ panel.busy > 0 =>
         ~Covered /\ todo = AfterClear

\* Between two calls, unless a pulse was lost since the start, the panel is in
\* step with the driver and shows what the menu drew, symbol by symbol (those
\* of Misdrawn as other letters), and spaces elsewhere.
ScreenShows ==
    todo = <<>> /\ lost = 0 =>
        /\ ~panel.wide /\ panel.half = Nowhere
        /\ panel.on /\ panel.two /\ panel.inc
        /\ \A r \in Rows, c \in 0..(LcdCols - 1) :
              panel.ram[row_offsets[r + 1] + c] = Shown(wanted[r])[c]

\* The panel is in step with the driver, at work and at rest, from every start
\* of lcd_init until a clear that outlasts its sleep.
PanelInStep == PanelKeepsUp /\ ScreenShows
=============================================================================
