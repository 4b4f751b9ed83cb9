----------------------------- MODULE PackedCell -----------------------------
(***************************************************************************)
(* The cell of justerm-core (cell.rs): a character, two colours, eleven     *)
(* flags, a three-bit underline style and four presence bits packed into    *)
(* three 32-bit words, fields of different widths side by side.             *)
(*                                                                         *)
(* attrs is the cell as its readers are promised it: independent            *)
(* attributes.  A word is the set of its bit numbers above its value field; *)
(* the value fields (codepoint, colour mode and payload) are kept whole.    *)
(***************************************************************************)
EXTENDS Integers

CONSTANTS Chars, Payloads, \* a few characters and colour payloads
          FlagInputs,      \* the flag sets callers pass
          MaxSteps         \* bound on the operations after from_parts

\* A colour is <<mode, payload>>, 0 Default, 1 Indexed, 2 Rgb; a flag set has fourteen bits.
ASSUME PackedAssumption ==
  /\ Payloads \subseteq {<<0, 0>>} \cup ({1, 2} \X Nat)
  /\ FlagInputs \subseteq SUBSET (0..13)
  /\ MaxSteps \in Nat

VARIABLES content, fg, bg, \* the three words
          attrs,           \* the cell its readers are promised
          steps            \* operations so far
cellVars == <<content, fg, bg, attrs, steps>>

Space == " "            \* what an empty cell holds
BOLD == 0
DIM == 1
ITALIC == 2
UNDERLINE == 3
BLINK == 4
INVERSE == 5
HIDDEN == 6
STRIKETHROUGH == 7
WIDE_CHAR == 8
WIDE_CHAR_SPACER == 9
WRAPLINE == 10
StyleField == 11..13          \* of the flags
C_COMBINED == 21
C_LEADING_SPACER == 25
ContentMarkers == 22..24      \* WIDE, SPACER, WRAP
StyleBits == 26..28           \* of the content word
BG_LINK == 28
BG_UCOLOR == 29

Moved(S, k) == {b + k : b \in S}
\* The three-bit number at bits 0, 1, 2 and the style it names; 1, 6 and 7 are Single.
Number(S) == (IF 0 \in S THEN 1 ELSE 0) + (IF 1 \in S THEN 2 ELSE 0) + (IF 2 \in S THEN 4 ELSE 0)
Bits(n) == (IF n % 2 = 1 THEN {0} ELSE {}) \cup (IF (n \div 2) % 2 = 1 THEN {1} ELSE {}) \cup (IF n \div 4 = 1 THEN {2} ELSE {})
FromBits(n) == IF n \in {0, 2, 3, 4, 5} THEN n ELSE 1
StyleOfFlags(f) == FromBits(Number(Moved(f \cap StyleField, -11)))

PackColor(c, bits) == [mode |-> c[1], payload |-> IF c[1] = 0 THEN 0 ELSE c[2], bits |-> bits]
UnpackColor(w) == IF w.mode \in {1, 2} THEN <<w.mode, w.payload>> ELSE <<0, 0>>

\* flag_words: where each flag goes; a bare UNDERLINE means a single one.
NormalStyle(f) == IF StyleOfFlags(f) = 0 /\ UNDERLINE \in f THEN 1 ELSE StyleOfFlags(f)
FlagWords(f) ==
  [content |-> Moved(f \cap {WIDE_CHAR, WIDE_CHAR_SPACER, WRAPLINE}, 14) \cup Moved(Bits(NormalStyle(f)), 26),
   fg |-> Moved(f \cap {BOLD}, 27) \cup Moved(f \cap {INVERSE}, 21) \cup Moved(f \cap {BLINK}, 25)
          \cup Moved(f \cap {HIDDEN, STRIKETHROUGH}, 24),
   bg |-> Moved(f \cap {ITALIC}, 24) \cup Moved(f \cap {DIM}, 26)]

----------------------------------------------------------------------------
(* The readers. *)
StyleOf(c) == Number(Moved(c.bits \cap StyleBits, -26))
FlagsOf(c, f, b) ==
  Moved(c.bits \cap ContentMarkers, -14) \cup Moved(c.bits \cap StyleBits, -15)
  \cup (IF StyleOf(c) = 0 THEN {} ELSE {UNDERLINE})
  \cup Moved(f.bits \cap {27}, -27) \cup Moved(f.bits \cap {26}, -21) \cup Moved(f.bits \cap {29}, -25)
  \cup Moved(f.bits \cap {30, 31}, -24) \cup Moved(b.bits \cap {26}, -24) \cup Moved(b.bits \cap {27}, -26)
IsBlank(c) == c.cp = Space /\ c.bits \cap (ContentMarkers \cup {C_COMBINED, C_LEADING_SPACER}) = {}

Read == [c |-> content.cp, fg |-> UnpackColor(fg), bg |-> UnpackColor(bg),
         style |-> FromBits(StyleOf(content)),
         flags |-> FlagsOf(content, fg, bg) \ StyleField,
         combined |-> C_COMBINED \in content.bits, leading |-> C_LEADING_SPACER \in content.bits,
         linked |-> BG_LINK \in bg.bits, ucolored |-> BG_UCOLOR \in bg.bits,
         blank |-> IsBlank(content)]

----------------------------------------------------------------------------
(* What the readers are promised. *)
Plain == [c |-> Space, fg |-> <<0, 0>>, bg |-> <<0, 0>>, style |-> 0, flags |-> {}, combined |-> FALSE,
          leading |-> FALSE, linked |-> FALSE, ucolored |-> FALSE, blank |-> TRUE]
Underlined(flags, style) == (flags \ {UNDERLINE}) \cup (IF style = 0 THEN {} ELSE {UNDERLINE})
Styled(a, flags, style) == [a EXCEPT !.style = style, !.flags = Underlined(flags, style)]
Made(c, f, b, flags, style) == [Plain EXCEPT !.c = c, !.fg = f, !.bg = b, !.style = style, !.flags = flags]
Blankness(a) == [a EXCEPT !.blank = a.c = Space /\ ~a.combined /\ ~a.leading
                                    /\ a.flags \cap {WIDE_CHAR, WIDE_CHAR_SPACER, WRAPLINE} = {}]
Promise(a) == attrs' = Blankness(a)

Op == steps < MaxSteps /\ steps' = steps + 1

CellInit == /\ content = [cp |-> Space, bits |-> {}]
            /\ fg = PackColor(<<0, 0>>, {}) /\ bg = PackColor(<<0, 0>>, {})
            /\ attrs = Plain /\ steps = 0

\* store_flags, under from_parts: every other bit of the three words starts clear.
FromParts ==
  /\ steps = 0 /\ steps' = 1
  /\ \E c \in Chars, f \in Payloads, b \in Payloads, flags \in FlagInputs :
       LET w == FlagWords(flags)
       IN  /\ content' = [cp |-> c, bits |-> w.content]
           /\ fg' = PackColor(f, w.fg) /\ bg' = PackColor(b, w.bg)
           /\ Promise(Made(c, f, b, Underlined(flags \ StyleField, NormalStyle(flags)), NormalStyle(flags)))

SetC == /\ Op /\ \E c \in Chars : content' = [content EXCEPT !.cp = c] /\ Promise([attrs EXCEPT !.c = c])
        /\ UNCHANGED <<fg, bg>>
SetFg == /\ Op /\ \E c \in Payloads : fg' = PackColor(c, fg.bits) /\ Promise([attrs EXCEPT !.fg = c])
         /\ UNCHANGED <<content, bg>>
SetBg == /\ Op /\ \E c \in Payloads : bg' = PackColor(c, bg.bits) /\ Promise([attrs EXCEPT !.bg = c])
         /\ UNCHANGED <<content, fg>>

\* One presence bit on or off.
Presence(w, bit, on) == [w EXCEPT !.bits = IF on THEN @ \cup {bit} ELSE @ \ {bit}]
SetCombined == /\ Op /\ \E on \in BOOLEAN : content' = Presence(content, C_COMBINED, on) /\ Promise([attrs EXCEPT !.combined = on])
               /\ UNCHANGED <<fg, bg>>
SetLeadingSpacer == /\ Op /\ \E on \in BOOLEAN : /\ content' = Presence(content, C_LEADING_SPACER, on)
                                                 /\ Promise([attrs EXCEPT !.leading = on])
                    /\ UNCHANGED <<fg, bg>>
SetLinked == /\ Op /\ \E on \in BOOLEAN : bg' = Presence(bg, BG_LINK, on) /\ Promise([attrs EXCEPT !.linked = on])
             /\ UNCHANGED <<content, fg>>
SetUcolored == /\ Op /\ \E on \in BOOLEAN : bg' = Presence(bg, BG_UCOLOR, on) /\ Promise([attrs EXCEPT !.ucolored = on])
               /\ UNCHANGED <<content, fg>>

WithStyle(bits, style) == (bits \ StyleBits) \cup Moved(Bits(style), 26)
SetUnderlineStyle ==
  /\ Op /\ \E style \in 0..5 :
             /\ content' = [content EXCEPT !.bits = WithStyle(@, style)]
             /\ Promise(Styled(attrs, attrs.flags, style))
  /\ UNCHANGED <<fg, bg>>

\* Mutant of Inserted: the flags' style is added to the one there.
InsertedOver(bits, w) == bits \cup w
\* Inserting flags keeps the style unless the flags name one; removing flags that
\* name one removes it.
Inserted(bits, w) == LET kept == bits \cup (w \ StyleBits)
                     IN  IF w \cap StyleBits = {} THEN kept ELSE (kept \ StyleBits) \cup (w \cap StyleBits)
Removed(bits, w) == LET kept == bits \ (w \ StyleBits)
                    IN  IF w \cap StyleBits = {} THEN kept ELSE kept \ StyleBits
InsertFlags ==
  /\ Op /\ \E flags \in FlagInputs :
             LET w == FlagWords(flags)
                 style == IF NormalStyle(flags) = 0 THEN attrs.style ELSE NormalStyle(flags)
             IN  /\ content' = [content EXCEPT !.bits = Inserted(@, w.content)]
                 /\ fg' = [fg EXCEPT !.bits = @ \cup w.fg] /\ bg' = [bg EXCEPT !.bits = @ \cup w.bg]
                 /\ Promise(Styled(attrs, attrs.flags \cup (flags \ StyleField), style))
RemoveFlags ==
  /\ Op /\ \E flags \in FlagInputs :
             LET w == FlagWords(flags)
                 style == IF NormalStyle(flags) = 0 THEN attrs.style ELSE 0
             IN  /\ content' = [content EXCEPT !.bits = Removed(@, w.content)]
                 /\ fg' = [fg EXCEPT !.bits = @ \ w.fg] /\ bg' = [bg EXCEPT !.bits = @ \ w.bg]
                 /\ Promise(Styled(attrs, attrs.flags \ (flags \ StyleField), style))
Reset == /\ Op /\ content' = [cp |-> Space, bits |-> {}]
         /\ fg' = PackColor(<<0, 0>>, {}) /\ bg' = PackColor(<<0, 0>>, {}) /\ Promise(Plain)

CellNext == \/ FromParts \/ SetC \/ SetFg \/ SetBg \/ SetCombined \/ SetLeadingSpacer \/ SetLinked \/ SetUcolored
            \/ SetUnderlineStyle \/ InsertFlags \/ RemoveFlags \/ Reset
CellSpec == CellInit /\ [][CellNext]_cellVars

----------------------------------------------------------------------------
\* Cell (cell.rs): whatever is set through one reader's word, every other reader still
\* answers what it was last given; the packing loses and mixes nothing.
AttributesAreIndependent == Read = attrs
=============================================================================
