------------------------------- MODULE Input -------------------------------
(* The bytes a key, a mouse event or a paste becomes under the modes the    *)
(* application set (justerm-core/src/input.rs).  The encoders are pure: a   *)
(* behaviour encodes one event.  A sequence is a tuple of byte values, with *)
(* a decimal number one token, Num(n): every number the encoders write      *)
(* follows a CSI and ends at a byte that is no digit, and the digit a key   *)
(* types is alone or behind one escape.                                     *)
(* Not modelled: the memo before derive_modified_keys, X11 buttons 12 and   *)
(* above, whose drag does not fit the default encoding's one byte, and the  *)
(* UTF-8 encoding's code points past the surrogates.                        *)
EXTENDS Integers, Sequences

CONSTANTS KeyEvents,    \* records [key, mods, action, shifted, base, text]; 0 for an absent character
          KeyModes,     \* records [cursor, keypad, kitty, other2]
          MouseEvents,  \* records [button, action, col, row, px, py, mods]
          Pastes        \* sequences of character codes

VARIABLE report         \* the event encoded, under its modes, and the bytes

inputVars == <<report>>

Num(n) == 1000 + n
ESC == 27
CSI == <<27, 91>>
SS3 == <<27, 79>>

Bit(m, name, value) == IF name \in m THEN value ELSE 0
Has(flags, bit) == (flags \div bit) % 2 = 1

\* csi_param, less one: 0 for none.
CsiBits(m) == Bit(m, "shift", 1) + Bit(m, "alt", 2) + Bit(m, "ctrl", 4) + Bit(m, "meta", 8)
\* kitty_param: one more than the bits in a u8, 1 where there is none to write.  With
\* all eight modifiers it wraps to 0 (a build that checks overflow panics).
KittyBits(m) ==
  Bit(m, "shift", 1) + Bit(m, "alt", 2) + Bit(m, "ctrl", 4) + Bit(m, "super", 8)
  + Bit(m, "hyper", 16) + Bit(m, "meta", 32) + Bit(m, "caps", 64) + Bit(m, "num", 128)
KittyParam(m) == (1 + KittyBits(m)) % 256

-----------------------------------------------------------------------------
(* Keys. *)

Char(c) == [name |-> "char", c |-> c]
Key(name) == [name |-> name, c |-> 0]
Pad(c) == [name |-> "pad", c |-> c]     \* the keypad's key for the character c

Letters == [up |-> 65, down |-> 66, right |-> 67, left |-> 68, home |-> 72, end |-> 70]
Tildes == [insert |-> 2, delete |-> 3, pageup |-> 5, pagedown |-> 6]
FnTilde == << 0, 0, 0, 0, 15, 17, 18, 19, 20, 21, 23, 24 >>
Controls == [enter |-> 13, tab |-> 9, backspace |-> 127, escape |-> 27]

\* functional_key: the number and the terminator; <<>> for no functional key.
FunctionalKey(key) ==
  CASE key.name \in DOMAIN Letters -> <<1, Letters[key.name]>>
    [] key.name \in DOMAIN Tildes -> <<Tildes[key.name], 126>>
    [] key.name = "f" /\ key.c \in 1 .. 4 -> <<1, 79 + key.c>>
    [] key.name = "f" /\ key.c \in 5 .. 12 -> <<FnTilde[key.c], 126>>
    [] OTHER -> <<>>

CodePoint(key) == IF key.name = "char" THEN key.c ELSE Controls[key.name]

\* kitty_encode, kitty_seq, kitty_csi_u; <<>> falls through to the legacy form.
KittyEncode(ev, flags) ==
  LET event == IF ~Has(flags, 2) THEN 0 ELSE CASE ev.action = "press" -> 0 [] ev.action = "repeat" -> 2
                                               [] ev.action = "release" -> 3
      modified == ev.mods # {}
      functional == FunctionalKey(ev.key)
      always == (Has(flags, 1) /\ ev.key.name = "escape") \/ Has(flags, 8)
      alternates == IF ~Has(flags, 4) \/ (ev.shifted = 0 /\ ev.base = 0) THEN <<>>
                    ELSE <<58>> \o (IF ev.shifted = 0 THEN <<>> ELSE <<Num(ev.shifted)>>)
                           \o (IF ev.base = 0 THEN <<>> ELSE <<58, Num(ev.base)>>)
      text == IF Has(flags, 16) THEN ev.text ELSE 0
      Parameter(more) == IF ~modified /\ event = 0 /\ ~more THEN <<>>
                         ELSE <<59, Num(KittyParam(ev.mods))>> \o (IF event = 0 THEN <<>> ELSE <<58, Num(event)>>)
  IN CASE functional # <<>> ->
            IF event = 0 /\ ~modified THEN <<>>
            ELSE CSI \o <<Num(functional[1])>> \o Parameter(FALSE) \o <<functional[2]>>
       [] functional = <<>> /\ ev.key.name \in DOMAIN Controls \cup {"char"} ->
            IF ~always /\ event = 0 /\ ~(Has(flags, 1) /\ modified) THEN <<>>
            ELSE CSI \o <<Num(CodePoint(ev.key))>> \o alternates \o Parameter(text # 0)
                   \o (IF text = 0 THEN <<>> ELSE <<59, Num(text)>>) \o <<117>>
       [] OTHER -> <<>>

\* modify_other_key and char_qualifies; <<>> for a key it leaves alone.
\* Mutant of Qualifies: enter and escape keep their legacy byte.
CharQualifies(key, mods) ==
  CASE key.name = "char" -> CsiBits(mods \ {"shift"}) # 0 \/ (mods = {"shift"} /\ key.c = 32)
    [] key.name = "tab" -> CsiBits(mods \ {"shift"}) # 0
    [] key.name = "backspace" -> CsiBits(mods \ {"ctrl"}) # 0
    [] OTHER -> FALSE
Qualifies(key, mods) ==
  CASE key.name = "char" -> CsiBits(mods \ {"shift"}) # 0 \/ (mods = {"shift"} /\ key.c = 32)
    [] key.name = "tab" -> CsiBits(mods \ {"shift"}) # 0
    [] key.name \in {"enter", "escape"} -> CsiBits(mods) # 0
    [] key.name = "backspace" -> CsiBits(mods \ {"ctrl"}) # 0
    [] OTHER -> FALSE

ModifyOtherKey(key, mods) ==
  IF ~Qualifies(key, mods) \/ CsiBits(mods) = 0 THEN <<>>
  ELSE CSI \o <<Num(27), 59, Num(1 + CsiBits(mods)), 59, Num(CodePoint(key)), 126>>

\* encode_char.
EncodeChar(c, mods) ==
  LET control == CASE c \in 97 .. 122 -> c - 96
                   [] c \in 65 .. 90 -> c - 64
                   [] c \in {64, 32} -> 0
                   [] c \in {91, 92, 93, 94, 95} -> c - 64
                   [] OTHER -> c
  IN (IF "alt" \in mods THEN <<ESC>> ELSE <<>>) \o <<IF "ctrl" \in mods THEN control ELSE c>>

\* keypad_key, which takes no modifiers: an SS3 form, or the character.
KeypadKey(c, application) ==
  IF application THEN SS3 \o <<IF c = 61 THEN 88 ELSE c + 64>> ELSE <<c>>

\* cursor_key, tilde_key, function_key, and encode_key.
Legacy(key, mods, mode) ==
  LET bits == CsiBits(mods)
      parameter == <<59, Num(1 + bits)>>
      Tilde(n) == CSI \o <<Num(n)>> \o (IF bits = 0 THEN <<>> ELSE parameter) \o <<126>>
      bare == IF key.name = "tab" /\ "shift" \in mods THEN CSI \o <<90>> ELSE <<Controls[key.name]>>
  IN CASE key.name = "char" -> EncodeChar(key.c, mods)
       [] key.name = "pad" -> KeypadKey(key.c, mode.keypad)
       [] key.name \in DOMAIN Letters ->
            IF bits # 0 THEN CSI \o <<Num(1)>> \o parameter \o <<Letters[key.name]>>
            ELSE (IF mode.cursor THEN SS3 ELSE CSI) \o <<Letters[key.name]>>
       [] key.name \in DOMAIN Tildes -> Tilde(Tildes[key.name])
       [] key.name \in DOMAIN Controls -> (IF "alt" \in mods THEN <<ESC>> ELSE <<>>) \o bare
       [] key.name = "f" /\ key.c \in 1 .. 4 ->
            IF bits # 0 THEN CSI \o <<Num(1)>> \o parameter \o <<79 + key.c>> ELSE SS3 \o <<79 + key.c>>
       [] key.name = "f" /\ key.c \in 5 .. 12 -> Tilde(FnTilde[key.c])
       [] OTHER -> <<>>

EncodeKey(ev, mode) ==
  LET kitty == IF mode.kitty = 0 THEN <<>> ELSE KittyEncode(ev, mode.kitty)
      other == IF mode.other2 THEN ModifyOtherKey(ev.key, ev.mods) ELSE <<>>
  IN CASE kitty # <<>> -> kitty
       [] kitty = <<>> /\ other # <<>> -> other
       [] OTHER -> Legacy(ev.key, ev.mods, mode)

-----------------------------------------------------------------------------
(* Mouse and paste. *)

Wheels == {"wheelup", "wheeldown", "wheelleft", "wheelright"}
ButtonBits == [left |-> 0, middle |-> 1, right |-> 2, none |-> 3, wheelup |-> 64, wheeldown |-> 65,
               wheelleft |-> 66, wheelright |-> 67, back |-> 128, forward |-> 129, b10 |-> 130, b11 |-> 131]
Protocols == {"off", "x10", "normal", "button", "any"}
Encodings == {"default", "sgr", "urxvt", "utf8", "pixels"}

\* wanted_events and event_category.
Wanted(proto) ==
  CASE proto = "off" -> {}
    [] proto = "x10" -> {"down"}
    [] proto = "normal" -> {"down", "up", "wheel"}
    [] proto = "button" -> {"down", "up", "wheel", "drag"}
    [] proto = "any" -> {"down", "up", "wheel", "drag", "move"}
Category(ev) ==
  CASE ev.action = "press" -> IF ev.button \in Wheels THEN "wheel" ELSE "down"
    [] ev.action = "release" -> "up"
    [] ev.action = "motion" -> IF ev.button = "none" THEN "move" ELSE "drag"

\* encode_mouse; <<>> for an event that is dropped.
Capped(n) == IF n > 255 THEN 255 ELSE n
EncodeMouse(ev, proto, enc) ==
  LET motion == IF ev.action = "motion" THEN 32 ELSE 0
      mods == IF proto = "x10" THEN 0
              ELSE Bit(ev.mods, "shift", 4) + Bit(ev.mods, "alt", 8) + Bit(ev.mods, "ctrl", 16)
      anonymous == (IF ev.action = "release" THEN 3 ELSE ButtonBits[ev.button]) + motion + mods + 32
      \* Byte wraps as `as u8` does; a UTF-8 coordinate is one code point.
      Byte(n) == n % 256
  IN IF (ev.action = "release" /\ ev.button \in Wheels) \/ Category(ev) \notin Wanted(proto) THEN <<>>
     ELSE CASE enc \in {"sgr", "pixels"} ->
                 CSI \o <<60, Num(ButtonBits[ev.button] + motion + mods), 59,
                          Num(1 + (IF enc = "pixels" THEN ev.px ELSE ev.col)), 59,
                          Num(1 + (IF enc = "pixels" THEN ev.py ELSE ev.row)),
                          IF ev.action = "release" THEN 109 ELSE 77>>
            [] enc = "default" -> CSI \o <<77, Byte(anonymous), Capped(ev.col + 33), Capped(ev.row + 33)>>
            [] enc = "urxvt" -> CSI \o <<Num(anonymous), 59, Num(ev.col + 1), 59, Num(ev.row + 1), 77>>
            [] enc = "utf8" -> CSI \o <<77, Num(anonymous), Num(ev.col + 33), Num(ev.row + 33)>>

\* encode_paste.
CR == 13
LF == 10
Symbol == 9243          \* the symbol for an escape
Bracket(n) == CSI \o <<Num(n), 126>>
EncodePaste(text, bracketed) ==
  LET Of(i) == CASE text[i] = CR /\ i < Len(text) /\ text[i + 1] = LF -> <<>>
                 [] text[i] = LF -> <<CR>>
                 [] text[i] = ESC /\ bracketed -> <<Symbol>>
                 [] OTHER -> <<text[i]>>
      body[i \in 0 .. Len(text)] == IF i = 0 THEN <<>> ELSE body[i - 1] \o Of(i)
  IN IF bracketed THEN Bracket(200) \o body[Len(text)] \o Bracket(201) ELSE body[Len(text)]

-----------------------------------------------------------------------------
Idle == [kind |-> "none"]

SendKey ==
  \E ev \in KeyEvents, mode \in KeyModes :
    /\ report = Idle
    /\ report' = [kind |-> "key", ev |-> ev, mode |-> mode, bytes |-> EncodeKey(ev, mode)]
\* The widget's router reports no press or release without a button.
SendMouse ==
  \E ev \in MouseEvents, proto \in Protocols, enc \in Encodings :
    /\ report = Idle
    /\ ev.button = "none" => ev.action = "motion"
    /\ report' = [kind |-> "mouse", ev |-> ev, proto |-> proto, enc |-> enc, bytes |-> EncodeMouse(ev, proto, enc)]
Paste ==
  \E text \in Pastes, bracketed \in BOOLEAN :
    /\ report = Idle
    /\ report' = [kind |-> "paste", text |-> text, bracketed |-> bracketed, bytes |-> EncodePaste(text, bracketed)]

InputInit == report = Idle
InputNext == SendKey \/ SendMouse \/ Paste

-----------------------------------------------------------------------------
\* What a keyboard protocol leaves out of an event; nothing where it tells all.
\* Without the event types a release reads as a press; modifyOtherKeys tells
\* neither Super nor the locks, nor Shift alone on a character, which is the
\* character (but for a space with no other modifier), nor Ctrl on a backspace.
\* A keypad key is outside both protocols: it is a press without modifiers, and in
\* numeric mode it is the key that types its character.
PadTold(key, mode) ==
  [key |-> CASE mode.keypad -> key [] ~mode.keypad /\ key.c = 13 -> Key("enter") [] OTHER -> Char(key.c),
   action |-> "press", mods |-> {}]
CharMods == {"shift", "alt", "ctrl", "meta"}
Told(ev, mode) ==
  LET other == ev.mods \cap CharMods
  IN IF ev.key.name = "pad" THEN PadTold(ev.key, mode) ELSE
     [key |-> ev.key,
      action |-> IF Has(mode.kitty, 2) THEN ev.action ELSE "press",
      mods |-> CASE Has(mode.kitty, 1) -> ev.mods
                 [] OTHER -> IF ev.key.name = "char" /\ other = {"shift"} /\ ~(ev.key.c = 32 /\ ev.mods = other) THEN {}
                             ELSE IF ev.key.name = "backspace" /\ other = {"ctrl"} THEN {}
                             ELSE other]
Negotiated(mode) == Has(mode.kitty, 1) \/ (mode.kitty = 0 /\ mode.other2)

(* An application that negotiated a keyboard protocol can tell every two      *)
(* presses apart that the protocol distinguishes, whatever mixture of kitty   *)
(* flags, cursor and keypad mode and modifyOtherKeys it left on.  No key but  *)
(* the keypad's falls through to a legacy form another key has.  The keypad's *)
(* always fall through, their modifiers and their release unsaid: to forms of *)
(* their own in application mode, to their character's in numeric mode        *)
(* (input.rs encode_key, kitty_encode, modify_other_key, keypad_key,          *)
(* docs/map/territory/input-encoding.md).                                     *)
KeysAreTold ==
  (report.kind = "key" /\ Negotiated(report.mode)) =>
    \A ev \in KeyEvents :
      EncodeKey(ev, report.mode) = report.bytes => Told(ev, report.mode) = Told(report.ev, report.mode)

\* What a mouse encoding leaves out: the release's button, X10's modifiers, and
\* in the default encoding the column and the row past the 223rd.
Reported(ev, proto, enc) ==
  [button |-> IF enc \notin {"sgr", "pixels"} /\ ev.action = "release" THEN "none" ELSE ev.button,
   action |-> ev.action,
   mods |-> IF proto = "x10" THEN {} ELSE ev.mods \cap {"shift", "alt", "ctrl"},
   x |-> CASE enc = "pixels" -> ev.px [] enc = "default" -> Capped(ev.col + 33) [] OTHER -> ev.col,
   y |-> CASE enc = "pixels" -> ev.py [] enc = "default" -> Capped(ev.row + 33) [] OTHER -> ev.row]

(* Two mouse events that reach the application with the same bytes are the    *)
(* same event as far as the encoding can tell, at the last cell a byte        *)
(* reaches and past it, and no report holds a control character: the button,  *)
(* the motion and the modifiers never run into one another (input.rs          *)
(* encode_mouse).                                                             *)
MouseIsTold ==
  (report.kind = "mouse" /\ report.bytes # <<>>) =>
    /\ report.enc = "default" => \A i \in 4 .. 6 : report.bytes[i] >= 32
    /\ \A ev \in {e \in MouseEvents : e.button = "none" => e.action = "motion"} :
         EncodeMouse(ev, report.proto, report.enc) = report.bytes =>
           Reported(ev, report.proto, report.enc) = Reported(report.ev, report.proto, report.enc)

(* A pasted text can neither close its own bracket nor send two returns for   *)
(* one line ending (input.rs encode_paste).                                   *)
PasteStaysInside ==
  report.kind = "paste" =>
    LET endings == {i \in DOMAIN report.text : report.text[i] = LF \/ (report.text[i] = CR
                      /\ ~(i < Len(report.text) /\ report.text[i + 1] = LF))}
        Count(s, b) == LET n[i \in 0 .. Len(s)] == IF i = 0 THEN 0 ELSE n[i - 1] + (IF s[i] = b THEN 1 ELSE 0)
                       IN n[Len(s)]
        ends[i \in 0 .. Len(report.text)] == IF i = 0 THEN 0 ELSE ends[i - 1] + (IF i \in endings THEN 1 ELSE 0)
    IN /\ Count(report.bytes, CR) = ends[Len(report.text)]
       /\ Count(report.bytes, LF) = 0
       /\ report.bracketed => Count(report.bytes, ESC) = 2

\* All three (input.rs).
InputIsTold == KeysAreTold /\ MouseIsTold /\ PasteStaysInside
=============================================================================
