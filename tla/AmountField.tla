---------------------------- MODULE AmountField ----------------------------
(***************************************************************************)
(* The amount field of the browser wallet: what the user does to its text, *)
(* and what formatCurrency (app/wallet/chrome/scripts/popup.js) makes of   *)
(* the text and of the caret when a key comes up or the field loses focus. *)
(* A text is a sequence of characters; the caret is the number of          *)
(* characters to its left.                                                 *)
(*                                                                         *)
(* The definitions named Fault... are plausible slips in the definition    *)
(* that follows them: nothing uses them, and the checks detect them.       *)
(***************************************************************************)
EXTENDS Integers, Sequences

CONSTANTS
  Digit,       \* the digits
  Typed,       \* the characters the user types: digits and others
  MaxLength,   \* bound: the characters in the field
  MaxAlone,    \* bound: those in a text that begins with a point
  MaxEdits     \* bound: edits before a key comes up (a paste, two keys at once)

Dollar == "$"
Comma == ","
Point == "."

ASSUME CharacterAssumption == Digit \cap {Dollar, Comma, Point} = {}
ASSUME BoundAssumption == MaxLength \in Nat /\ MaxAlone \in Nat /\ MaxEdits \in Nat

VARIABLES text, caret, edits

vars == <<text, caret, edits>>

Char == Digit \cup Typed \cup {Dollar, Comma}

\* The characters of a text that are in C, in their order.
Only(t, C) ==
  LET kept[n \in 0 .. Len(t)] ==
        IF n = 0 THEN <<>>
        ELSE kept[n - 1] \o (IF t[n] \in C THEN <<t[n]>> ELSE <<>>)
  IN  kept[Len(t)]

-----------------------------------------------------------------------------
FaultGroupsOfFour(digits) ==
  LET length == Len(digits) + (Len(digits) - 1) \div 4
      Place(i) == length - i
  IN  IF digits = <<>> THEN <<>>
      ELSE [i \in 1 .. length |->
              IF Place(i) % 5 = 4 THEN Comma
              ELSE digits[Len(digits) - Place(i) + Place(i) \div 5]]

\* A comma wherever a multiple of three digits follows, counting places from the
\* right.
GroupDigits(digits) ==
  LET length == Len(digits) + (Len(digits) - 1) \div 3
      Place(i) == length - i
  IN  IF digits = <<>> THEN <<>>
      ELSE [i \in 1 .. length |->
              IF Place(i) % 4 = 3 THEN Comma
              ELSE digits[Len(digits) - Place(i) + Place(i) \div 4]]

FaultOtherLocale(n) ==
  LET grouped == GroupDigits(Only(n, Digit))
  IN  [i \in DOMAIN grouped |-> IF grouped[i] = Comma THEN " " ELSE grouped[i]]

FormatNumber(n) == GroupDigits(Only(n, Digit))

\* Empty, or begins with a point.
LeftAlone(t) == t = <<>> \/ t[1] = Point

FaultFirstLost(input) ==
  IF LeftAlone(input) THEN input ELSE <<Dollar>> \o FormatNumber(Tail(input))

FormatCurrency(input) ==
  IF LeftAlone(input) THEN input ELSE <<Dollar>> \o FormatNumber(input)

\* setSelectionRange takes a position without a sign: one left of the text is
\* taken for a large one, and stops at the end.
Clamped(position, length) == IF position \in 0 .. length THEN position ELSE length

FaultCaretStays(old, new, position) == Clamped(position, Len(new))

\* The caret moves by what the text has grown.
CaretAfter(old, new, position) == Clamped(Len(new) - Len(old) + position, Len(new))

-----------------------------------------------------------------------------
Init == text = <<>> /\ caret = 0 /\ edits = 0

\* The user: a character typed at the caret, one deleted on either side of it,
\* the caret moved.
Insert ==
  /\ edits < MaxEdits
  /\ Len(text) < IF LeftAlone(text) THEN MaxAlone ELSE MaxLength
  /\ \E c \in Typed :
       text' = SubSeq(text, 1, caret) \o <<c>> \o SubSeq(text, caret + 1, Len(text))
  /\ caret' = caret + 1
  /\ edits' = edits + 1

Delete ==
  /\ edits < MaxEdits
  /\ \E i \in {caret, caret + 1} \cap (1 .. Len(text)) :
       /\ text' = SubSeq(text, 1, i - 1) \o SubSeq(text, i + 1, Len(text))
       /\ caret' = i - 1
  /\ edits' = edits + 1

MoveCaret == caret' \in 0 .. Len(text) /\ UNCHANGED <<text, edits>>

\* formatCurrencyKeyup and formatCurrencyBlur.
Format ==
  /\ text' = FormatCurrency(text)
  /\ caret' = IF LeftAlone(text) THEN caret
              ELSE CaretAfter(text, FormatCurrency(text), caret)
  /\ edits' = 0

Next == Insert \/ Delete \/ MoveCaret \/ Format

Spec == Init /\ [][Next]_vars

-----------------------------------------------------------------------------
\* The field holds characters, and the caret is in it or at one of its ends
\* wherever formatCurrency puts it.
TypeOK ==
  /\ text \in Seq(Char)
  /\ caret \in 0 .. Len(text)
  /\ edits \in 0 .. MaxEdits

\* Digits, and a comma exactly where three, six... places follow it.
Grouped(t) ==
  \A i \in DOMAIN t :
    IF (Len(t) - i) % 4 = 3 THEN t[i] = Comma ELSE t[i] \in Digit

\* The pattern of the field in popup.html, for whole amounts: a dollar sign, one to
\* three digits, groups of three behind commas.
Pattern(t) == Len(t) > 1 /\ t[1] = Dollar /\ Grouped(Tail(t)) /\ t[2] # Comma

\* After formatting, a text that has a digit matches the pattern, and any other is a
\* dollar sign.  formatCurrency leaves that sign, the empty text and the texts that
\* begin with a point alone; the pattern refuses the sign and such texts.
MatchesPattern ==
  edits = 0 /\ ~LeftAlone(text) =>
    IF \E i \in DOMAIN text : text[i] \in Digit THEN Pattern(text) ELSE text = <<Dollar>>

\* What submitTran and createTransaction hand to Number.
Amount(t) == Only(t, Char \ {Dollar, Comma})

\* Formatting does not change the amount that will be sent, wherever commas and
\* dollar signs are left by the edits before it.
WholeAmountKept ==
  [][Format /\ (\A i \in DOMAIN text : text[i] \in Digit \cup {Dollar, Comma}) =>
       Amount(text') = Amount(text)]_vars

\* The caret stays before the digits it was before, also where the text to its
\* left loses or gains commas, a dollar sign or junk, provided that the text to its
\* right was in order: what was typed at one place of a formatted amount.
RightOf(t, position) == SubSeq(t, position + 1, Len(t))
CaretKeepsPlace ==
  [][Format /\ Grouped(RightOf(text, caret)) =>
       Only(RightOf(text', caret'), Digit) = Only(RightOf(text, caret), Digit)]_vars

\* popup.js:525 says the function "validates decimal side", and the pattern of the
\* field in popup.html allows a decimal part: formatting an amount that has one
\* gives the same amount.
HasDecimals(t) ==
  \E i \in 2 .. Len(t) - 1 :
    /\ t[i] = Point /\ t[i - 1] \in Digit /\ t[i + 1] \in Digit
    /\ \A j \in DOMAIN t \ {i} : t[j] \in Digit \cup {Dollar, Comma}
DecimalAmountKept ==
  [][Format /\ HasDecimals(text) => Amount(text') = Amount(text)]_vars
=============================================================================
