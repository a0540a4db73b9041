--------------------------- MODULE MCMentionParser ---------------------------
(***************************************************************************)
(* Exhaustive check of the default mention parser over every text of at    *)
(* most MaxTextLen characters drawn from a small alphabet: the text grows  *)
(* one character per step, so every reachable state is one input.          *)
(***************************************************************************)
EXTENDS MentionParser
LOCAL INSTANCE SequencesExt

CONSTANTS
  MaxTextLen,       \* longest text checked
  OtherChars        \* characters that are neither digits nor regex syntax

VARIABLE text

\* ARABIC-INDIC DIGIT THREE (U+0663), a member of \p{Nd}.
ArabicIndicThree == "U+0663"
MCNonAsciiDigits == {ArabicIndicThree}

Alphabet == {"@", "{", "}", "1", "9"} \cup NonAsciiDigits \cup OtherChars

Init == text = <<>>

Extend ==
  /\ Len(text) < MaxTextLen
  /\ \E ch \in Alphabet : text' = Append(text, ch)

Spec == Init /\ [][Extend]_text

(* The scanner (leftmost match, resume after it) finds exactly the spans  *)
(* of the documented "@{userId}" format, in increasing order: the lazy     *)
(* \d+? and the restart position of NSRegularExpression.matches neither   *)
(* lose nor invent a mention.                                              *)
ScannerAgreesWithFormat ==
  /\ ToSet(MatchSpans(text)) = MentionSpansOf(text)
  /\ \A k \in 1..(Len(MatchSpans(text)) - 1) : MatchSpans(text)[k][2] < MatchSpans(text)[k + 1][1]
=============================================================================
