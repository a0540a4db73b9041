---------------------------- MODULE MentionParser ----------------------------
(***************************************************************************)
(* MessageService.DEFAULT_MENTIONED_USER_IDS_PARSER (MessageService.swift  *)
(* lines 5-19): the regex "@\{(\d+?)\}" run over a message's text, each    *)
(* captured digit string converted with Int64(String(...))!.               *)
(*                                                                         *)
(* A text is a sequence of characters.  NSRegularExpression's \d is ICU's  *)
(* \p{Nd}: every Unicode decimal digit, not only 0-9.  Swift's             *)
(* Int64(String) accepts ASCII digits only and yields nil when the value   *)
(* exceeds Int64.max; the force unwrap of nil traps.  Int64.max is scaled  *)
(* to 2^(IdWidth-1) - 1 so that an overflowing id fits in a short text.    *)
(***************************************************************************)
EXTENDS Integers, Sequences
LOCAL INSTANCE SequencesExt

CONSTANTS
  NonAsciiDigits,   \* Unicode decimal digits outside 0-9 (e.g. ARABIC-INDIC THREE)
  IdWidth           \* bit width of the user id type (Int64: 64)

ASSUME IdWidth \in Nat \ {0}

AsciiDigits == {"0", "1", "2", "3", "4", "5", "6", "7", "8", "9"}
DigitValue(d) == CHOOSE v \in 0..9 : <<"0", "1", "2", "3", "4", "5", "6", "7", "8", "9">>[v + 1] = d

Int64Max == 2^(IdWidth - 1) - 1
\* nil: a captured digit string is never negative, so -1 is no Int64 result.
Nil == -1

\* \d in an ICU regular expression.
IsRegexDigit(ch) == ch \in AsciiDigits \cup NonAsciiDigits

\* Length of the run of \d starting at position k of t.
RECURSIVE DigitRun(_, _)
DigitRun(t, k) == IF k <= Len(t) /\ IsRegexDigit(t[k]) THEN 1 + DigitRun(t, k + 1) ELSE 0

\* Mutant of MatchEnd: "@{}" with no digit counted as a match.
MatchEndAllowsEmpty(t, k) ==
  IF k + 2 <= Len(t) /\ t[k] = "@" /\ t[k + 1] = "{"
  THEN LET e == k + 2 + DigitRun(t, k + 2) IN
         IF e <= Len(t) /\ t[e] = "}" THEN e ELSE 0
  ELSE 0

\* The end of a match of "@\{(\d+?)\}" starting at k, or 0.  The lazy \d+?
\* grows until "}" follows, which for a run of digits is its whole length.
MatchEnd(t, k) ==
  IF k + 3 <= Len(t) /\ t[k] = "@" /\ t[k + 1] = "{"
  THEN LET e == k + 2 + DigitRun(t, k + 2) IN
         IF e > k + 2 /\ e <= Len(t) /\ t[e] = "}" THEN e ELSE 0
  ELSE 0

\* Mutant of MatchSpansFrom: only the first match (firstMatch(in:range:)).
MatchSpansFirstOnly(t, k) ==
  LET ks == {j \in k..Len(t) : MatchEnd(t, j) > 0} IN
  IF ks = {} THEN <<>>
  ELSE LET j == CHOOSE j \in ks : \A j2 \in ks : j <= j2 IN <<<<j, MatchEnd(t, j)>>>>

\* NSRegularExpression.matches(in:range:): leftmost match, then the
\* search resumes after it.  Each match is the span <<start, end>>.
RECURSIVE MatchSpansFrom(_, _)
MatchSpansFrom(t, k) ==
  IF k > Len(t) THEN <<>>
  ELSE IF MatchEnd(t, k) > 0
       THEN <<<<k, MatchEnd(t, k)>>>> \o MatchSpansFrom(t, MatchEnd(t, k) + 1)
       ELSE MatchSpansFrom(t, k + 1)
MatchSpans(t) == MatchSpansFrom(t, 1)

\* Capture group 1 of a match: the digits between "{" and "}".
Capture(t, span) == SubSeq(t, span[1] + 2, span[2] - 1)

\* Int64(String): nil unless every character is an ASCII digit and the
\* value fits in Int64.
Int64Of(s) ==
  LET v == FoldLeft(LAMBDA acc, d : 10 * acc + DigitValue(d), 0, s) IN
  IF s # <<>> /\ \A k \in 1..Len(s) : s[k] \in AsciiDigits
  THEN IF v <= Int64Max THEN v ELSE Nil
  ELSE Nil

\* DEFAULT_MENTIONED_USER_IDS_PARSER applied to a text: the converted
\* captures in order; a Nil element is a trapping force unwrap.
DefaultMentionedUserIds(t) ==
  [k \in 1..Len(MatchSpans(t)) |-> Int64Of(Capture(t, MatchSpans(t)[k]))]

ParserTraps(t) == \E k \in 1..Len(DefaultMentionedUserIds(t)) : DefaultMentionedUserIds(t)[k] = Nil

\* Reference value of a string of ASCII decimal digits, most significant
\* digit first.
RECURSIVE DecimalValue(_)
DecimalValue(s) ==
  IF s = <<>> THEN 0 ELSE 10 * DecimalValue(SubSeq(s, 1, Len(s) - 1)) + DigitValue(s[Len(s)])

\* The documented format "@{userId}", stated without the scanner: every
\* span that starts with "@{", ends with "}" and holds one or more digits.
MentionSpansOf(t) ==
  {sp \in (1..Len(t)) \X (1..Len(t)) :
     /\ sp[1] + 3 <= sp[2]
     /\ t[sp[1]] = "@" /\ t[sp[1] + 1] = "{" /\ t[sp[2]] = "}"
     /\ \A j \in (sp[1] + 2)..(sp[2] - 1) : IsRegexDigit(t[j])}
=============================================================================
