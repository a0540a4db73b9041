--------------------------- MODULE MCMessageService ---------------------------
(***************************************************************************)
(* MessageService with the user id 5, Int64 scaled to 4 bits (max 7), and  *)
(* relayed texts chosen for the cases that matter: a mention of the user,  *)
(* of another user, the user mentioned second, an id above Int64.max and  *)
(* an id in non-ASCII digits.                                              *)
(***************************************************************************)
EXTENDS MessageService

\* ARABIC-INDIC DIGIT THREE (U+0663), a member of \p{Nd}.
ArabicIndicThree == "U+0663"
MCNonAsciiDigits == {ArabicIndicThree}

MentionOfUser == <<"@", "{", "5", "}">>
MentionOfOther == <<"@", "{", "1", "}">>
UserMentionedSecond == <<"@", "{", "1", "}", "@", "{", "5", "}">>
OverflowingId == <<"@", "{", "9", "}">>
NonAsciiId == <<"@", "{", ArabicIndicThree, "}">>

AllTexts == {MentionOfUser, MentionOfOther, UserMentionedSecond, OverflowingId, NonAsciiId}
SafeTexts == {MentionOfUser, MentionOfOther, UserMentionedSecond}
ParseTrapTexts == {OverflowingId, NonAsciiId}
=============================================================================
