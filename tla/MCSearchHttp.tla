---------------------------- MODULE MCSearchHttp ----------------------------
(* Every way to write a prefix, lists of origins with one or two entries,  *)
(* the tokens of all texts up to some length, and those of some cursors.   *)
EXTENDS SearchHttp

Slashed == {<<>>, <<"/">>, <<"api">>, <<"/", "api">>, <<"api", "/">>, <<"/", "api", "/">>}

NoMount == <<>>
AMount  == <<"/", "ilm">>
SomeMounts == {NoMount, AMount}

Plain(o) == [origin |-> o, extras |-> {}]

SomeOriginLists ==
  {{}} \cup {{Plain(o), [origin |-> "console", extras |-> extras]} :
               o \in {"", "*", "console"}, extras \in SUBSET Extras}

SomeCursors == [millis : {0, 2}, key : {<<"x">>, <<"|">>, <<"1", "|">>}]

(* The last of these is beyond MaxTokenLength behind the numeral of 2.     *)
WrittenKeys == {<<"x">>, <<"|">>, <<"1", "|">>, <<"x", "x", "x">>}
CursorTexts == {Token(c).text : c \in [millis : {0, 2, 3}, key : WrittenKeys]}

LongTexts == {<<"v1", "|">> \o t : t \in TextsUpTo(4)}
AllTokens ==
  [encoding : {"exact"}, text : TextsUpTo(3) \cup LongTexts]
  \cup [encoding : Encodings, text : CursorTexts]
=============================================================================
