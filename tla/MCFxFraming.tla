----------------------------- MODULE MCFxFraming ------------------------------
(* What GX Works and a person at a terminal send to the port. *)
EXTENDS FxFraming

Msg(kind, bytes) == [kind |-> kind, bytes |-> bytes, ssid |-> <<>>, key |-> <<>>]
Frame(body) == <<"STX">> \o body \o <<"ETX">> \o Sum(body \o <<"ETX">>)

Protocol == {
    Msg("enq", <<"ENQ">>), Msg("dump", <<"?">>),
    Msg("read", Frame(<<"0", "1">>)), Msg("write", Frame(<<"1">>)),
    Msg("bad", <<"STX", "1", "ETX", "0", "1">>),
    Msg("bad", <<"STX", "ETX", "0", "1">>),
    Msg("overlong", <<"STX", "1", "0", "1", "0", "1", "0", "1", "ETX", "0", "1">>)}

Line(ssid, key, rest) ==
    [kind |-> "line", ssid |-> ssid, key |-> key,
     bytes |-> <<"wifi", " ">> \o ssid \o <<" ">> \o key \o rest \o <<"CR">>]

\* The shortest and the longest legal line, too short and too long a key, a
\* third token, a line whose first part alone would be legal, and one that is
\* no command.
Lines == {
    Line(<<"1">>, <<"0", "1">>, <<" ">>), Line(<<"1", "0">>, <<"0", "1", "1">>, <<>>),
    Line(<<"1">>, <<"0">>, <<>>), Line(<<"1">>, <<"1", "1", "1", "1">>, <<>>),
    [Line(<<"1">>, <<"0", "1">>, <<" ", "0">>) EXCEPT !.key = <<>>],
    [Line(<<"1">>, <<"1", "0">>, <<" ", " ", " ", " ", "1">>) EXCEPT !.key = <<>>],
    Msg("other", <<"0", "CR">>)}

MCMessages == Protocol \cup Lines

ASSUME MessagesArePlain == \A m \in MCMessages : Plain(m)

\* A passphrase with a question mark in it.
MCQuestionMark == {Msg("enq", <<"ENQ">>), Line(<<"1">>, <<"0", "?", "1">>, <<>>)}

==============================================================================
