----------------------------- MODULE MCLocation -----------------------------
(* Texts of destinations: 1.1.1.1, ::1 and a::, names with and without dots, a port. *)
EXTENDS Location

MCV4Texts == {<<"1", ".", "1", ".", "1", ".", "1">>}
MCV6Texts == {<<":", ":", "1">>, <<"a", ":", ":">>}
MCNames == {<<"z">>, <<"a", ".", "a">>, <<"1", ".", "1", ".", "1">>,
            <<"1", ".", "1", ".", "1", ".", "1", ".", "1">>}
MCPortTexts == {<<"1">>, <<"1", "1">>}
=============================================================================
