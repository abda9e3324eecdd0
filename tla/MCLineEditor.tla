--------------------------- MODULE MCLineEditor ---------------------------
EXTENDS LineEditor

\* One command is a prefix of another, two share a beginning that is none.
MCCommands == << <<"a">>, <<"a", "b">>, <<"b", "a", "a">>, <<"b", "a", "b">> >>
MCPathCommands == {<<"a">>}
MCNames == << <<"a">>, <<"b", "a">>, <<"b", "a", "a">> >>
============================================================================
