---------------------------- MODULE MCClientIO ----------------------------
EXTENDS ClientIO

MCPieces == {<<"p", "NL">>, <<"b", "CR">>, <<"r", "x", "NL">>, <<"NL">>, <<"!", "NL">>,
             <<"IAC", "DO", "x">>, <<"IAC", "SB", "NAWS", "IAC", "SE">>, <<"IAC">>}
MCTexts == {<<"x">>, <<"x", "NL", "CR", "x", "NL", "CR", "x", "NL", "CR", "x", "NL", "CR">>}
=============================================================================
