--------------------------- MODULE MCVerification ---------------------------
EXTENDS Verification

MCNames == {<<"hello">>, <<"hello", "-more">>, <<"hello", "@", "1">>, <<"wasi">>, <<"wasi", "@", "2">>}
MCInterfaces == {<<"hello">>, <<"wasi">>}
MCExemptions == {<<"wasi">>, <<"hello">>, <<"hello", "-more">>}
=============================================================================
