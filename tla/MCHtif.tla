------------------------------- MODULE MCHtif -------------------------------
EXTENDS Htif

\* Two characters are typed, 0 among them.
TypedInput == <<0, 1>>
=============================================================================
