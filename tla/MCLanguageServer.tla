-------------------------- MODULE MCLanguageServer --------------------------
\* Two messages under way at once.  The second edit does not parse.
EXTENDS LanguageServer

MCUnparsable == {2}
=============================================================================
