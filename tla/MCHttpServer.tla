---------------------------- MODULE MCHttpServer ----------------------------
\* The instance of HttpServer that TLC checks.
EXTENDS HttpServer

\* A PATCH with a line that is no candidate first.
SomeBodies == {<<"other", "candidate">>}
=============================================================================
