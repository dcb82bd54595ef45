------------------------------- MODULE MCStartup -------------------------------
(* The service and one seed job over three files, one of which does not exist.    *)
EXTENDS Bootstrap
CONSTANTS vocab, languages, fixture
Files == <<vocab, fixture, languages>>
================================================================================
