------------------------------ MODULE MCShell -------------------------------
(* Shell for TLC: lines that run every stage, redirect in every place, or  *)
(* are malformed in every way.                                             *)
EXTENDS Shell

MCLines == {
  <<"cat", "f", "|", "wc">>,
  <<"cat", "<", "f", "|", "cat", "|", "wc", ">>", "f">>,
  <<"cat", "f", "|", "wc", "<", "f">>,
  <<"wc", "f", "f", ">", "f">>,
  <<"cat", "f", "|", "cat", "f">>,
  <<"|", "wc">>, <<"cat", "f", ">", "|", "wc">>, <<"cat", "f", "f", "f">>,
  <<"wc", "|", "wc", "|", "wc", "|", "wc">>, <<"wc", "<">>}
=============================================================================
