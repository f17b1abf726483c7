---------------------------- MODULE MCExtension ------------------------------
(* Two other extensions: one registers a tool of its own for both modes, one a  *)
(* tool whose path is taken in pi mode.  The command lines are one that saves   *)
(* both settings, one that relies on what is saved, and ones that must not      *)
(* save: for want of a value, after --help, and behind a bare "--".             *)
EXTENDS Extension

MCRegistrations ==
  { << Tool("other.lookup", <<"other", "lookup">>, {"codex", "pi"}, "read") >>,
    << Tool("other.read", <<"read", "lines">>, {"pi"}, "read") >> }
MCActiveBuiltins == <<"edit", "read">>
MCCommandLines ==
  { <<"--provider", "p", "--mode", "pi", "--save-config">>,
    <<"--save-config", "hello">>,
    <<"--save-config", "--provider">>,
    <<"--", "--save-config">> }
==============================================================================
