---------------------------- MODULE ToolAdmission ----------------------------
(* Which nested tools a session gets.  A session contract names the mode and,   *)
(* in pi mode, the built-in tools (core/mode.ts); each mode has its own list of *)
(* built-in descriptors (modes/*/tools.ts); the broker's constructor admits a   *)
(* list of descriptors one by one or refuses the whole of it                    *)
(* (broker/broker.ts).  Only operators: the module Extension uses them when it  *)
(* configures a session.                                                        *)
EXTENDS Naturals, Sequences, SequencesExt

CONSTANTS Unsupported,    \* a recorded entry the parser passes over
          Refused         \* the constructor's answer to a list it does not admit

Modes == {"codex", "pi"}
DefaultMode == "codex"

DefaultBuiltins == <<"read", "bash", "edit", "write">>

(* pi's own built-in tools in their own order, those that are among the names.  *)
NormalizeBuiltins(names) ==
  LET Named(builtin) == IF builtin \in ToSet(names) THEN <<builtin>> ELSE <<>>
  IN Named("read") \o Named("bash") \o Named("powershell") \o Named("edit")
       \o Named("write") \o Named("grep") \o Named("find") \o Named("ls")

(* Mutant: the names are kept in the order pi lists them.                       *)
CreateContractAsGiven(mode, names) ==
  [mode |-> mode, builtins |-> IF mode = "pi" THEN names ELSE <<>>]

CreateContract(mode, names) ==
  [mode |-> mode,
   builtins |-> IF mode = "pi" THEN NormalizeBuiltins(names) ELSE <<>>]

(* A recorded entry is a contract or data of another version or shape, which    *)
(* is passed over.                                                              *)
ParseContract(entry) ==
  IF entry = Unsupported THEN Unsupported
  ELSE CreateContract(entry.mode, entry.builtins)

------------------------------------------------------------------------------
Tool(id, path, modes, effect) ==
  [id |-> id, path |-> path, modes |-> modes, effect |-> effect]

CodexTools ==
  << Tool("codex.exec_command", <<"exec_command">>, {"codex"}, "execute"),
     Tool("codex.write_stdin", <<"write_stdin">>, {"codex"}, "interactive"),
     Tool("codex.apply_patch", <<"apply_patch">>, {"codex"}, "write") >>

PiEffect(name) ==
  CASE name \in {"bash", "powershell"} -> "execute"
    [] name \in {"edit", "write"} -> "write"
    [] OTHER -> "read"

PiTools(builtins) ==
  [i \in DOMAIN builtins |->
     Tool("pi." \o builtins[i], <<builtins[i]>>, {"pi"}, PiEffect(builtins[i]))]

BuiltinTools(contract) ==
  IF contract.mode = "codex" THEN CodexTools ELSE PiTools(contract.builtins)

------------------------------------------------------------------------------
Effects == {"read", "write", "execute", "interactive"}
ReservedSegments == {"__proto__", "constructor", "prototype"}
SafeSegment(segment) == segment # ""

ValidDescriptor(tool) ==
  /\ tool.id # ""
  /\ tool.path # <<>>
  /\ \A i \in DOMAIN tool.path :
       SafeSegment(tool.path[i]) /\ tool.path[i] \notin ReservedSegments

PathCollides(left, right) == IsPrefix(left, right) \/ IsPrefix(right, left)

(* The constructor takes the descriptors one after the other and throws at the  *)
(* first it does not admit.  Those for another mode are passed over.            *)
Admit(mode, tools) ==
  LET admitted == SelectSeq(tools, LAMBDA tool : mode \in tool.modes) IN
  IF \/ \E i \in DOMAIN tools : ~ ValidDescriptor(tools[i])
     \/ \E i \in DOMAIN admitted : admitted[i].effect \notin Effects
     \/ \E i, j \in DOMAIN admitted :
          /\ i < j
          /\ \/ admitted[i].id = admitted[j].id
             \/ PathCollides(admitted[i].path, admitted[j].path)
  THEN Refused ELSE admitted
==============================================================================
