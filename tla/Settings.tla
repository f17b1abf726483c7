------------------------------ MODULE Settings -------------------------------
(* The user's settings file (harness/config.ts) and the command line that       *)
(* overrides and saves them (harness/cli.ts).  Two processes write the file:    *)
(* the agent, when /code-mode saves the default mode, and a second agent being  *)
(* started from a shell with --save-config.  A save creates a temporary file,   *)
(* fills it and renames it over the settings.  The provider stands for the      *)
(* provider, the model and the name of the key's environment variable, which    *)
(* are read and saved alike.                                                    *)
EXTENDS Naturals, Sequences, ToolAdmission

CONSTANTS None,           \* no value, no file
          Partial,        \* the content of a file that is still being written
          Corrupt,        \* content the parser refuses, as a user's edit leaves it
          Providers,      \* values of the setting: any argument that is no option
          CommandLines    \* argument lists of the second process

Config == [provider : Providers \cup {None}, mode : Modes \cup {None}]
NoConfig == [provider |-> None, mode |-> None]

VARIABLES files,          \* the content of each path, None when there is no file
          saving          \* the configuration the agent's save is writing
settings == <<files, saving>>

SettingsPath == "config.json"
TempPathShared == SettingsPath   \* mutant: the settings are written in place
TempPath == "temporary"   \* the path, the process id and the time: a new name
Paths == {SettingsPath, "temporary"}

SettingsTypeOK ==
  /\ files \in [Paths -> Config \cup {None, Partial, Corrupt}]
  /\ saving \in Config \cup {None}

SettingsInit ==
  /\ \E content \in {None, Corrupt, [provider |-> None, mode |-> "pi"]} :
       files = [path \in Paths |-> IF path = SettingsPath THEN content ELSE None]
  /\ saving = None

------------------------------------------------------------------------------
(* loadCodeModeConfig: throws on content it cannot parse.                       *)
Unreadable == files[SettingsPath] \in {Partial, Corrupt}
Loaded == IF files[SettingsPath] = None THEN NoConfig ELSE files[SettingsPath]

(* saveCodeModeConfig, one system call per action.  The temporary file has a    *)
(* new name in every save, so it never exists yet.                              *)
SaveCreate(config) ==
  /\ saving' = config
  /\ files' = [files EXCEPT ![TempPath] = Partial]
SaveFill ==
  /\ saving # None /\ files[TempPath] = Partial
  /\ files' = [files EXCEPT ![TempPath] = saving]
  /\ UNCHANGED saving
SaveRename ==
  /\ saving # None /\ files[TempPath] = saving
  /\ files' = [files EXCEPT ![SettingsPath] = files[TempPath], !["temporary"] = None]
  /\ saving' = None
(* A call fails: the temporary file is removed and the error passed on.         *)
SaveFail ==
  /\ saving # None
  /\ files' = [files EXCEPT ![TempPath] = None]
  /\ saving' = None

------------------------------------------------------------------------------
(* parseArguments, one argument at a time: "want" is the option whose value     *)
(* comes next, "rest" is set by a bare "--", and "ends" when the process stops  *)
(* here: after --help, an unknown option, or one without a proper value.        *)
Options == {"--provider", "--mode", "--save-config", "--help", "--unknown", "--"}
ASSUME SettingsAssumption ==
  /\ Partial \notin Config \cup {None, Corrupt}
  /\ \A args \in CommandLines : args \in Seq(Options \cup Providers)
NoArguments == [provider |-> None, mode |-> None, save |-> FALSE, prompt |-> <<>>,
                want |-> None, rest |-> FALSE, ends |-> FALSE]
ParseValue(state, value) ==
  IF value \in Options \/ (state.want = "--mode" /\ value \notin Modes)
  THEN [state EXCEPT !.ends = TRUE]
  ELSE IF state.want = "--mode" THEN [state EXCEPT !.mode = value, !.want = None]
  ELSE [state EXCEPT !.provider = value, !.want = None]
ParseOption(state, option) ==
  CASE option = "--" -> [state EXCEPT !.rest = TRUE]
    [] option = "--save-config" -> [state EXCEPT !.save = TRUE]
    [] option \in {"--provider", "--mode"} -> [state EXCEPT !.want = option]
    [] OTHER -> [state EXCEPT !.ends = TRUE]
ParseArgument(state, arg) ==
  IF state.ends THEN state
  ELSE IF state.rest \/ (state.want = None /\ arg \notin Options)
  THEN [state EXCEPT !.prompt = Append(@, arg)]
  ELSE IF state.want # None THEN ParseValue(state, arg)
  ELSE ParseOption(state, arg)
ParseArguments(args) ==
  LET state == FoldLeft(ParseArgument, NoArguments, args)
  IN [state EXCEPT !.ends = @ \/ state.want # None]

(* effectiveConfig: the command line before the saved settings before the       *)
(* default; a provider must come from one of the first two.                     *)
OrElse(first, second) == IF first # None THEN first ELSE second
EffectiveConfig(state) ==
  [provider |-> OrElse(state.provider, Loaded.provider),
   mode |-> OrElse(OrElse(state.mode, Loaded.mode), DefaultMode)]

(* main: parse, load, and save when asked to.  A command line that ends the      *)
(* process, settings nobody can read, and a command line that saves nothing     *)
(* leave the settings alone and are no step; neither is a save that fails or is *)
(* killed, for until it renames its file it has touched nothing else.           *)
OtherProcess(args) ==
  LET state == ParseArguments(args) IN
  /\ ~ state.ends /\ ~ Unreadable /\ state.save
  /\ EffectiveConfig(state).provider # None
  /\ files' = [files EXCEPT ![SettingsPath] = EffectiveConfig(state)]
  /\ UNCHANGED saving

(* Whoever reads the settings, at any moment and after any process was killed   *)
(* or failed in the middle of a save, finds no file or a complete               *)
(* configuration, unless the user broke the file (config.ts:92: the content is  *)
(* written under another name and renamed).                                     *)
SettingsWhole == files[SettingsPath] # Partial
==============================================================================
