------------------------------- MODULE Config -------------------------------
(***************************************************************************)
(* config.Load: defaults, a YAML file, environment variables and flags,    *)
(* laid over one another.  Of the settings, four stand for the ways they   *)
(* are set: `host' a string with a variable, `port' a number with one,     *)
(* `timeout' one without a variable, `trace' a switch that its variable    *)
(* can only turn on.  A value names where it comes from.                   *)
(***************************************************************************)
EXTENDS Naturals, Sequences, FiniteSetsExt, SequencesExt

Settings == {"host", "port", "timeout", "trace"}

\* Default.
Default == [s \in Settings |-> IF s = "trace" THEN "off" ELSE "default"]

-----------------------------------------------------------------------------
(* The command line, as package flag reads it *)

\* An argument is a flag with its value, or a word, which ends the flags.
Word == [flag |-> "none", val |-> "word"]

\* The first argument that a flag set knowing `flags' does not get past, or 0.
Stuck(flags, args) == SelectInSeq(args, LAMBDA a : a.flag \notin flags \/ a.val = "bad")

\* What it gets through.  An unknown flag or a bad value is an error, a word is
\* not.
Parsed(flags, args) == LET n == Stuck(flags, args) IN IF n = 0 THEN args ELSE SubSeq(args, 1, n - 1)
ParseFails(flags, args) == LET n == Stuck(flags, args) IN n # 0 /\ args[n] # Word

Given(f, args) == {i \in DOMAIN args : args[i].flag = f}

\* The value of a flag: the last one given, or the default it is bound with.
FlagValue(f, args, bound) == IF Given(f, args) = {} THEN bound
                                                    ELSE args[Max(Given(f, args))].val

-----------------------------------------------------------------------------
(* Load *)

\* The first pass knows -config alone, and its error is dropped.
ConfigPath(args, env) == FlagValue("config", Parsed({"config"}, args), env.config)

\* loadYAML sets what the file mentions.
loadYAML(file, cfg) == [s \in Settings |-> IF s \in DOMAIN file THEN file[s] ELSE cfg[s]]

\* applyEnv: an empty variable and a port that is no number change nothing.
applyEnv(env, cfg) ==
  [cfg EXCEPT !.host = IF env.host # "" THEN env.host ELSE @,
              !.port = IF env.port \notin {"", "bad"} THEN env.port ELSE @,
              !.trace = IF env.trace = "1" THEN "on" ELSE @]

\* Variant of Bound: the flags are bound with the baseline values.
BoundToDefault(cfg) == Default

\* The second pass binds every flag with the value found so far.
Bound(cfg) == cfg

\* files maps a path to what the file sets; a path outside cannot be read.
Load(args, env, files) ==
  LET path   == ConfigPath(args, env)
      flags  == Settings \cup {"config"}
      file   == IF path = "" THEN <<>> ELSE files[path]
      cfg    == applyEnv(env, loadYAML(file, Default))
      fs2    == Parsed(flags, args)
  IN IF path # "" /\ path \notin DOMAIN files THEN [ok |-> FALSE]
     ELSE IF ParseFails(flags, args) THEN [ok |-> FALSE]
     ELSE [ok |-> TRUE,
           cfg |-> [s \in Settings |-> FlagValue(s, fs2, Bound(cfg)[s])]]

-----------------------------------------------------------------------------
(* What it promises *)

Args == {[flag |-> "config", val |-> "a"], [flag |-> "config", val |-> "gone"],
         [flag |-> "host", val |-> "flag1"], [flag |-> "host", val |-> "flag2"],
         [flag |-> "port", val |-> "flag1"], [flag |-> "port", val |-> "bad"],
         [flag |-> "timeout", val |-> "flag1"], [flag |-> "trace", val |-> "off"], Word}

Envs == [host : {"", "env"}, port : {"", "env", "bad"}, trace : {"", "0", "1"}, config : {"", "b"}]

Files == [a |-> [host |-> "a", port |-> "a", timeout |-> "a", trace |-> "on"],
          b |-> [port |-> "b", timeout |-> "b"]]

\* The flags proper: what precedes the first word.
Flags(args) == LET w == {i \in DOMAIN args : args[i] = Word}
               IN IF w = {} THEN args ELSE SubSeq(args, 1, Min(w) - 1)

ConfigFirst(args) == \A i, j \in DOMAIN args :
  args[j].flag = "config" /\ i < j => args[i].flag = "config"

\* The layers of a setting, lowest first, each the values it offers.
Layers(s, args, env) ==
  LET flags == Flags(args)
      path  == FlagValue("config", flags, env.config)
      file  == IF path \in DOMAIN Files THEN Files[path] ELSE <<>>
      var   == CASE s = "host" -> {env.host} \ {""}
                 [] s = "port" -> {env.port} \ {"", "bad"}
                 [] s = "trace" -> {"on" : x \in {env.trace} \cap {"1"}}
                 [] OTHER -> {}
  IN <<{Default[s]}, {file[x] : x \in {s} \cap DOMAIN file}, var,
       {FlagValue(s, flags, "") : i \in Given(s, flags)}>>

\* The README's "YAML file < environment < flags": with -config before every
\* other flag, each setting comes from the highest layer that has it, whichever
\* way the others are given, and Load fails for a file it cannot read, a flag's
\* bad value and nothing else.
Precedence ==
  \A args \in BoundedSeq(Args, 3), env \in Envs :
    ConfigFirst(args) =>
      LET r == Load(args, env, Files)
          flags == Flags(args)
      IN /\ r.ok <=> /\ FlagValue("config", flags, env.config) # "gone"
                     /\ \A i \in DOMAIN flags : flags[i].val # "bad"
         /\ r.ok => \A s \in Settings :
              LET l == Layers(s, args, env)
              IN r.cfg[s] \in l[Max({k \in DOMAIN l : l[k] # {}})]
=============================================================================
