---------------------------- MODULE CommandLabels ----------------------------
(* How the Pi runtime names the shell command a tool runs, for messages that   *)
(* outlive the run: it peels the wrappers off the command and labels what is   *)
(* left from a closed vocabulary (classify_bash_command, runtime.rs).          *)
(*                                                                             *)
(* A word is an atom, or a quoted text with the words inside it. The atoms are *)
(* representatives of the source's tables. Characters, escapes, fingerprints   *)
(* and the bounds on lengths are left out.                                     *)
EXTENDS Naturals, Sequences, FiniteSets, SequencesExt

CONSTANTS
    Rounds,     \* the rounds of peeling (6 in the source)
    MaxLayers   \* bound: the wrappers around a command

ASSUME LabelsAssumption == Rounds \in Nat /\ MaxLayers \in Nat

VARIABLES
    stage,    \* "write": the agent's command grows; "peel"; "named"
    plain,    \* the command the agent means to run
    layers,   \* how many wrappers it put around it
    misread,  \* history: one of them has an argument the tables get wrong
    text,     \* the command as the agent wrote it
    tokens,   \* what is left of it
    round,    \* rounds of peeling done
    label     \* class, program and subcommand

labelVars == <<stage, plain, layers, misread, text, tokens, round, label>>

-----------------------------------------------------------------------------
(* Words *)

Atom(a) == [atom |-> a, inner |-> <<>>]
Quoted(command) == [atom |-> "", inner |-> command]
Words(atoms) == [i \in DOMAIN atoms |-> Atom(atoms[i])]

(* The words of a command that are none of these atoms, in their order         *)
Dropping(command, atoms) ==
    LET kept == {i \in DOMAIN command : command[i].atom \notin atoms}
        before(i) == {j \in kept : j < i}
    IN [k \in 1 .. Cardinality(kept) |->
           command[CHOOSE i \in kept : Cardinality(before(i)) = k - 1]]

(* split_shell_words: a separator ends a word and is gone                      *)
Separator == {";"}
Split(command) == Dropping(command, Separator)

(* exe_basename *)
Base(word) ==
    CASE word.atom = "/usr/bin/sudo" -> "sudo"
      [] word.atom = "/bin/bash" -> "bash"
      [] OTHER -> word.atom

(* WRAPPER_VALUE_FLAGS, one table for every wrapper                            *)
ValueFlags ==
    {"-u", "--user", "-g", "--group", "-s", "--signal", "--kill-after", "-n", "-o", "-e", "-i",
     "--unset", "-C", "--directory"}
Flags == {"-c", "-lc", "-p", "-x"} \union ValueFlags
IsFlag(word) == word.atom \in Flags
IsShellC(word) == word.atom \in {"-c", "-lc"}
IsAssignment(word) == word.atom = "FOO=bar"
IsNumber(word) == word.atom \in {"5", "10", "300"}     \* is_bare_number

NoValue(word) == FALSE  \* mutant: every flag is skipped singly
TakesValue(word) == word.atom \in ValueFlags

Shells == {"bash", "sh"}                     \* SHELL_PROGRAMS
Openers == {"sudo", "env", "time", "nice"}  \* wrappers without an operand
KnownPrograms == {"cargo", "git", "ls", "pytest"}    \* KNOWN_PROGRAMS
Summarised == {"cargo", "git"}               \* SUMMARY_WITH_SUBCOMMAND
Allowed(program, sub) ==                     \* allowed_subcommand
    \/ program = "cargo" /\ sub \in {"test", "build"}
    \/ program = "git" /\ sub \in {"push", "status"}
NoCandidate == {"/tmp/s"} \union Flags \union {"FOO=bar"}

(* subcommand_candidate: the first operand, allowed or not                     *)
Candidate(words, i) ==
    /\ i \in 2 .. Len(words) /\ words[i].atom \notin NoCandidate
    /\ \A j \in 2 .. i - 1 : words[j].atom \in NoCandidate
Subcommand(words) ==
    {words[i].atom : i \in {j \in DOMAIN words :
        Candidate(words, j) /\ Allowed(Base(words[1]), words[j].atom)}}

(* classify_tokens; subs has at most one member                                *)
ClassOf(program, subs) ==
    CASE program = "cargo" /\ "test" \in subs -> "cargo-test"
      [] program = "cargo" /\ "build" \in subs -> "cargo-build"
      [] program = "cargo" /\ subs = {} -> "cargo"
      [] program = "git" -> "git"
      [] program = "pytest" -> "python-test"
      [] program = "ls" -> "shell-inspect"
      [] OTHER -> "generic-shell"

Generic == [class |-> "generic-shell", program |-> "none", sub |-> {}]

(* classify_bash_command, of the words that are left                           *)
LabelOf(words) ==
    IF words # <<>> /\ Base(words[1]) \in KnownPrograms
    THEN LET program == Base(words[1])
             subs == Subcommand(words)
         IN [class |-> ClassOf(program, subs), program |-> program,
             sub |-> IF program \in Summarised THEN subs ELSE {}]
    ELSE Generic

-----------------------------------------------------------------------------
(* skip_wrapper_lead: the words it takes away. (No value here is a flag with a  *)
(* value of its own.)                                                          *)

IsLead(words, i, numbers) ==
    \/ IsFlag(words[i])
    \/ i > 1 /\ TakesValue(words[i - 1])
    \/ IsAssignment(words[i])
    \/ numbers /\ IsNumber(words[i])

From(words, i) == SubSeq(words, i, Len(words))
(* words without the longest prefix of wrapper arguments                       *)
SkipLead(words, numbers) ==
    From(words, CHOOSE i \in 1 .. Len(words) + 1 :
        /\ \A j \in 1 .. i - 1 : IsLead(words, j, numbers)
        /\ i <= Len(words) => ~IsLead(words, i, numbers))

(* join and split again: the words inside the quotes come out                  *)
Unquoted(words) ==
    FlattenSeq([i \in DOMAIN words |->
        IF words[i].inner = <<>> THEN <<words[i]>> ELSE Split(words[i].inner)])

-----------------------------------------------------------------------------
(* The commands agents write *)

Plain ==
    {Words(<<"cargo", "test">>), Words(<<"cargo", "-x", "build">>),
     Words(<<"cargo", "/tmp/s">>), Words(<<"git", "/tmp/s", "push">>),
     Words(<<"git", "secret">>), Words(<<"ls", "test">>), Words(<<"pytest", "-x">>),
     Words(<<"secret", "push">>), Words(<<"bash", "-x", "/tmp/s", "test">>),
     Words(<<"sh", "-c">>)}

(* Wrappers whose arguments the tables read as the wrapper does                *)
ReadLayer ==
    {"sudo", "user", "env", "assignment", "time", "nice", "timeout", "kill", "shell"}
(* and some they do not: the -n of sudo and the -i of env take no value, and a *)
(* duration with a unit is no number.                                          *)
MisreadLayer == {"sudo -n", "env -i", "timeout 5m"}

Wrapped(layer, command) ==
    CASE layer = "sudo" -> Words(<<"/usr/bin/sudo">>) \o command
      [] layer = "user" -> Words(<<"sudo", "-u", "secret">>) \o command
      [] layer = "env" -> Words(<<"env", "FOO=bar">>) \o command
      [] layer = "assignment" -> Words(<<"FOO=bar">>) \o command
      [] layer = "time" -> Words(<<"time", "-p">>) \o command
      [] layer = "nice" -> Words(<<"nice", "-n", "10">>) \o command
      [] layer = "timeout" -> Words(<<"timeout", "300">>) \o command
      [] layer = "kill" -> Words(<<"timeout", "--kill-after", "5", "300">>) \o command
      [] layer = "sudo -n" -> Words(<<"sudo", "-n">>) \o command
      [] layer = "env -i" -> Words(<<"env", "-i">>) \o command
      [] layer = "timeout 5m" -> Words(<<"timeout", "5m">>) \o command
      [] OTHER -> Words(<<"/bin/bash", "-lc">>) \o <<Quoted(command)>>

LabelsInit ==
    /\ stage = "write"
    /\ plain \in Plain
    /\ layers = 0
    /\ misread = FALSE
    /\ text = plain
    /\ tokens = <<>>
    /\ round = 0
    /\ label = Generic

Wrap(layer) ==
    /\ stage = "write" /\ layers < MaxLayers
    /\ layers' = layers + 1
    /\ misread' = (misread \/ layer \in MisreadLayer)
    /\ text' = Wrapped(layer, text)
    /\ UNCHANGED <<stage, plain, tokens, round, label>>

(* classify_bash_command begins: peel_shell_tokens splits the text             *)
Classify ==
    /\ stage = "write"
    /\ stage' = "peel"
    /\ tokens' = Split(text)
    /\ UNCHANGED <<plain, layers, misread, text, round, label>>

-----------------------------------------------------------------------------
(* A round of peel_shell_tokens *)

Peels == stage = "peel" /\ round < Rounds /\ tokens # <<>>
First == Base(tokens[1])
Left(words) ==
    /\ tokens' = words
    /\ round' = round + 1
    /\ UNCHANGED <<stage, plain, layers, misread, text, label>>

CFlags == {i \in DOMAIN tokens : IsShellC(tokens[i])}

(* bash -c: what follows the first such flag                                   *)
PeelShell ==
    /\ Peels /\ First \in Shells
    /\ \E i \in CFlags :
          /\ \A j \in CFlags : i <= j
          /\ Left(Unquoted(From(tokens, i + 1)))

(* bash script: the shell goes, and every flag                                 *)
PeelScript ==
    /\ Peels /\ First \in Shells /\ CFlags = {}
    /\ Left(Dropping(Tail(tokens), Flags))

PeelPrefix == Peels /\ First \in Openers /\ Left(SkipLead(Tail(tokens), FALSE))
PeelTimeout == Peels /\ First = "timeout" /\ Left(SkipLead(Tail(tokens), TRUE))
PeelAssignments == Peels /\ IsAssignment(tokens[1]) /\ Left(SkipLead(tokens, FALSE))

Peelable ==
    First \in Shells \union Openers \union {"timeout"} \/ IsAssignment(tokens[1])

Name ==
    /\ stage = "peel"
    /\ ~(Peels /\ Peelable)
    /\ label' = LabelOf(tokens)
    /\ stage' = "named"
    /\ UNCHANGED <<plain, layers, misread, text, tokens, round>>

LabelsNext ==
    \/ \E layer \in ReadLayer \union MisreadLayer : Wrap(layer)
    \/ Classify
    \/ PeelShell
    \/ PeelScript
    \/ PeelPrefix
    \/ PeelTimeout
    \/ PeelAssignments
    \/ Name

LabelsSpec == LabelsInit /\ [][LabelsNext]_labelVars

-----------------------------------------------------------------------------
(* Properties *)

(* "so `bash -lc`, `sudo`, `env FOO=x`, and `timeout 300` prefixes still       *)
(* identify the underlying program": as many wrappers as there are rounds, in  *)
(* any order and nested in quotes, do not change the label of the command, and *)
(* a word outside the vocabulary gets no name from them, when the arguments of *)
(* each are ones the tables read as that wrapper does.                         *)
ReadWrappersAreTransparent ==
    stage = "named" /\ layers <= Rounds /\ ~misread => label = LabelOf(Split(plain))

(* The same of any wrapper, which is false: `sudo -n` and `env -i` take the    *)
(* program of the command for a value, and `timeout 5m` hides it.              *)
AnyWrapperIsTransparent ==
    stage = "named" /\ layers <= Rounds => label = LabelOf(Split(plain))
=============================================================================
