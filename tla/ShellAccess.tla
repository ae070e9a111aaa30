----------------------------- MODULE ShellAccess -----------------------------
(***************************************************************************)
(* Which files a shell command of the agent reads and writes, as           *)
(* _parse_shell_command_access finds it in the command's tokens. The       *)
(* access check and the bandit counts rest on it. Python one-liners, which *)
(* are searched with regular expressions, and the command inside a         *)
(* bash -c are left out.                                                   *)
(*                                                                         *)
(* A token stands for its class: "cat" for the printing commands none of   *)
(* whose options takes a value, "sudo" for the wrappers without arguments  *)
(* of their own, "timeout" for those with, "-n" and "-f" for the options   *)
(* that _path_args takes for such with a value, "-q" for one without,      *)
(* "other" for a command the parser does not know, "word" for what does    *)
(* not look like a path, "/x/d" for a script of sed, which does. A line    *)
(* break is no token, for the lexer drops it: a command is its tokens and  *)
(* the places of those that begin a line.                                  *)
(***************************************************************************)
EXTENDS SequencesExt

Separators == {"|", ";"}
Wrappers == {"sudo", "timeout", "env"}
Printing == {"cat", "head", "sed", "jq"}
Files == {"p", "q"}
Tokens == Separators \cup Wrappers \cup Files
            \cup Printing
            \cup {"rg", "tee", "other", "-n", "-f", "-q", "A=1", "&",
                  ">", "<", "word", "/x/d"}

(* _looks_like_path: a slash, a wildcard or a known suffix. *)
LooksLikePath(t) == t \in Files \cup {"/x/d"}

(* _shell_command_segments: the parts between separators that hold anything. *)
Take(t, segments) ==
  IF t \in Separators THEN Cons(<<>>, segments)
  ELSE Cons(Cons(t, segments[1]), Tail(segments))

Segments(tokens) == ToSet(FoldRight(Take, tokens, << <<>> >>)) \ {<<>>}

(* _strip_env_assignments *)
StripEnvAssignments(tokens) ==
  LET kept == {i \in DOMAIN tokens : tokens[i] \notin {"env", "A=1"}}
  IN  IF kept = {} THEN <<>> ELSE SubSeq(tokens, Min(kept), Len(tokens))

(* A segment without assignments and without a command that runs another.   *)
Command(segment) ==
  LET tokens == StripEnvAssignments(segment)
  IN  IF Len(tokens) > 1 /\ tokens[1] \in Wrappers
      THEN StripEnvAssignments(Tail(tokens)) ELSE tokens

(* The paths among the arguments; what follows a token of Skips is none.    *)
Scan(Skips, found, t) ==
  IF found.skip THEN [found EXCEPT !.skip = FALSE]
  ELSE IF t \in Skips THEN [found EXCEPT !.skip = TRUE]
  ELSE IF LooksLikePath(t) THEN [found EXCEPT !.paths = @ \cup {t}]
  ELSE found

PathsAfter(args, Skips) ==
  FoldLeft(LAMBDA found, t : Scan(Skips, found, t),
           [paths |-> {}, skip |-> FALSE], args).paths

(* _path_args: one set of options that take a value for every command. *)
PathArgs(args) == PathsAfter(args, {"-n", "-f", ">", "<"})

(* _jq_path_args: of the options only those of jq itself take a value. *)
JqPathArgs(args) == PathsAfter(args, {"-f"})

(* _grep_request_from_tokens: the first operand is the pattern. *)
GrepScan(found, t) ==
  IF found.skip THEN [found EXCEPT !.skip = FALSE]
  ELSE IF t = "-f" THEN [found EXCEPT !.skip = TRUE]
  ELSE IF t \in {"-q", "-n"} THEN found
  ELSE IF ~found.pattern THEN [found EXCEPT !.pattern = TRUE]
  ELSE [found EXCEPT !.paths = @ \cup {u \in {t} : LooksLikePath(u)}]

GrepPaths(args) ==
  FoldLeft(GrepScan, [paths |-> {}, skip |-> FALSE, pattern |-> FALSE], args).paths

(* _redirect_paths *)
RedirectPaths(tokens) ==
  {tokens[i + 1] : i \in {j \in 1..Len(tokens) - 1 :
                            tokens[j] = ">" /\ LooksLikePath(tokens[j + 1])}}

(* Redirections count only in a command that prints. *)
FaultWrites(tokens) ==
  IF tokens[1] \in Printing \cup {"rg"} THEN RedirectPaths(tokens)
  ELSE IF tokens[1] = "tee" THEN PathArgs(Tail(tokens)) ELSE {}

CommandWrites(tokens) ==
  RedirectPaths(tokens) \cup (IF tokens[1] = "tee" THEN PathArgs(Tail(tokens)) ELSE {})

CommandReads(tokens) ==
  CASE tokens[1] \in Printing \ {"jq"} -> PathArgs(Tail(tokens))
    [] tokens[1] = "jq"                 -> JqPathArgs(Tail(tokens))
    [] OTHER                            -> {}

Commands(tokens) ==
  {Command(s) : s \in Segments(tokens)} \ {<<>>}

(* _parse_shell_command_access *)
Access(tokens) ==
  [read_paths    |-> UNION {CommandReads(c) : c \in Commands(tokens)},
   written_paths |-> UNION {CommandWrites(c) : c \in Commands(tokens)},
   grep_paths    |-> UNION {GrepPaths(Tail(c)) : c \in {d \in Commands(tokens) : d[1] = "rg"}}]

-----------------------------------------------------------------------------
(* Reference: what the shell does, token by token *)

(* The place behind the last token before i that ends a part. *)
BehindLast(tokens, Ends, i) == Max({1} \cup {j \in 2..i : tokens[j - 1] \in Ends})

(* The place where the command of a place begins: also an & and a line      *)
(* break end a command.                                                     *)
Start(tokens, lines, i) ==
  Max({BehindLast(tokens, Separators \cup {"&"}, i)} \cup {j \in lines : j <= i})

(* What may stand before the name of a command: assignments, wrappers with  *)
(* their options and arguments, redirections.                               *)
Leads(tokens, s, j) ==
  \/ tokens[j] \in {"A=1", ">", "<"} \cup Wrappers
  \/ tokens[j] \in {"-q", "-n", "-f"} /\ \E l \in s..j - 1 : tokens[l] \in Wrappers
  \/ j > s /\ tokens[j - 1] \in {"timeout", "-f", ">", "<"}

(* Does the token at k name the command that the token at i belongs to?     *)
Runs(tokens, lines, k, i) ==
  LET s == Start(tokens, lines, i)
  IN  /\ Start(tokens, lines, k) = s
      /\ k = s \/ tokens[k - 1] \notin {"timeout", "-f", ">", "<"}
      /\ \A j \in s..k - 1 : Leads(tokens, s, j)

(* The options of a command that take a value. *)
Values(cmd) ==
  CASE cmd = "head" -> {"-n"}
    [] cmd \in {"sed", "jq"} -> {"-f"}
    [] OTHER -> {}

Operand(tokens, k, i) ==
  /\ k < i /\ tokens[i] \notin {"-n", "-f", "-q", ">", "<"}
  /\ tokens[i - 1] \notin {">", "<"} \cup Values(tokens[k])

(* The command at k prints the file at i: an operand, of sed and jq behind  *)
(* the script or the filter, or its input.                                  *)
Prints(tokens, k, i) ==
  /\ tokens[k] \in Printing
  /\ \/ i > 1 /\ tokens[i - 1] = "<"
     \/ /\ Operand(tokens, k, i)
        /\ tokens[k] \in {"sed", "jq"} =>
             \E j \in k + 1..i - 1 : Operand(tokens, k, j) \/ tokens[j] = "-f"

(* What the parser misses. A name: it sees it only at the beginning of a    *)
(* part, behind assignments and one wrapper, so not behind an & or a line   *)
(* break, a second wrapper, arguments of a wrapper or a redirection.        *)
Hidden(tokens, k) ==
  LET before == BehindLast(tokens, Separators, k)..k - 1
  IN  \/ \E j \in before : tokens[j] \notin {"A=1"} \cup Wrappers
      \/ \E j, l \in before : j # l /\ {tokens[j], tokens[l]} \subseteq {"sudo", "timeout"}

(* And a file: behind an option that takes a value, if only for another     *)
(* command, or as the input. jq has a parser of its own.                    *)
Swallowed(tokens, k, i) ==
  tokens[k] # "jq" /\ i > 1 /\ tokens[i - 1] \in {"-n", "-f", "<"}

(* Every file that a command prints is reported as read and every file that *)
(* a redirection or tee writes as written, in every part of a pipeline, but *)
(* for what the parser misses.                                              *)
AccessReported(tokens, lines) ==
  \A i \in DOMAIN tokens : tokens[i] \in Files =>
    /\ i > 1 /\ tokens[i - 1] = ">" => tokens[i] \in Access(tokens).written_paths
    /\ \A k \in DOMAIN tokens :
         Runs(tokens, lines, k, i) /\ ~Hidden(tokens, k) /\ ~Swallowed(tokens, k, i) =>
           /\ tokens[k] = "tee" /\ Operand(tokens, k, i)
                => tokens[i] \in Access(tokens).written_paths
           /\ Prints(tokens, k, i) => tokens[i] \in Access(tokens).read_paths

(* Only what is a file is reported as read: the agent is told that it read  *)
(* what the report names.                                                   *)
ReportedAreFiles(tokens) == Access(tokens).read_paths \subseteq Files
=============================================================================
