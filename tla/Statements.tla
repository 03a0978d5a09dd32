----------------------------- MODULE Statements -----------------------------
(***************************************************************************)
(* The grammar of L's statements as a reference definition of the token    *)
(* sequences that the parser in Commands is to accept:                     *)
(*                                                                         *)
(*   command  -> ; | simple | while paren body                             *)
(*               | if paren body [else body]                               *)
(*   block    -> { commands }          body -> command, or block           *)
(*   commands -> empty | commands command                                  *)
(*   programs -> empty | programs decl | programs command                  *)
(*                                                                         *)
(* where the two bodies of a conditional are of the same kind.             *)
(***************************************************************************)
EXTENDS Commands

Concat(A, B) == {p[1] \o p[2] : p \in A \X B}
Bodies == {"command", "block"}

(* What of each kind has no tokens, ...                                    *)
Empty ==
  [command |-> {}, block |-> {}, commands |-> {<<>>}, programs |-> {<<>>}]

(* ...and what has n, given those of fewer: g[k + 1] has those of k.       *)
Level(g, n) ==
  LET Of(kind, k) == IF k \in 0..(n - 1) THEN g[k + 1][kind] ELSE {}
      simple == IF n = 1 THEN {<<"semicolon">>, <<"simple">>} ELSE {}
      loops == UNION {Concat({<<"while", "paren">>}, Of(body, n - 2)) :
                        body \in Bodies}
      ifs == UNION {Concat({<<"if", "paren">>}, Of(body, n - 2)) : body \in Bodies}
      IfElses(body) == UNION {Concat(Concat({<<"if", "paren">>}, Of(body, k)),
                                     Concat({<<"else">>}, Of(body, n - 3 - k))) :
                                k \in 1..n}
      ifElses == UNION {IfElses(body) : body \in Bodies}
      command == simple \union loops \union ifs \union ifElses
      Last(k) == IF k = n THEN command ELSE Of("command", k)
  IN [command  |-> command,
      block    |-> Concat({<<"lcurly">>},
                          Concat(Of("commands", n - 2), {<<"rcurly">>})),
      commands |-> UNION {Concat(Of("commands", n - k), Last(k)) : k \in 1..n},
      programs |-> Concat(Of("programs", n - 1), {<<"decl">>})
                     \union UNION {Concat(Of("programs", n - k), Last(k)) :
                                     k \in 1..n}]

(* All levels up to the nth.                                               *)
Levels[n \in Nat] ==
  IF n = 0 THEN <<Empty>>
  ELSE LET g == Levels[n - 1] IN Append(g, Level(g, n))

Grammar == [n \in 0..MaxTokens |-> Levels[n][n + 1]]

(* A program accepted without an error is a sentence of the grammar: no    *)
(* stale token past the end of the file completes a statement, and no      *)
(* block or else is left open.                                             *)
AcceptsSentences == Accepted => input \in Grammar[Len(input)].programs
=============================================================================
