----------------------------- MODULE MC_SieveRun -----------------------------
(* Scripts for SieveRun: two commands and then an if, over a message with  *)
(* one ordinary header X, the protected Received (R) and an invalid name B. *)
EXTENDS SieveRun

CONSTANTS X, R, B

MCMessages ==
  {m \in [Fields -> BoundedSeq(Values, 1)] : m[B] = <<>> /\ m[R] = <<"a">>}

\* the commands a block or the top level may hold
MCCommands ==
  {[op |-> "keep"], [op |-> "discard"], [op |-> "stop"],
   [op |-> "addheader", field |-> X, value |-> "a", last |-> FALSE],
   [op |-> "deleteheader", field |-> X, index |-> 0, last |-> FALSE,
    mt |-> "is", keys |-> {}],
   [op |-> "deleteheader", field |-> X, index |-> 1, last |-> TRUE,
    mt |-> "is", keys |-> {}]}
  \cup [op: {"fileinto", "redirect"}, copy: BOOLEAN]
  \cup [op: {"vacation"}, addresses: {{}, {"s"}}]

MCAtoms ==
  {[t |-> "exists", fields |-> <<X>>],
   [t |-> "exists", fields |-> <<X, R>>],
   [t |-> "header", fields |-> <<X>>, mt |-> "is", keys |-> Keys],
   [t |-> "address", fields |-> <<X>>, mt |-> "is", keys |-> Keys],
   [t |-> "size", over |-> TRUE, size |-> MsgSize],
   [t |-> "envelope", fields |-> <<"from">>, mt |-> "is", keys |-> {""}],
   [t |-> "envelope", fields |-> <<"from", "x">>, mt |-> "is", keys |-> {"s"}],
   [t |-> "mailboxexists", boxes |-> <<"f", "g">>]}

\* no MailboxChecker; one that finds both mailboxes; one that misses "f";
\* one that finds "f" and fails on "g"
MCPolicies ==
  {[checker |-> FALSE, exists |-> {}, failing |-> {}],
   [checker |-> TRUE, exists |-> {"f", "g"}, failing |-> {}],
   [checker |-> TRUE, exists |-> {"g"}, failing |-> {}],
   [checker |-> TRUE, exists |-> {"f"}, failing |-> {"g"}]}

MCTests ==
  MCAtoms \cup {[t |-> "not", arg |-> a] : a \in MCAtoms}
  \cup {[t |-> o, args |-> <<[t |-> "size", over |-> FALSE, size |-> MsgSize + 1], a>>] :
          o \in {"allof", "anyof"}, a \in MCAtoms}

MCIfs ==
  [op: {"if"}, test: MCTests, then: {<<c>> : c \in MCCommands}, else: {<<>>}]

MCScripts == {<<a, b, i>> : a \in MCCommands, b \in MCCommands, i \in MCIfs}
=============================================================================
