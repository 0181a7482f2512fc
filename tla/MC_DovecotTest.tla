--------------------------- MODULE MC_DovecotTest ---------------------------
EXTENDS DovecotTest

\* the commands a test block is written with, but for test_config_set and
\* test_fail, which the runs choose
MCBaseCmds ==
  { [op |-> "test_set", var |-> "v", val |-> "x"],
    [op |-> "test_set", var |-> "message", val |-> "m1"],
    [op |-> "test_set", var |-> "message", val |-> "bad"],
    [op |-> "stop"] }

MCConfigCmds ==
  { [op |-> "test_config_set", key |-> "sieve_variables_max_variable_size",
     unset |-> u, val |-> v] : u \in BOOLEAN, v \in {"10", "x"} }
  \cup { [op |-> "test_config_set", key |-> "sieve_other", unset |-> FALSE,
          val |-> "10"] }

\* suites of two blocks of at most two commands; the second block is
\* named t2 or the disabled t3
MCSuites(cmds) ==
  LET blocks == {<<>>} \cup {<<c>> : c \in cmds} \cup {<<c, e>> : c, e \in cmds}
  IN  { << [name |-> "t1", cmds |-> b1], [name |-> n2, cmds |-> b2] >> :
          b1, b2 \in blocks, n2 \in {"t2", "t3"} }

\* test_fail with a literal message
MCFailSuites ==
  MCSuites(MCBaseCmds \cup MCConfigCmds
           \cup {[op |-> "test_fail", msg |-> "oops"]})

\* test_fail whose message is "${v}"
MCExpandSuites ==
  MCSuites(MCBaseCmds \cup {[op |-> "test_fail", msg |-> "${v}"]})

\* test_config_set only among the commands
MCConfigSuites == MCSuites(MCBaseCmds \cup MCConfigCmds)
=============================================================================
