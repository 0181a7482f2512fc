---------------------------- MODULE DovecotTest ----------------------------
(***************************************************************************)
(* The Dovecot test-suite dialect (unnamed/part_004): a script made of     *)
(* `test` blocks, each run by CmdDovecotTest.Execute on d.Copy() inside    *)
(* t.Run, with test_set, test_config_set, test_fail and stop in the block. *)
(*                                                                         *)
(* RuntimeData.Copy is not in the tree: following spec.md 4.8 it is a      *)
(* snapshot of the variables and the message, and, following spec.md 5    *)
(* ("Script objects ... may be shared"), the copy points to the same       *)
(* Script, whose opts test_config_set writes.                              *)
(***************************************************************************)
EXTENDS Naturals, Sequences

CONSTANTS
  Suites,     \* the scripts: sequences of [name, cmds] test blocks
  Disabled,   \* Script.opts.DisabledTests
  DefaultLen  \* MaxVariableLen after `test_config_set :unset` (4000)

\* strconv.Atoi on the test_config_set values used ("10", "x")
AtoiOK(v) == v # "x"
AtoiVal(v) == IF v = "10" THEN 10 ELSE 0

VARIABLES
  suite,    \* the script being run
  blk,      \* the test block running or next (Len(suite) + 1: done)
  at,       \* the command of the block about to run; 0: block not started
  variables, \* the outer RuntimeData's Variables
  msg,      \* the outer RuntimeData's Msg
  maxLen,   \* d.Script.opts.MaxVariableLen, shared by every copy
  tvars,    \* testData.Variables
  tmsg,     \* testData.Msg
  failMsg,  \* testData.testFailMessage
  report,   \* report[k]: what t.Run recorded for block k
  failed,   \* history: blocks in which test_fail ran or a command failed
  saved     \* history: <<variables, msg, maxLen>> when the running block began

vars == <<suite, blk, at, variables, msg, maxLen, tvars, tmsg, failMsg,
          report, failed, saved>>

Init ==
  /\ suite \in Suites
  /\ blk = 1
  /\ at = 0
  /\ variables = [v \in {"v"} |-> ""]
  /\ msg = "m0"
  /\ maxLen = DefaultLen
  /\ tvars = variables
  /\ tmsg = msg
  /\ failMsg = ""
  /\ report = [k \in 1..Len(suite) |-> "none"]
  /\ failed = {}
  /\ saved = <<variables, msg, maxLen>>

\* the end of t.Run: record the outcome r and return to the outer script
EndTest(r) ==
  /\ report' = [report EXCEPT ![blk] = r]
  /\ blk' = blk + 1
  /\ at' = 0

\* expandVars on test_fail's message
Expand(m) == IF m = "${v}" THEN tvars["v"] ELSE m

\* CmdDovecotTest.Execute up to the command loop: testData := d.Copy(),
\* testFailMessage reset; a disabled test is skipped by t.Skip
StartTest ==
  /\ blk <= Len(suite)
  /\ at = 0
  /\ saved' = <<variables, msg, maxLen>>
  /\ tvars' = variables
  /\ tmsg' = msg
  /\ failMsg' = ""
  /\ CASE suite[blk].name \in Disabled -> EndTest("skip")
       [] suite[blk].cmds = <<>>       -> EndTest("pass")
       [] OTHER -> at' = 1 /\ UNCHANGED <<report, blk>>
  /\ UNCHANGED <<suite, variables, msg, maxLen, failed>>

\* mutant: every error taken for ErrStop
ReportStopAll(err, fm) == IF fm # "" THEN "fail" ELSE "pass"

\* how the loop ends on the error err: ErrStop reports test_fail's message
\* with t.Errorf when there is one; any other error is t.Fatal
Report(err, fm) ==
  CASE err = "stop" /\ fm # "" -> "fail"
    [] err = "stop"             -> "pass"
    [] OTHER                    -> "fatal"

\* one cmd.Execute(ctx, testData) of the loop, then the loop's reaction
\* to its error
RunCmd ==
  LET c == suite[blk].cmds[at]
      err == CASE c.op = "test_fail"                   -> "stop"
               [] c.op = "stop"                        -> "stop"
               [] c.op = "test_set" /\ c.var = "message" /\ c.val = "bad"
                                                       -> "parse"
               [] c.op = "test_config_set"
                    /\ c.key # "sieve_variables_max_variable_size"
                                                       -> "unknown key"
               [] c.op = "test_config_set" /\ ~c.unset /\ ~AtoiOK(c.val)
                                                       -> "atoi"
               [] OTHER                                -> "none"
      fm == IF c.op = "test_fail" THEN Expand(c.msg) ELSE failMsg
  IN
  /\ blk <= Len(suite)
  /\ at \in 1..Len(suite[blk].cmds)
  \* CmdDovecotTestSet: "message" replaces Msg, other names set a variable
  /\ tvars' = IF c.op = "test_set" /\ c.var # "message"
              THEN [tvars EXCEPT ![c.var] = c.val] ELSE tvars
  /\ tmsg' = IF c.op = "test_set" /\ c.var = "message" /\ err = "none"
             THEN c.val ELSE tmsg
  \* CmdDovecotConfigSet writes the Script's options
  /\ maxLen' = IF c.op = "test_config_set" /\ err = "none"
               THEN IF c.unset THEN DefaultLen ELSE AtoiVal(c.val)
               ELSE maxLen
  /\ failMsg' = fm
  /\ failed' = IF c.op = "test_fail" \/ err \notin {"none", "stop"}
               THEN failed \cup {blk} ELSE failed
  /\ IF err # "none"
     THEN EndTest(Report(err, fm))
     ELSE IF at = Len(suite[blk].cmds)
     THEN EndTest("pass")
     ELSE at' = at + 1 /\ UNCHANGED <<report, blk>>
  /\ UNCHANGED <<suite, variables, msg, saved>>

Next == StartTest \/ RunCmd

Spec == Init /\ [][Next]_vars

-----------------------------------------------------------------------------

(***************************************************************************)
(* The harness surfaces every test_fail (spec.md 7: "test_fail ... is      *)
(* recorded into a per-test message and surfaced by the enclosing test     *)
(* harness") and every failing command: a block ends reported as failed    *)
(* exactly when test_fail ran in it or one of its commands failed, and a   *)
(* `stop` in it does not fail it.                                          *)
(***************************************************************************)
FailuresReported ==
  \A k \in 1..Len(suite) :
    report[k] \in {"pass", "fail", "fatal"} =>
      (report[k] \in {"fail", "fatal"} <=> k \in failed)

(***************************************************************************)
(* A test block runs in a scope of its own (spec.md 4.8: the nested        *)
(* evaluation uses a Copy() "so failures in the nested scope do not mutate *)
(* the outer one"): when a block ends, the outer evaluation's variables,   *)
(* message and the options of its Script are those it had when the block   *)
(* began.                                                                  *)
(***************************************************************************)
NestedScopeIsolated ==
  at = 0 => saved = <<variables, msg, maxLen>>
=============================================================================
