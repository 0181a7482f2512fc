------------------------------ MODULE SieveRun -------------------------------
(***************************************************************************)
(* Script.Execute over one RuntimeData: the commands of a script run in    *)
(* order, tests read the message through RuntimeData.Msg (the              *)
(* EditableMessage overlay of HeaderEdits), and the delivery commands set  *)
(* the action fields the host reads afterwards: ImplicitKeep, Keep,        *)
(* Mailboxes, RedirectAddr and VacationResponses.                          *)
(*                                                                         *)
(* A script is a sequence of items; an item is a command or an if with a   *)
(* test and a then- and an else-block of commands.  Script.Execute, the    *)
(* if command and keep/discard/fileinto/redirect/stop are not in the       *)
(* source tree and follow spec.md 4.6 and 4.8; vacation, the editheader    *)
(* commands and every test are translated from the source.                 *)
(***************************************************************************)
EXTENDS Naturals, Sequences, SequencesExt

CONSTANTS
  Fields, Protected, Invalid, Values, Keys, MatchTypes, Indexes,
  PatternIndexes, Messages,      \* as in HeaderEdits
  AddrHeaders,   \* fields in allowedAddrHeaders
  MsgSize,       \* Message.MessageSize() of the original message
  Senders,       \* envelope senders (EnvelopeFrom); "" is a null sender
  MaxRedirects,  \* Options.MaxRedirects
  EnvTo,         \* EnvelopeTo()
  ValidEnvAddrs, \* the envelope addresses parseEnvelopeAddress accepts
  Policies,      \* what the host's Policy answers MailboxExists with
  Scripts        \* the scripts to run: sequences of items

VARIABLES
  base,          \* the original message headers
  edits,         \* RuntimeData.HeaderEdits
  view,          \* the header edited in place (HeaderView), a ghost
  sender,        \* d.Envelope.EnvelopeFrom()
  script,        \* the script being executed
  pc,            \* index of the next item of script
  blk,           \* commands left of the block being run
  status,        \* "running", "done" (end or stop) or "error"
  implicitKeep,  \* RuntimeData.ImplicitKeep
  keep,          \* RuntimeData.Keep
  mailboxes,     \* Len(RuntimeData.Mailboxes)
  redirects,     \* Len(RuntimeData.RedirectAddr)
  vacation,      \* the senders VacationResponses has an entry for
  issued,        \* history: the non-:copy delivery commands that took effect
  tested         \* history: <<test, Check's result, view, policy>> of the last if

vars == <<base, edits, view, sender, script, pc, blk, status, implicitKeep,
          keep, mailboxes, redirects, vacation, issued, tested>>

NoCmd == [op |-> "none"]

HE == INSTANCE HeaderEdits WITH cmd <- NoCmd, ran <- 0, MaxCmds <- 0

HV == INSTANCE HeaderView WITH cmd <- NoCmd, Matches <- HE!Matches,
                               Commands <- {}

\* d.Msg.HeaderGet(f), which replays the journal: the header tests read
Hdr(f) == HE!MsgHeaderGet(f)

(***************************************************************************)
(* Tests.  matcherTest.tryMatch with a key list: some key matches.         *)
(***************************************************************************)
TryMatch(t, v) == \E k \in t.keys : HE!Matches(t.mt, v, k)

\* testAddress with :all: "<>" and "" compare as ""; any other value is
\* the one address the value parses to
TestAddress(t, a) == TryMatch(t, a)

\* AddressTest.Check (no :count): a header with no value is tried as ""
AddressCheck(t) ==
  \E f \in {t.fields[i] : i \in 1..Len(t.fields)} \cap AddrHeaders :
    IF Hdr(f) = <<>> THEN TestAddress(t, "")
    ELSE \E i \in 1..Len(Hdr(f)) : TestAddress(t, Hdr(f)[i])

\* ExistsTest.Check: every listed header has a value
ExistsCheck(t) == \A i \in 1..Len(t.fields) : Hdr(t.fields[i]) # <<>>

\* HeaderTest.Check (no :count): some value of some listed header matches
HeaderCheck(t) ==
  \E i \in 1..Len(t.fields) :
    \E j \in 1..Len(Hdr(t.fields[i])) : TryMatch(t, Hdr(t.fields[i])[j])

\* EditableMessage.MessageSize: the original message's size, edits or not
MessageSize == MsgSize

\* SizeTest.Check: :over and :under are strict
SizeCheck(t) ==
  \/ t.over /\ MessageSize > t.size
  \/ ~t.over /\ MessageSize < t.size

\* What Check returns: a result, or an error that aborts the evaluation
Res(b) == [err |-> FALSE, ok |-> b]
Err == [err |-> TRUE, ok |-> FALSE]

\* the first position of s holding one of stops, 0 when there is none
First(s, stops) ==
  LET at == {i \in 1..Len(s) : s[i] \in stops}
  IN  IF at = {} THEN 0 ELSE Min(at)

\* the envelope value of a supported envelope-part ("auth" is left out)
EnvValue(f) == IF f = "from" THEN sender ELSE EnvTo

\* EnvelopeTest.Check (no :count): parts in order; an unsupported part is
\* an error, an invalid from/to address is skipped, "" is tested as is
EnvelopeCheck(t) ==
  LET Bad(f) == f \notin {"from", "to"}
      Hit(f) == /\ EnvValue(f) = "" \/ EnvValue(f) \in ValidEnvAddrs
                /\ TestAddress(t, EnvValue(f))
      i == First(t.fields, {f \in Range(t.fields) : Bad(f) \/ Hit(f)})
  IN  CASE i = 0              -> Res(FALSE)
        [] Bad(t.fields[i])   -> Err
        [] OTHER              -> Res(TRUE)

\* MailboxExistsTest.Check: without a MailboxChecker every mailbox exists;
\* with one, the first mailbox missing (false) or failing (error) decides
MailboxExistsCheck(t, pol) ==
  LET i == First(t.boxes, pol.failing \cup (Range(t.boxes) \ pol.exists))
  IN  CASE ~pol.checker \/ i = 0          -> Res(TRUE)
        [] t.boxes[i] \in pol.failing     -> Err
        [] OTHER                          -> Res(FALSE)

\* NotTest.Check: the result of the inner test negated, an error passed on
Negate(r) == IF r.err THEN r ELSE Res(~r.ok)

\* Test.Check for every test, under the host policy pol.  AllOfTest and
\* AnyOfTest run their tests in order and return at the first error, or at
\* the first false (allof) / true (anyof); NotTest passes an error on.
RECURSIVE Check(_, _)
Check(t, pol) ==
  LET Comb(stop) ==
        LET rs == [i \in 1..Len(t.args) |-> Check(t.args[i], pol)]
            i  == First(rs, {r \in Range(rs) : r.err \/ r.ok = stop})
        IN  IF i = 0 THEN Res(~stop) ELSE rs[i]
  IN
  CASE t.t = "true"     -> Res(TRUE)
    [] t.t = "false"    -> Res(FALSE)
    [] t.t = "exists"   -> Res(ExistsCheck(t))
    [] t.t = "header"   -> Res(HeaderCheck(t))
    [] t.t = "address"  -> Res(AddressCheck(t))
    [] t.t = "size"     -> Res(SizeCheck(t))
    [] t.t = "envelope" -> EnvelopeCheck(t)
    [] t.t = "mailboxexists" -> MailboxExistsCheck(t, pol)
    [] t.t = "not"      -> Negate(Check(t.arg, pol))
    [] t.t = "allof"    -> Comb(FALSE)
    [] t.t = "anyof"    -> Comb(TRUE)

(***************************************************************************)
(* Commands.  Each is one step of Script.Execute on the RuntimeData.       *)
(***************************************************************************)
\* CmdKeep: sets Keep; ImplicitKeep is left alone (spec.md 4.6)
Keep ==
  /\ keep' = TRUE
  /\ UNCHANGED <<status, implicitKeep, mailboxes, redirects, vacation, issued>>

\* CmdDiscard: clears ImplicitKeep
Discard ==
  /\ implicitKeep' = FALSE
  /\ issued' = issued \cup {"discard"}
  /\ UNCHANGED <<status, keep, mailboxes, redirects, vacation>>

\* mutant: ImplicitKeep set from :copy instead of left alone by it
FileIntoCopyResets(c) ==
  /\ mailboxes' = mailboxes + 1
  /\ implicitKeep' = c.copy
  /\ issued' = IF c.copy THEN issued ELSE issued \cup {"fileinto"}
  /\ UNCHANGED <<status, keep, redirects, vacation>>

\* CmdFileInto: appends the mailbox; without :copy clears ImplicitKeep
FileInto(c) ==
  /\ mailboxes' = mailboxes + 1
  /\ implicitKeep' = (implicitKeep /\ c.copy)
  /\ issued' = IF c.copy THEN issued ELSE issued \cup {"fileinto"}
  /\ UNCHANGED <<status, keep, redirects, vacation>>

\* mutant: the address appended before the MaxRedirects check fails
RedirectAppendsFirst(c) ==
  \/ /\ redirects < MaxRedirects
     /\ redirects' = redirects + 1
     /\ implicitKeep' = (implicitKeep /\ c.copy)
     /\ issued' = IF c.copy THEN issued ELSE issued \cup {"redirect"}
     /\ UNCHANGED <<status, keep, mailboxes, vacation>>
  \/ /\ redirects >= MaxRedirects
     /\ redirects' = redirects + 1
     /\ status' = "error"
     /\ UNCHANGED <<implicitKeep, keep, mailboxes, vacation, issued>>

\* CmdRedirect: appends the address, at most MaxRedirects of them (a
\* further one is a LimitExceeded error); without :copy clears ImplicitKeep
Redirect(c) ==
  \/ /\ redirects < MaxRedirects
     /\ redirects' = redirects + 1
     /\ implicitKeep' = (implicitKeep /\ c.copy)
     /\ issued' = IF c.copy THEN issued ELSE issued \cup {"redirect"}
     /\ UNCHANGED <<status, keep, mailboxes, vacation>>
  \/ /\ redirects >= MaxRedirects
     /\ status' = "error"
     /\ UNCHANGED <<implicitKeep, keep, mailboxes, redirects, vacation, issued>>

\* CmdStop: evaluation ends
Stop ==
  /\ status' = "done"
  /\ UNCHANGED <<implicitKeep, keep, mailboxes, redirects, vacation, issued>>

\* mutant: the empty-sender check dropped
VacationNoSenderCheck(c) ==
  /\ \/ /\ sender \in c.addresses
        /\ UNCHANGED <<status, implicitKeep, vacation, issued>>
     \/ /\ sender \notin c.addresses
        /\ vacation' = vacation \cup {sender}
        /\ implicitKeep' = FALSE
        /\ issued' = issued \cup {"vacation"}
        /\ UNCHANGED status
  /\ UNCHANGED <<keep, mailboxes, redirects>>

\* CmdVacation.Execute: an error without a sender; nothing when the sender
\* is one of :addresses; else a response keyed by the sender, and
\* ImplicitKeep cleared
Vacation(c) ==
  /\ \/ /\ sender = ""
        /\ status' = "error"
        /\ UNCHANGED <<implicitKeep, vacation, issued>>
     \/ /\ sender # "" /\ sender \in c.addresses
        /\ UNCHANGED <<status, implicitKeep, vacation, issued>>
     \/ /\ sender # "" /\ sender \notin c.addresses
        /\ vacation' = vacation \cup {sender}
        /\ implicitKeep' = FALSE
        /\ issued' = issued \cup {"vacation"}
        /\ UNCHANGED status
  /\ UNCHANGED <<keep, mailboxes, redirects>>

\* CmdAddHeader.Execute / CmdDeleteHeader.Execute: journal entries appended
EditHeader(c) ==
  /\ edits' = edits \o (IF c.op = "addheader" THEN HE!AddEdits(c)
                                             ELSE HE!DeleteEdits(c))
  /\ HV!AddHeader(c) \/ HV!DeleteHeader(c)
  /\ UNCHANGED <<status, implicitKeep, keep, mailboxes, redirects, vacation,
                 issued>>

\* the step of one command c
Exec(c) ==
  IF c.op \in {"addheader", "deleteheader"} THEN EditHeader(c)
  ELSE /\ CASE c.op = "keep"     -> Keep
            [] c.op = "discard"  -> Discard
            [] c.op = "fileinto" -> FileInto(c)
            [] c.op = "redirect" -> Redirect(c)
            [] c.op = "stop"     -> Stop
            [] c.op = "vacation" -> Vacation(c)
       /\ UNCHANGED <<edits, view>>

Init ==
  /\ base \in Messages
  /\ edits = <<>>
  /\ view = base
  /\ sender \in Senders
  /\ script \in Scripts
  /\ pc = 1
  /\ blk = <<>>
  /\ status = "running"
  /\ implicitKeep = TRUE
  /\ keep = FALSE
  /\ mailboxes = 0
  /\ redirects = 0
  /\ vacation = {}
  /\ issued = {}
  /\ tested = <<>>

\* Script.Execute: the next command of the running block
RunBlock ==
  /\ status = "running"
  /\ blk # <<>>
  /\ Exec(Head(blk))
  /\ blk' = Tail(blk)
  /\ UNCHANGED <<base, sender, script, pc, tested>>

\* Script.Execute: the next item is a command
RunCommand ==
  /\ status = "running"
  /\ blk = <<>>
  /\ pc <= Len(script)
  /\ script[pc].op # "if"
  /\ Exec(script[pc])
  /\ pc' = pc + 1
  /\ UNCHANGED <<base, sender, script, blk, tested>>

\* CmdIf: the test runs on d, under whatever the host's Policy answers; an
\* error aborts the evaluation, else one of the two blocks is entered
If ==
  LET it == script[pc] IN
  /\ status = "running"
  /\ blk = <<>>
  /\ pc <= Len(script)
  /\ it.op = "if"
  /\ \E pol \in Policies :
       LET r == Check(it.test, pol) IN
       /\ tested' = <<it.test, r, view, pol>>
       /\ IF r.err THEN status' = "error" /\ UNCHANGED blk
          ELSE blk' = (IF r.ok THEN it.then ELSE it.else) /\ UNCHANGED status
  /\ pc' = pc + 1
  /\ UNCHANGED <<base, edits, view, sender, script, implicitKeep,
                 keep, mailboxes, redirects, vacation, issued>>

\* Script.Execute returns after the last item
Finish ==
  /\ status = "running"
  /\ blk = <<>>
  /\ pc > Len(script)
  /\ status' = "done"
  /\ UNCHANGED <<base, edits, view, sender, script, pc, blk, implicitKeep,
                 keep, mailboxes, redirects, vacation, issued, tested>>

Next == RunBlock \/ RunCommand \/ If \/ Finish

Spec == Init /\ [][Next]_vars

-----------------------------------------------------------------------------

TypeOK ==
  /\ edits \in Seq([action: {"add", "delete"}, field: Fields,
                    value: Values \cup {""}, index: Nat, last: BOOLEAN])
  /\ view \in [Fields -> Seq(Values)]
  /\ pc \in 1..Len(script) + 1
  /\ status \in {"running", "done", "error"}
  /\ implicitKeep \in BOOLEAN /\ keep \in BOOLEAN
  /\ mailboxes \in Nat /\ redirects \in Nat
  /\ vacation \subseteq Senders \ {""}
  /\ issued \subseteq {"discard", "fileinto", "redirect", "vacation"}

(***************************************************************************)
(* spec.md 8: ImplicitKeep is true iff no non-:copy delivery command       *)
(* (discard, fileinto, redirect, vacation) has taken effect, whatever the  *)
(* order of keep, :copy deliveries, skipped vacations and stop.            *)
(***************************************************************************)
ImplicitKeepIff == implicitKeep = (issued = {})

(***************************************************************************)
(* spec.md 7: a runtime error aborts the evaluation and the host must not  *)
(* act on a partial action set.  The step that fails (vacation without an  *)
(* envelope sender, a redirect over MaxRedirects, a test whose envelope-   *)
(* part is unsupported or whose MailboxExists call fails) must itself      *)
(* record nothing: every action field is what it was before that step.     *)
(***************************************************************************)
FailedStepRecordsNothing ==
  [][status' = "error" =>
       UNCHANGED <<implicitKeep, keep, mailboxes, redirects, vacation>>]_vars

(***************************************************************************)
(* Tests see the edited header (spec.md 4.5, 4.7, RFC 5293): the result    *)
(* the last if got from Test.Check is what the test means on the header    *)
(* as addheader / deleteheader edited it in place, whenever Check did not  *)
(* end in an error.  RefCheck is that meaning, read from the RFCs: exists  *)
(* needs a value of every header; header and address need some value, some *)
(* address, to match; envelope (RFC 5228 5.4) needs a syntactically valid  *)
(* from/to address, the null sender being "", to match; mailboxexists (RFC *)
(* 5490, spec.md 4.5) needs every mailbox to exist, or no MailboxChecker.  *)
(* Short-circuiting in allof / anyof / not must not change the answer.     *)
(***************************************************************************)
RECURSIVE RefCheck(_, _, _)
RefCheck(t, hv, pol) ==
  LET Vals(f) == {hv[f][i] : i \in 1..Len(hv[f])}
  IN  CASE t.t = "true"    -> TRUE
        [] t.t = "false"   -> FALSE
        [] t.t = "exists"  -> \A f \in Range(t.fields) : Vals(f) # {}
        [] t.t = "header"  -> \E f \in Range(t.fields) : \E v \in Vals(f) : TryMatch(t, v)
        [] t.t = "address" -> \E f \in Range(t.fields) \cap AddrHeaders :
                                \E v \in Vals(f) : TryMatch(t, v)
        [] t.t = "size"    -> IF t.over THEN MsgSize > t.size ELSE MsgSize < t.size
        [] t.t = "envelope" ->
             \E f \in Range(t.fields) \cap {"from", "to"} :
               LET v == IF f = "from" THEN sender ELSE EnvTo
               IN  (v = "" \/ v \in ValidEnvAddrs) /\ TryMatch(t, v)
        [] t.t = "mailboxexists" ->
             ~pol.checker \/ Range(t.boxes) \subseteq pol.exists \ pol.failing
        [] t.t = "not"     -> ~RefCheck(t.arg, hv, pol)
        [] t.t = "allof"   -> \A i \in DOMAIN t.args : RefCheck(t.args[i], hv, pol)
        [] t.t = "anyof"   -> \E i \in DOMAIN t.args : RefCheck(t.args[i], hv, pol)

TestsSeeEdits ==
  tested # <<>> /\ ~tested[2].err =>
    tested[2].ok = RefCheck(tested[1], tested[3], tested[4])
=============================================================================
